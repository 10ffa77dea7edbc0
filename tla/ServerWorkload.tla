--------------------------- MODULE ServerWorkload ---------------------------
(***************************************************************************)
(* The server under every load its devices can put on it: each device acts *)
(* on any snapshot it may have been shown, however stale, and any request  *)
(* ever sent may arrive again, late or twice.  The restores bring back an  *)
(* older database underneath those devices.                                *)
(***************************************************************************)
EXTENDS QueueServer, DeviceIntents

CONSTANTS
  Op,           \* the kinds of command devices issue
  Seeds, SeedTimer,  \* the queue the first device brings, and its timer
  AdminOp,      \* the kinds of operator command issued
  MaxTime,      \* bound on the sampled clock
  MaxRejected,  \* bound on rejected commands: one adds a receipt, no more
  MaxRestores   \* bound on restores of a backup

ASSUME WorkloadConstants ==
  /\ MaxTime \in Nat
  /\ Seeds \in Seq(SeedRecord) /\ SeedTimer \in TimerRecord \cup {None}

VARIABLES
  observed,     \* snapshots some response has carried
  sent,         \* requests ever sent; a message is never taken away
  restores      \* restores so far

vars == <<serverVars, observed, sent, restores>>

Init == ServerInit /\ observed = {} /\ sent = {} /\ restores = 0

Setup == [op |-> "Initialize", seeds |-> Seeds, timer |-> SeedTimer]

Actions(snap) ==
  {a \in (IF snap.initialized THEN QueuedActions(snap) \cup FocusActions(snap)
          ELSE {Setup}) : a.op \in Op}

\* A focus command is guarded by the snapshot and the server time shown with it.
Guards(snap, a) ==
  IF a \in FocusActions(snap)
  THEN {ObservedGuard(snap, time) : time \in 0..lastTime} ELSE {None}

CommandsSent == {r.command.id : r \in sent}

\* A rejected command leaves nothing but its receipt.
Rejections == {r \in DOMAIN receipts : receipts[r].outcome.status = "rejected"}

Request(device, snap, command) ==
  [token |-> enrolled[device].token, device |-> device,
   checkpoint |-> Checkpoint(snap), command |-> command]

Serve(request, sampled) ==
  /\ Exchange(request, sampled)
  /\ observed' = observed \cup {state'.snapshot}
  /\ sent' = IF request.command = None THEN sent ELSE sent \cup {request}
  /\ Cardinality(Rejections') <= MaxRejected
  /\ UNCHANGED restores

(***************************************************************************)
(* Types                                                                   *)
(***************************************************************************)
\* Every row of the database, every backup and every message is well formed.
TypeOK ==
  /\ IsDatabase(database)
  /\ artifact # None => IsDatabase(artifact)
  /\ minted \in Nat
  /\ roots \subseteq Generation
  /\ \A s \in observed : IsSnapshot(s)
  /\ \A r \in sent : r.device \in Device /\ r.command \in Command
  /\ restores \in Nat

(***************************************************************************)
(* Steps                                                                   *)
(***************************************************************************)
\* Setup's read without a checkpoint, of a queue nobody has seen yet.
Discover(device, now) ==
  /\ state.snapshot \notin observed
  /\ Serve([token |-> enrolled[device].token, device |-> device,
            checkpoint |-> None, command |-> None], now)

\* The device that is up to date asks; one behind is answered the same.
Poll(device, now) ==
  /\ state.snapshot \in observed
  /\ Serve(Request(device, state.snapshot, None), now)

Submit(device, now) ==
  /\ CommandsSent # CommandId
  /\ \E snap \in observed : \E a \in Actions(snap) : \E g \in Guards(snap, a) :
       Serve(Request(device, snap, [id |-> FreshIn(CommandId, CommandsSent),
                                    generation |-> snap.generation,
                                    guard |-> g, action |-> a]), now)

\* A late or repeated request, under the token its device holds by then.
Redeliver(now) ==
  \E r \in sent : /\ r.device \in DOMAIN enrolled
                 /\ Serve([r EXCEPT !.token = enrolled[r.device].token], now)

Administer ==
  /\ \/ \E d \in Device : \/ Enroll(d)
                          \/ "rotate" \in AdminOp /\ Rotate(d)
                          \/ "revoke" \in AdminOp /\ Revoke(d)
     \/ restores < MaxRestores /\ Backup
  /\ UNCHANGED <<observed, sent, restores>>

Restore ==
  /\ restores < MaxRestores
  /\ RawRestore \/ RestoreGeneration
  /\ restores' = restores + 1
  /\ UNCHANGED <<observed, sent>>

Next ==
  \/ \E now \in 0..MaxTime :
       \/ \E d \in DOMAIN enrolled : Discover(d, now) \/ Poll(d, now) \/ Submit(d, now)
       \/ Redeliver(now)
  \/ Administer
  \/ Restore

Spec == Init /\ [][Next]_vars

(***************************************************************************)
(* Properties                                                              *)
(***************************************************************************)
chain == state.snapshot.history
Snap(i) == chain[i].result

\* The code's own validation of the state it is about to store (apply) and of
\* the one it opens: no accepted command ever produces a state it refuses.
DatasetValid == StateValid(state)

\* Database::open refuses a database whose history does not answer for its
\* state.  Every retained revision is an ancestor of the current snapshot, at
\* the place its revision says, so a checkpoint that matches a row is on the
\* path to the state the client is about to be given.
HistoryIsAncestry ==
  /\ state.snapshot.revision \in DOMAIN history
  /\ \A r \in DOMAIN history :
       LET n == Len(history[r])
       IN /\ n <= Len(chain)
          /\ history[r] = SubSeq(chain, 1, n)
          /\ Snap(n).revision = r
          /\ Snap(n).generation = state.snapshot.generation

\* Idempotent execution (docs/sync-design.md "exactly one effect"): a command
\* has an effect once, at the revision its receipt names, and every revision
\* is the effect of a command with that receipt.
ExactlyOneEffect ==
  /\ \A i, j \in DOMAIN chain : chain[i].by = chain[j].by => i = j
  /\ \A c \in DOMAIN receipts : receipts[c].outcome.status = "applied" =>
       \E i \in DOMAIN chain : /\ chain[i].by = c
                             /\ Snap(i).revision = receipts[c].outcome.revision
  /\ \A i \in DOMAIN chain : chain[i].by \in CommandId =>
       /\ chain[i].by \in DOMAIN receipts
       /\ receipts[chain[i].by].outcome = Applied(Snap(i).revision)

\* The token of each concurrency-controlled thing in a snapshot.
Tokens(snap) ==
  {<<t, f, snap.task[t].versions[f]>> : t \in Live(snap), f \in {"title", "tag", "placement"}}
  \cup (IF snap.focus.session = None THEN {}
        ELSE {<<"session", SessionTask(snap), SessionId(snap)>>})
  \cup {<<"focus", "version", snap.focus.version>>}

\* A token that has been superseded, or whose task left, never names that field
\* again: A -> B -> A, and an undo that brings a task back, cannot revive an
\* intent aimed at the earlier incarnation (sync-design.md "Undo never restores
\* old tokens/session identity; stale pre-completion commands remain stale").
TokensNeverReturn ==
  \A i, j, k \in DOMAIN chain : i < j /\ j < k =>
    (Tokens(Snap(i)) \cap Tokens(Snap(k))) \subseteq Tokens(Snap(j))

\* What a token protects: the field's content under it never changes.
Content(snap, t, f) == IF f = "title" THEN snap.task[t].title
                       ELSE IF f = "tag" THEN snap.task[t].tag
                       ELSE snap.task[t].bucket
TokensBindContent ==
  \A i, j \in DOMAIN chain :
    \A t \in Live(Snap(i)) \cap Live(Snap(j)) :
      \A f \in {"title", "tag", "placement"} :
        Snap(i).task[t].versions[f] = Snap(j).task[t].versions[f] =>
          Content(Snap(i), t, f) = Content(Snap(j), t, f)

\* What the user sees of a snapshot: everything but tokens and revisions.
Visible(snap) ==
  [order |-> snap.order,
   task |-> [t \in Live(snap) |-> [f \in {"title", "tag", "bucket"} |-> snap.task[t][f]]],
   timer |-> IF snap.focus.session = None THEN None
             ELSE [f \in {"task", "elapsed", "running", "anchor"} |-> snap.focus.session[f]]]

\* An accepted focus command acted on exactly the queue its device was looking
\* at: the snapshot whose revision it names shows the queue and the timer it
\* was applied to, Now is the task it names, and only that task may leave the
\* queue.  A retried Complete can therefore never complete the successor.
FocusActsOnWhatWasSeen ==
  \A i \in DOMAIN chain : chain[i].by \in DOMAIN receipts =>
    LET c == receipts[chain[i].by].command
        before == Snap(i - 1)
    IN IsFocus(c) =>
         /\ \E s \in observed : /\ s.revision = c.guard.revision
                               /\ Visible(s) = Visible(before)
         /\ SessionTask(before) = c.guard.task
         /\ Live(before) \ Live(Snap(i)) =
              IF c.action.op \in {"Complete", "Remove"} THEN {c.guard.task} ELSE {}

\* A task identity that left the queue is back only if an undo brought it back
\* (sync-design.md "Deleted task IDs can never be reused by a new create").
OnlyUndoResurrects ==
  \A i, k \in DOMAIN chain : i < k =>
    \A t \in (Live(Snap(i)) \cap Live(Snap(k))) :
      (\E j \in i..k : t \notin Live(Snap(j))) =>
        \E j \in (i + 1)..k : /\ chain[j].by \in DOMAIN receipts
                             /\ IsUndo(receipts[chain[j].by].command)

\* An undo directly follows the completion it names and gives back exactly the
\* queue and the timer of just before it, whatever the completion promoted.
UndoIsExact ==
  \A i \in DOMAIN chain : chain[i].by \in DOMAIN receipts =>
    LET c == receipts[chain[i].by].command
    IN IsUndo(c) => /\ chain[i - 1].by = c.action.completion
                    /\ Visible(Snap(i)) = Visible(Snap(i - 2))

\* The anchor of the timer is never ahead of the persisted clock, also when the
\* host's clock is set back; a client refuses to store an envelope in which it is
\* (Envelope::validate).
AnchorNotAhead ==
  state.snapshot.focus.session # None =>
    state.snapshot.focus.session.anchor <= lastTime

\* Within one session a step of the server never makes the shown elapsed time
\* jump, and time passes in it only while it runs.
TimerContinuous ==
  [][ LET old == state.snapshot.focus.session
          new == state'.snapshot.focus.session
      IN old # None /\ new # None /\ restores' = restores =>
           (old.id = new.id => ElapsedAt(new, lastTime') = ElapsedAt(old, lastTime')) ]_vars

\* While no backup came back, repeating any executed command, from any
\* checkpoint it was sent with and whatever happened to the device's token in
\* between, is answered rather than refused: the client always learns the
\* receipt of a command whose first answer was lost.
RetryAnswered ==
  restores = 0 =>
    \A r \in sent : enrolled[r.device].revoked
                  \/ ExchangeError([r EXCEPT !.token = enrolled[r.device].token]) = None

\* Outside a restore a stored outcome is final, rejections included: a retry
\* is answered what the first attempt was answered.
OutcomesFinal ==
  [][ restores' = restores =>
        \A c \in DOMAIN receipts : c \in DOMAIN receipts' /\ receipts'[c] = receipts[c] ]_vars
=============================================================================
