# Queue Focus in TLA+

Models, model-checking runs and machine-checked proofs for Queue Focus: a queue
with one task in *Now*, kept on each computer by itself or shared through a sync
server. The models are read from the Rust code under `src/crates`, the GNOME Shell extension under
`src/extension` and the macOS app under `src/macos`; `PROJECT.json` maps every definition to
the lines it models.

Contents: [inventory](#inventory) · [order](#order) · [modules](#modules) ·
[runs](#runs) · [finding](#finding) · [bounds](#bounds) · [fairness](#fairness) · [proofs](#proofs) ·
[abstractions](#abstractions) · [not modelled](#not-modelled)

## Inventory

| Component | State | Operations | What is hard | Correct when |
|---|---|---|---|---|
| Protocol and reducer (`qf-core/src/sync/protocol.rs`, `reducer.rs`) | none; a snapshot, the identities used, one undo record | apply, new, reset_generation, validate | stale intents, tokens, undo, time | every accepted command gives a valid state; a token never returns and never covers other content; undo is exact |
| Server database (`qf-sync-server/src/database.rs`) | dataset row, history, receipts, devices, last time | exchange, enroll, rotate, revoke, backup, restore_generation | repeats, late requests, old checkpoints, restores, clock | one effect per command, answered alike for ever; retained revisions are ancestors |
| HTTP front (`http.rs`) | permits, the database mutex | exchange | answers lost after the effect, timeouts | a client can retry anything |
| Client journal (`sync/client.rs`, `persistence.rs`, `recovery.rs`) | the envelope: confirmed queue, pending, refused, suspension, handles | open, enqueue, request, accept, suspend, resume, dismiss | failed saves, power failures, out-of-date answers | no saved intent is lost; the confirmed queue only moves to its descendants |
| Worker, host, transport (`qf-sync`) | one request in flight, back-off, halted, discard | tick, wake, retry | engine reopened under a request, halting | stops only for cause; always gets there |
| Shared engine (`engine/shared.rs`) | observed queue | one request per user action | the user acts on a queue shown earlier | commands carry what was shown |
| Standalone store (`model.rs`, `tasks.rs`, `engine.rs`, `store.rs`) | vector of tasks, next id, undo record, revision, the file | add, remove, move, drop, shift, complete, undo, rename, tag, pause | one vector for four lists, save failures, old files | the requests mean what they mean on lists; memory equals file |
| Setup (`qf-sync/src/setup.rs`) | a staged file with plans and progress, the journal it will make | preview, initialise, import, join, resume, export | dies between an exchange and its save; an old build edits underneath, between its two reads too | every local task arrives once or is kept, and setup ends |
| Reminders (`reminder.rs`, `elapsed.rs`) | next due time, last task flashed | tick, flash now, reset | clock jumps, quiet hours, changed intervals | a flash comes neither early nor never |
| Settings (`settings.rs`, `settings_store.rs`) | settings, dirty, reported, back-off | change, flush, reload | outages of the file | the last change reaches the file, a report stands for an outage |
| FFI object (`qf-ffi/src/lib.rs`) | engine, damaged, problems, settlements | every engine request | a panic in the middle of a change, files that cannot be read then | no half-made change and no default ever reaches a file |
| GNOME service (`app.rs`, `service.rs`, `dbus.rs`) | engine, host, listeners, calls queued at start | D-Bus calls, signals | re-entrant listeners, calls before start | each change is announced once, in order |
| Shell extension (`connection.js`) | owner, snapshots, version counters, pending calls | refresh, signals, owner changes, retries | answers and signals in any order, restarts | never shows something older over something newer; shows what there is in the end |
| macOS app (`QueueModel.swift`, `Notices.swift`) | snapshot, undo offer, the settings problem, notes in turn | requests, the second, notifications | outages that end unseen, notes of the past | the message stands for an outage that is there |
| Windows, menus, animations, text parsing, packaging | — | — | — | outside the project |

Interactions: the host (the GNOME app or the FFI object) serialises everything that touches
the engine; the engine keeps either a standalone store or a journal, never
both. A tick of the host runs the worker, which exchanges one request at a time
with the server on a thread of its own. The answer comes back over a channel and
is taken by a later tick. Server operations are single SQLite transactions. The extension talks to
the GNOME app over D-Bus, the Swift views to the FFI object by calls and snapshots.

The behaviours that tests hardly reach are listed one by one, at their lines, under
`hazards` in `PROJECT.json`, with the properties that answer each of them.

## Order

The modules were written in the order of what the system would lose:

1. `QueueProtocol`, `QueueReducer` — the deterministic core server and clients share.
2. `QueueServer`, `ServerWorkload` — the server under every load its devices can put on it.
3. `QueueClient`, `DeviceIntents`, `QueueSync`, `CommandLedger` — journals, workers,
   network, crashes and restores, and the abstract specification they implement.
4. `TaskStore`, `BucketLists`, `LocalTasks` — the standalone queue.
5. `QueueSetup` — how a standalone queue becomes part of a shared one, over the server of 2 and the
   journal of 3.
6. `SettingsFile`, `FlashReminder`, `HostedEngine` — the engine behind its host's lock.
7. `QueueConnection`, `ShellSession` — the extension and the service on the session bus.
8. The proofs: `ServerProofs`, `HistoryProofs`, `SyncProofs`, `SyncDeviceProofs`,
   `QueueSetupProofs`, `HostedEngineProofs`, `ShellProofs`, `LocalTasksProofs`.

What would come next: the worker's clock (poll times, back-off, sleep and wake, which `QueueSync`
leaves to choice).

## Modules

Each module states what a definition stands for; `PROJECT.json` gives the lines.
Definitions named `Fault...` are deliberately wrong variants of the definition that follows them.
Nothing uses them but the mutation tests listed under `mutants`: with the variant in
place of the definition, the named property must fail.

- **QueueProtocol** — the records of `protocol.rs` and their validation: snapshots, commands,
  guards, checkpoints, receipts. The task vector is split into `order` and `task`. A
  history fingerprint is the chain of links it digests, so two are equal exactly when what was
  hashed is equal.
- **QueueReducer** — `reducer.rs` without variables. A transition is two operators: `Refusal` names
  the first refusal of a command in the code's order of checks, `Apply` gives the state after it. The check
  of the next state at the end of `apply` is not a guard of the model but a property, `DatasetValid`,
  and the theorem `ApplySound` shows that it never refuses.
- **QueueServer** — `database.rs`. One action per transaction: `Exchange`, `Enroll`, `Rotate`, `Revoke`,
  `Backup`, `RestoreGeneration`, and `RawRestore`, the old file put back by hand, which the
  documents warn of. `ExchangeError` is what the transaction is refused with; a refusal changes nothing.
- **ServerWorkload** — closes the server with devices that may act on any snapshot ever shown to them and
  requests that may arrive late or again.
- **QueueClient** — `client.rs` without variables. `client.disk` is the sequence of envelopes
  a power failure could bring back: the last one is the file and the envelope in memory, and it is
  alone once durable. `Accept` is the whole of `accept` with its save, `CanAccept` its refusals.
- **DeviceIntents** — what `engine/shared.rs` composes for each user action, with the tokens or the guard of
  what was shown.
- **QueueSync** — devices, workers, network, server and operator together. `Edit`, `Focus`, `Dismiss` and
  `Retry` are users; `Tick` is `worker.rs` tick in whole (take a result, resync, send); `Serve`,
  `ServeUnheard`, `Refuse`, `Lose` and `Arrive` are the network and the HTTP front; `Crash` is a process
  or power failure, `Reopen` the engine reopened after a panic; `Operate` the operator.
- **CommandLedger** — the abstract specification: commands are held, decided once, applied in one order, and let go of
  only when the decision is known and the effect seen. `QueueSync` refines it
  (`KeepsLedger`), through the durable part of each journal.
- **TaskStore** — `model.rs` without variables: the vector of tasks, `Spot` and `Place`, `Settled` and `Normalized`, and every request.
- **BucketLists** — an independent reading of the same requests on four lists. It models no code;
  `LocalTasks` compares the two.
- **LocalTasks** — `tasks.rs` with the atomic save of `store.rs`: `Update` is `update_with`, with
  its roll-back before the rename and its warning after it; `UndoTask`; `Restart`, `PowerLoss`,
  and `Pass` for time.
- **QueueSetup** — `setup.rs`, with the server of `QueueServer` and the journal of `QueueClient`. A directory is a
  record of its four files, of which `tasks.json` is absent, a queue or the sentinel; `disk[d]` is again the sequence of directories a power failure
  could bring back, and `at[d]` is where the utility is. `setup` reads `tasks.json` twice before its first save: `Load` is the first read (`local_store`, setup.rs:170),
  kept in `loaded[d]`, of which the plans are made; `Prepare` the second (setup.rs:174), of which the backup and its hash are, with the save of the stage. From then
  on the process keeps nothing that is not on disk. `SaveConfig`, `Verify`, `Discover`, `Push`, `Activate`, `Seal` and `Remove` are the steps of `resume_locked`, each with the
  save it ends in; `Again` and `ResumeSetup` are the user running the utility once more. Around it: `App`, the app of a device that
  is set up; `OldEdit`, a build that knows no lock, and adds a task to its queue and saves that at any moment - before setup, between its reads, after its last look, over the
  sentinel; `Arrive`, `Die`, `Operate`. `newest` remembers the queue as it was last edited, and whether setup overlooked an edit.
- **SettingsFile** — `settings_store.rs` and what of `settings.rs` the flash depends on, without variables.
- **FlashReminder** — `reminder.rs` without variables. A reminder keeps `wait`, its due time less the clock, so that time
  passing and a clock that is set are one subtraction.
- **HostedEngine** — the object of `qf-ffi/src/lib.rs` over `engine.rs`: `Found` is what `lock` and `recover` leave a call to work on,
  `Change`, `ChangePanics`, `Refused`, `SetSettings`, `FlashNow` and `Look` are the calls, `Tick` and `TickPanics` the second, which
  runs the settings writer and the reminder and hands the problems over, `Quit`, `Kill` and `Start` the process.
  `told` is the message line of `QueueModel.swift`.
- **QueueConnection** — `connection.js` without variables: a record, and one operator per handler.
- **ShellSession** — that connection on the session bus with the GNOME service: `Activate`, `ActivationFails` and `Undeliverable` are the
  bus; `Initialize`, `InitializeFails`, `Dispatch`, `Overflow`, `Change`, `Release` and `Crash` the service; `Quit` and
  `EnsureService` the command line; `Ask`, `Retry` and `Deliver` the shell.
- **MCServerWorkload, MCQueueSync, MCLocalTasks, MCQueueSetup, MCHostedEngine** — values of constants for TLC.
- **ServerProofs, HistoryProofs, SyncProofs, SyncDeviceProofs, QueueSetupProofs, HostedEngineProofs, ShellProofs, LocalTasksProofs** — see [proofs](#proofs).

## Runs

All runs pass but `setup_old_build`, which shows the one [finding](#finding). Each property of a passing run has at least one mutant of the code's model that breaks it in the same run.

| Run | Question | Shows |
|---|---|---|
| `server_focus` | focus commands, pauses and undo from stale snapshots with late clocks | `DatasetValid`, `FocusActsOnWhatWasSeen`, `UndoIsExact`, `AnchorNotAhead`, `TimerContinuous` |
| `server_edits` | every order of four edits, moves, deletions, completions and undos | `TokensNeverReturn`, `TokensBindContent`, `OnlyUndoResurrects` |
| `server_restore` | backups, both kinds of restore, rotated and revoked tokens between commands and repeats | `HistoryIsAncestry`, `ExactlyOneEffect`, `RetryAnswered`, `OutcomesFinal` |
| `sync_edits` | two devices that edit concurrently, online and offline | `Forecast`, `FocusActsOnTheShownQueue`, and the refinement `KeepsLedger` |
| `sync_crash` | failed saves, crashes, power failures, panics, lost and late requests, restores and revocation | `NoIntentLost`, `NeverHaltedWithoutCause`, `IntentsStayOnTheirBranch` |
| `sync_live` | two devices under failed saves, crashes and lost answers, with fairness | `IntentsSettle`, `ChangesReachEveryDevice`, and the refinement `KeepsLedger` |
| `local_tasks` | a standalone queue from every file of up to three tasks, while time passes, with a failure and the power failures that undo a save | `RequestsMeanLists`, `OneTimerOneIdentity`, `UndoRestores`, `IdentitiesNotReused`, `TimeKept` |
| `setup` | two devices are set up at once, one first and one that imports or would be first too, with every failure of a save, a death at every step, an old build that saves at any moment, and fairness | `NothingLost`, `SameJournal`, `SetupCompletes` |
| `setup_restore` | the same, importing or taking what is there, while the server goes back to a backup | `BoundOnce`, `ArrivesOnce` |
| `setup_old_build` | an old build that saves between setup's two reads of `tasks.json` | a violation of `BackupActivated` |
| `engine_host` | failed saves and reads, panics, clocks that are set, quits and kills, with fairness | `OnlyWholeChanges`, `OwnSettings`, `OutageTold`, `NoEarlyFlash`, `FlashesGoOn`, `SettingsReachTheFile` |
| `shell` | a service that is started, crashes, fails, quits and restarts under requests and overtaken answers, with fairness | `NeverOlder`, `StaysStopped`, `ShownInTheEnd` |

`RequestsMeanLists` is evaluated for every request on every starting file, and not again in
the states after a change, which have the same shapes; `SpecMeantOnLists` proves the same of every queue the app
ever holds. Completing a task and undoing it must give back the
four lists; the order of tasks of *different* buckets in the vector, which nothing shows,
may differ. `TimeKept` speaks of saved changes and passing time: a
file of an older version whose Now has no timer gets one when it is opened, and opening it again before
anything was saved starts that timer again.

`NothingLost` speaks of every directory a power failure could bring back, not only of the current one. `OwnSettings` compares the
file with the settings *the user* last had accepted, a history the engine does not have: an engine whose settings could not be read and that
went on with the defaults would have nothing dirty, and yet the next change would write the defaults over the user's own.
`ShownInTheEnd` has two ends, since a shell that was told of a quit, or that cannot start a service, rightly waits.

Deadlock is not checked: every run ends when its supply of identities, restores or mishaps
is used up.

## Finding

`setup` makes its plans of one read of `tasks.json` (setup.rs:170) and its backup and `backup_hash` of another (setup.rs:174). A build that
knows no lock can save in between. The hash is then that of the newer file; both calls of `verify_source`, which are
to refuse a resume with *local tasks changed during setup* (setup.rs:377), pass; and the sentinel replaces a queue of which one task is in no plan. It remains in the
backup and nowhere else. `setup_old_build` finds it without any failure; with plans and backup made of one read, `BackupActivated` holds in that run. The
documents ask the user to quit older builds by hand (docs/sync-client.md:29), so it takes one who did not; the check is there for such a user.
`NothingLost` says what is left: an edit that setup overlooked - here, or between the last look at `tasks.json` and its
replacement, which are two system calls - may be missing from the journal, and everything that setup loaded is not.

## Bounds

The supply of command identities (`CommandId`) bounds the commands of a run: four on the server
alone, two or three besides the founding one in `QueueSync`; in `QueueSetup` one for each local task, edits of the old build included, of which the app of a device that is already set up has what setup leaves. Three is the least number for the patterns
that break such systems — A, B, A for tokens; complete, anything, undo; execute, lose the answer,
execute another, retry — and the server runs have one more. Two devices suffice
for every race, since the server decides between two requests at a time; `sync_crash` has one, whose old
requests play the second actor.

| Bound | Where | Why it is enough |
|---|---|---|
| `TaskId` (3) | both | a current task, its successor and one created; three make every anchor and promotion happen |
| `MaxTime` (0–2) with `FocusTtl`, `UndoFor`, `FreshFor` of 1–2 | both | before, at and after each expiry, where time matters; 0 where no property depends on it |
| `MaxTokens`, `MaxRejected`, `MaxRestores` | server | a token before and after its rotation; a refused command adds one receipt and nothing else; two restores, so that one is restored over another |
| `MaxPending` (1–2) | sync | a command behind another; the code's 1,000 only bounds memory |
| `MaxMishaps` (1–3) | sync, local | a failure while the previous one is not yet repaired, and one more; a power failure of the standalone app that finds an older file does not count, so that it may follow a save that was not synced |
| `MaxMishaps` (2, with restores 1) | setup | a second death while the first is being repaired; `setup_restore` trades it for a restore of the server; `setup_old_build` needs none |
| `Local` (one task, two tasks), `Found` (one each) | setup | each device starts with a task in Now; an old build of the second adds one in Next, at any moment, so that setup finds it, misses it or sees it come; `MaxTasks` of 3 lets the server refuse one |
| `IntervalMax` (2), `RetryTicks` (1), `Day` (3), `Jump` ({-1, 3}) | engine | a wait of more than one second, one turn sat out, hours that wrap past midnight, a clock set back and one set over a whole wait |
| `MaxFaults` (2) | engine | a panic and a file that cannot be read then; a failed save and a panic before it was repaired |
| `MaxHeld`, `MaxAsks`, `MaxChanges`, `MaxFaults`, `MaxQuits`, `MaxStarts` (1 each) | shell | one of each is enough for every race of two: a change against an answer, a quit against a request, a crash against a start; the connection's own two reads and its retries are not bounded |
| `MaxOld`, `MaxId` (3), `MaxRevision` (2) | local | a displaced task between two others, a change between a completion and its undo; one more undo is allowed at the bound |
| `FirstTime` (1), `MaxTime` (2) | local | timers started and paused before the app was, and time that passes while one is paused |

`Op`, `Failure` and `AdminOp` choose what happens in a run. They are narrowed to what its question needs, and between them
the runs fire every action. `local_tasks` has one title and no tags: renaming and tagging appear there only
as requests that change nothing, which must keep the undo record.

## Fairness

`sync_live` assumes, for each device:

- *the host ticks.* Both hosts call the worker every second; a tick is due sooner or later because the
  back-off is bounded, and a save succeeds sooner or later. (`Ticks`)
- *of the exchanges tried again and again, one gets through.* The transport's timeout turns silence into a
  lost exchange, so nobody waits for ever; that the network is not down for good is an assumption on the
  world. (`Hears`)

Nothing is assumed of users: they need not give intents, dismiss refusals or press Retry. The conditions are written
out as temporal formulas whose premises say when the steps are possible: a tick or an exchange of `QueueSync` is a disjunction over dozens of outcomes,
and what is fair is that one kind of them is not avoided for ever, not that an action is taken.
`IntentsSettle` and `ChangesReachEveryDevice` allow a device to stop with a message; `NeverHaltedWithoutCause`
says when it may.

`setup` assumes that a utility that runs goes on to its next step or ends (it is a sequential program whose exchanges time out: *if it
runs for ever it takes steps for ever*), and strong fairness of `Again`: a user told that setup is incomplete runs it again. The app
refuses to start until then. Failures are bounded by `MaxMishaps`; that they end is the assumption.

`engine_host` assumes weak fairness of a successful tick, since the app's timer fires every second and faults are bounded, and
of `Start`. No user has to change anything: `FlashesGoOn` is about a queue that keeps a task in Now and hours in which
nothing holds the flash back.

`shell` assumes weak fairness of the bus (`Activate`, `Undeliverable`), of the first message that is to be delivered, of the service's main
loop (`Initialize`, `Dispatch`, `Release`) and of the shell's retry timer. Users, crashes and failed starts owe nothing and are bounded.

## Proofs

For all values of the constants, so any number of devices, tasks, commands, restores and times:

- **ServerProofs** begins with the reducer. `Sound` is the invariant of a server state: its shape, the code's own validation, and
  that the queue an undo would bring back is one whose identities were used. The lemmas prove what each helper does (removal and insertion
  keep an order free of duplicates, `Place` touches one bucket, `Promote` leaves one task in Now);
  `ApplySound` combines them, one case per action. Without the clause on the undo record the invariant
  is not inductive: an undo could bring back a queue nothing is known of.
  Then what every transaction of the database keeps, whatever the requests are, so that every composition can use it.
  `Stored` joins types to `Good` of the database *and of the backup*, since a restore makes the backup current. `Good` is
  soundness, ancestry of the history rows and one effect per receipt. `Timed` bounds the anchors of the session, and of the one an undo would
  bring back, by the persisted clock, and says whose identity a session has; `SessionStep` is what one command may do
  to it: keep it, end it, begin one under its own identity, or pause it.
- **HistoryProofs** is about `ServerWorkload`. `Sane`, `Stored` with the types of the workload, is inductive. From it: `TypeOK`, `DatasetValid`,
  `HistoryIsAncestry`, `ExactlyOneEffect`, and `OutcomesFinal` step by step. `Timers` adds `Timed` of the database and of the backup. Its
  last clause is what continuity needs: a session that begins or comes back cannot take the identity of the one before it. From
  it: `AnchorNotAhead`, and `TimerContinuous` step by step.
  The other properties look at a state long after the command that made it, so they need to know how
  the present queue hangs together with its history. `ApplyTells` says what one command may do to tokens, contents, live tasks and
  the undo record. `Remembered` adds to `Sane`, for the database and again for the backup, that the chain is threaded and numbered and made of
  commands that were asked; that a field's token is the link that wrote it last and a task lives only if no link took it away;
  and that the undo record is the queue before the completion it names. It adds that whatever a device has seen, or a
  request carries, was once current; and, while no backup came back, that what was answered is still in the receipts. The backup
  is under the same clauses because a restore goes on from it. From it: `TokensNeverReturn`,
  `TokensBindContent`, `OnlyUndoResurrects`, `FocusActsOnWhatWasSeen`, `UndoIsExact` and `RetryAnswered`.
- **SyncProofs.** `SyncInv` speaks of everything that can still come to the server or to a user: the database and the backup, every envelope a power failure
  could bring back, the request and the answer of each worker, the requests that may arrive late. Each command in them is what its user asked
  (`Meant`), on an ancestor of the queue it stands on (`Aimed`, `Branch`); an answer goes on from what its request was sent from and has the effect it
  reports (`ResponseOK`); and what was promised is covered in every envelope. `Becomes` names the four things an operation can do to a journal, so that the
  invariant is shown once for all operations. From it: `NoIntentLost`, `IntentsStayOnTheirBranch`, `FocusActsOnTheShownQueue`.
  `LedgerInv` adds, while no backup comes back, that each device is `InStep` with the server: the queue an envelope confirmed is a beginning of the server's,
  only the head of what is pending can have been decided, an envelope lets go of no more than its durable predecessor may (`Succeeds`), a request under way
  carries what was decided or the head of *every* envelope of its device (`Sends`), and nothing pending can be decided while a worker merely polls
  (`Polls`). The last two are why a late request can only decide what the ledger calls held. From it, step by step, the
  refinement `KeepsLedger`, for `MaxRestores = 0`. What the ledger promises to whoever reads only its specification, `Promised`, is an invariant of
  its own steps, and so, while no backup came back, of the system's under that mapping: `SpecReadsOwnWrites`, `SpecEffectsOnce`.
- **SyncDeviceProofs.** `Smooth` adds to `LedgerInv`, again while no backup comes back, what each side needs so as not to refuse the other. The
  history rows number their links, so a checkpoint of a device is found whatever its age (`Numbered`); a receipt remembers what was asked
  (`Remembered`), so a request that arrives late or again is not taken for another one. Of a device whose token holds (`Unhindered`), every envelope a power failure
  could bring back is one the client's own validation opens (`Fit`: limits, handles, identities, at most one focus command and that one last), no worker is halted,
  the request under way is about the envelope in use (`About`) and the answer to it is one the journal takes (`Fitting`). The longest step is that a
  journal that takes an answer is valid again: its pending commands run on the newer queue, those refused become conflicts, and the
  handles that no command needs go. From it: `NeverHaltedWithoutCause`.
  Its second part is `Forecast`. What a device shows is computed from the live tasks and the handles of its envelope, under the time of its last answer, by the
  server's own reducer; the server has another set of used identities, another clock and an undo record. `Agree` is when two such states look the same
  to whoever creates no task but given ones, and a simulation: the same edit is refused by both for the same reason, or leaves both alike
  (`AgreedRefusal`, `AgreedEdit`, `AgreedApply`), and so does a list of edits (`AgreedRuns`). That the two agree to begin with needs to know that no task a pending
  edit creates was ever used on the server: `Traced` says that an identity was drawn for one command and no seed (`DrawnOnce`), and that what is used
  came with the founding or with a command in the history (`Sourced`); since a pending command is not in the history its envelope confirmed (`LedgerInv`),
  its task is new. From it: `SpecForecast`, for any number of pending edits, while no backup came back.
- **QueueSetupProofs.** `QInv` speaks of the directories a power failure could bring back, of the identities drawn and of what was
  sent: whatever was sent of a stage is what that stage would send again, a journal beside a stage is the one the stage makes, the
  plans of two devices have no identity in common, and while the utility works its directory is durable. The last is what
  `resume_locked` begins with; without it a stage that was not bound yet could come back after its command was sent. From it:
  `SameJournal` and `BoundOnce`. Nothing of this needs the server, whose answers the stage checks itself.
  `SetupInv` adds where titles come from. What was sent brings each local title under one identity, from the device that has it
  (`Single`); the server's history got a title from the accepted commands that bring it and from nothing else, and so did the
  backup's (`Told`, shown for every command, for a restored generation and for both ways a backup comes back). Each plan that
  a stage has settled brought its titles into the queue the stage knows, or is kept as refused (`Progress`), so that a stage that
  is through accounts for every task (`AllSettled`); what is kept as refused was sent and refused (`Refusals`); and every directory a
  power failure could bring back has the `tasks.json` that was last edited or a journal in its place that accounts for what setup loaded, which is the same unless an edit was overlooked (`DirSafe`). This is
  kept by each of the utility's steps, the app's exchanges and an old build's edits. From it: `NothingLost` and `ArrivesOnce`,
  the first without any condition on restores. `Reading`, proved beside it, has what the utility holds between its reads of `tasks.json`: the mode that was asked for and one of the
  queues the file may be (`Files`).
- **HostedEngineProofs.** `HInv` joins the engine to its files: an engine that may be used holds the queue of its file; what was told of an
  outage is what the writer reported and the host has not yet taken back; the settings are the user's, and are stored or dirty; the
  seconds waited and the wait that is left make a full wait, unless the clock was set meanwhile. A stopped process leaves nothing
  told and the user's settings in the file. From it: `OnlyWholeChanges`, `OwnSettings`, `OutageTold` and `NoEarlyFlash`.
- **ShellProofs.** `Handles` says what any handler of the connection may do with a message: take a value it carries, keep or forget the rest, and wait no
  more for an answer that could be older. `Shown` is the invariant over the messages under way: none is newer than what the service has or
  older than what was shown, except a status in an answer that a signal overtook and that will not be taken (`Ahead`), and what two of them say of one thing is in order
  (`InOrder`). Neither is inductive alone: a signal that overtakes answers is harmless because what it overtakes is dropped. From it: `NeverOlder`.
  `Names` says that of a service that runs and has the name the bus tells once and of nobody after it; `Quiet` what a service that was told
  to quit leaves behind: no call by name, and no news of a lost owner that is not behind the service's own word (`Told`) or comes to a shell that has
  heard it. Without `Names`, news of an owner could still be under way when the service is told to quit, and wake the shell again. From both: `StaysStopped`.

- **LocalTasksProofs** begins with the vector: what `In` lists of it (`InTells`: a choice of places, in order, of all tasks of the bucket), what taking out,
  putting in, `Place` and `Settled` keep. `NormalizedOK` says task by task what normalising leaves, whatever Now held before. Each request is then one lemma of
  the form `Steps`: a fine queue stays fine, its next identity does not shrink, nothing comes in but the new identity or the one undone, and a task that stays current
  keeps its time. `LInv` joins the queue in memory to the files: every file that could come back is sound or an old one, and none has a smaller next identity than
  the *oldest* of them, which is why an identity given out anew is new to them all. `By` is the clause on timers, that a pause is not later than the clock or
  the start; without it resuming a timer could set its time back. From it: `OneTimerOneIdentity`, `IdentitiesNotReused`, `TimeKept`.
  Its second half is about order. `Lists` says that a sequence of identities is the one the vector has for a bucket: the same members, and each before the next in the
  vector. A queue has exactly one such sequence for each bucket, so a change of the vector is followed on the lists without computing the fold again: taking out, putting in at a
  `Spot` (`ListPlaced`), and settling, which with two tasks in Now sends the second to the front of Next (`SettledTwo`) and is otherwise no change of order. Each request
  is then one lemma that its lists are those of `BucketLists`, and together they are `AllLists`, of every queue `LInv` allows: `MeantOnLists`, and so `RequestsMeanLists`.
  For an undo, `Undoable` remembers what `LInv` forgets: while nothing was saved since, the queue *is* `Complete` of the one `before` it at some earlier time, and the record its
  `Completion`. What an undo makes of that is the very same vector if the completion pulled nothing (`UndoPlain`), and otherwise the same lists with the same tasks (`UndoPulled`): the pulled task goes
  back to the front of Next without its timer (`ThereAndBack`), and the completed one has Now again with its own. From it: `UndoRestores`.

The assumptions are those named in `QueueProtocol`, `QueueServer`, `ServerWorkload`, `QueueClient`, `QueueSync`, `QueueSetup`, `SettingsFile`, `FlashReminder`, `HostedEngine`, `ShellSession`, `TaskStore` and `LocalTasks`: the limits are positive, `next` is a
queued bucket and `now` is not, command and generation identities are disjoint and differ from the absent value,
there is a generation, the absent value is no reason for a refusal, the first device's queue is well typed and one the server took, there are finitely many devices, the absent value is no command, no receipt, no reason to stop, no number, no error, nothing that `tasks.json` may be and no place the utility may be at, each device's first queue is one of those it may come to have, the identities a setup draws from are finite in number, local titles differ from each other and from what the app adds, a task can have some title, the absent value is no completion either, and the task file found at the first start has unique identities below its next one and no timer paused later than both the clock and its start. TLC evaluates them in every run that uses them.
`SpecNeverHaltedWithoutCause` has one hypothesis more, `AbsentIsNoCheckpoint`: an optional checkpoint that is absent differs from every one that is present, which in the code holds by
the type `Option` and in TLA+ cannot be evaluated, as it speaks of all revisions and histories.

Every safety property a passing run checks is proved; only model-checked is liveness (`IntentsSettle`, `ChangesReachEveryDevice`, `SetupCompletes`, `FlashesGoOn`,
`SettingsReachTheFile`, `ShownInTheEnd`), which the prover does not do. `KeepsLedger` is proved for `MaxRestores = 0` and any failures, and `Forecast`, like what the ledger
promises, while no backup came back: their runs bring none back either. Where an invariant needs a fold (what an envelope shows is a sound queue, and the one the server will make) the
fold is a recursive function over an interval, and `Induction` in `SyncProofs`, like `UpTo` in `ShellProofs`, replaces the library's induction theorem by the least counterexample.

## Abstractions

- Titles, tags, messages and handles are values. Byte limits, title syntax and quick-add text are left out. The dataset's identity never changes, so
  the generation alone tells datasets apart.
- Random identities are drawn fresh; which one is drawn is immaterial, except for handles, which a client assigns to
  several tasks at once in any order.
- The server's clock samples are arbitrary up to the bound, backwards too; it clamps them. A device's estimate of server time
  lies between its last observation and the end of its freshness. Expiry of an observation is a device that does not act.
- The worker's poll time, back-off and wake become the choice `due`. The worker's thread never dies. A device's token does not change
  while its app runs.
- One backup exists at a time. Files are never corrupt, but those of `HostedEngine` may be unreadable for a while. In `QueueSync` an engine reopened after a panic finds its files valid.
- The devices of `QueueSync` start with their setup complete; how they get there is `QueueSetup`. Intents are narrowed by `Offered` to those that the engine
  sends rather than answers at once.
- `Later` and `Side` are treated alike by the code; the standalone model has one of them. The wall clock of the standalone
  model does not go back: resuming after it did during a pause would not keep the time, as the subtraction saturates.

- `QueueSetup` merges the backup with the stage that names it, and a directory is saved as one of two neighbours: the order of the files is that of the
  steps. An old build adds one task at a time to the queue it saved last, and does
  not take up a `tasks.json` that setup wrote; what it saves is durable at once. `local_store` opens the file twice to parse it, which is one read here. Titles are distinct, so that a task can be followed through its change of identity.
- `HostedEngine` sees the queue as its current task, and as *torn* while a change is half made; requests in detail are `LocalTasks`. It is the
  standalone queue, so a tick has no settlement to hand over. Problems are counted. Random choices of a style are arbitrary.
- `ShellSession` sees the queue, the settings and the status of sync as how often they changed. The connection's counters of versions and reads are seen
  as answers that nobody waits for any more; a call whose answer nobody waits for disappears, unless it is one by name, which starts the service. Messages
  arrive in order, except that an answer may be overtaken by signals of the service, as it takes one more turn of the main loop; owner changes and answers do
  not overtake each other. A service that starts holds the first `MaxHeld` calls (64 in the code).

## Not modelled

- *The worker's clock.* When a poll is due, the back-off and what a sleep of the computer does to them; `QueueSync` covers every choice of times.
- *The connection's end.* `destroy`, the signals that carry no state (flashes, durability warnings, settlements), the length of retry delays, and the
  time limits of `restart` in `main.rs`.
- *The listeners inside the GNOME app* and its windows: they are told on the main loop after the engine is released, and redraw from it.
- *The notification centres* of both desktops: what they still show is outside the program.
- *The FFI object with a shared queue*: its pump is the worker of `QueueSync`; the capped list of settlements, which only words a notice, and the
  conversion of types are left out.
- Widgets, animation, text parsing and formatting, JSON patches, packaging and deployment have no state the queue depends on.
