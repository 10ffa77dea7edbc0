---------------------------- MODULE HostedEngine ----------------------------
(***************************************************************************)
(* The engine as the macOS app holds it (qf-ffi lib.rs over qf-core        *)
(* engine.rs): the queue, the settings and the reminder behind one lock,   *)
(* their files, saves that fail, files that cannot be read, panics in the  *)
(* middle of a call, a clock that is set, and the message line of the app  *)
(* (QueueModel.swift).  The queue is seen as its current task - what the   *)
(* requests do to the rest is LocalTasks - and as torn while a change is   *)
(* half made.  It is the standalone queue: its host has no worker.         *)
(***************************************************************************)
EXTENDS FlashReminder

CONSTANTS
  MaxProblems,       \* problems held for the next tick
  Jump,              \* by how many seconds the clock may be set
  MaxFaults          \* bound on failed saves and reads, panics and set clocks

ASSUME HostAssumption == MaxProblems \in Nat \ {0} /\ MaxFaults \in Nat /\ Jump \subseteq Int

VARIABLES
  engine,            \* [queue, settings, reminder] in memory
  guard,             \* [poisoned, damaged, outageOver, problems] of the lock
  phase,             \* "running", or "stopped" between two runs of the app
  tasksFile,
  settingsFile,
  time,              \* local time of day
  flash,             \* what the last call drew, with how long it waited
  told,              \* the user was told of an outage that was not ended since
  own,               \* history: the settings the user last had accepted
  waited,            \* history: [ticks, least, jumped] of the current wait
  faults

vars == <<engine, guard, phase, tasksFile, settingsFile, time, flash, told, own, waited, faults>>
files == <<tasksFile, settingsFile>>

Queue == [current : {None, "running", "paused"}, torn : BOOLEAN]
Whole == {q \in Queue : ~q.torn}
FullWait(settings) == [ticks |-> 0, least |-> settings.interval, jumped |-> FALSE]
Draws == {"ok", "before", "after"}

\* Engine::open.
Opened ==
  [queue |-> tasksFile, settings |-> Loaded(settingsFile),
   reminder |-> NewReminder(Stored(settingsFile))]

Init ==
  /\ tasksFile \in Whole
  /\ settingsFile \in {None, Unreadable, DefaultSettings}
  /\ engine = Opened
  /\ guard = [poisoned |-> FALSE, damaged |-> FALSE, outageOver |-> FALSE, problems |-> 0]
  /\ phase = "running" /\ time \in 0..(Day - 1) /\ flash = None /\ told = FALSE
  /\ own = Stored(settingsFile) /\ waited = FullWait(own) /\ faults = 0

\* State::report, of which only how many there are is kept.
Report(problems) == IF problems < MaxProblems THEN problems + 1 ELSE problems

(***************************************************************************)
(* QueueEngine::lock: what a call finds once it has the lock.  After a     *)
(* panic, and for as long as it could not be done, the engine starts again *)
(* from its files; `reads` says whether they could be read.  Settings that *)
(* cannot be read count as a failure here.                                 *)
(***************************************************************************)
MustRecover == guard.poisoned \/ guard.damaged
Readable(reads) == reads /\ settingsFile # Unreadable
Recovers(reads) == MustRecover /\ Readable(reads)

\* Fault: settings that cannot be read are taken as the defaults.
FaultFound(reads) ==
  IF ~MustRecover THEN [engine |-> engine, guard |-> guard]
  ELSE [engine |-> IF Readable(reads) THEN Opened
                   ELSE [Opened EXCEPT !.settings = Loaded(None)],
        guard |-> [poisoned |-> FALSE, damaged |-> FALSE, outageOver |-> TRUE,
                   problems |-> Report(guard.problems)]]

\* Fault: a poisoned lock is cleared and the engine kept as it is.
FaultKept(reads) == [engine |-> engine, guard |-> [guard EXCEPT !.poisoned = FALSE]]

\* Fault: the engine that starts again does not say that an outage is over.
FaultQuiet(reads) ==
  IF ~MustRecover THEN [engine |-> engine, guard |-> guard]
  ELSE IF Readable(reads)
  THEN [engine |-> Opened,
        guard |-> [guard EXCEPT !.poisoned = FALSE, !.damaged = FALSE]]
  ELSE [engine |-> engine, guard |-> [guard EXCEPT !.poisoned = FALSE, !.damaged = TRUE]]

\* The engine and the guard that a call finds.
Found(reads) ==
  IF ~MustRecover THEN [engine |-> engine, guard |-> guard]
  ELSE IF Readable(reads)
  THEN [engine |-> Opened,
        guard |-> [poisoned |-> FALSE, damaged |-> FALSE, outageOver |-> TRUE,
                   problems |-> Report(guard.problems)]]
  ELSE [engine |-> engine,
        guard |-> [guard EXCEPT !.poisoned = FALSE, !.damaged = TRUE,
                     !.problems = IF guard.poisoned
                                  THEN Report(@) ELSE @]]

\* State::usable: a damaged engine is not changed.
Usable(found) == ~found.guard.damaged

\* State::settle: what a change leaves in the guard, its durability warning kept
\* for the tick.
Settled(guarded, saved) ==
  IF saved = "after" THEN [guarded EXCEPT !.problems = Report(@)] ELSE guarded

\* The histories and the faults of a call that found the lock so.
Reopens(reads) ==
  /\ own' = IF Recovers(reads) THEN Stored(settingsFile) ELSE own
  /\ waited' = IF Recovers(reads) THEN FullWait(Stored(settingsFile)) ELSE waited
Costs(reads, count) ==
  /\ ~reads => MustRecover
  /\ faults' = faults + count + (IF reads THEN 0 ELSE 1)
  /\ faults' <= MaxFaults
Cost(saved) == IF saved = "ok" THEN 0 ELSE 1

(***************************************************************************)
(* Calls                                                                   *)
(***************************************************************************)
\* A reader, which takes the lock and so recovers: snapshot, settings,
\* sync_recovery, flash_status.
Look(reads) ==
  /\ MustRecover
  /\ engine' = Found(reads).engine /\ guard' = Found(reads).guard
  /\ flash' = None
  /\ Reopens(reads) /\ Costs(reads, 0)
  /\ UNCHANGED <<phase, files, time, told>>

\* QueueEngine::change: refused while damaged; else a request that changes the
\* current task.
Change(reads, saved) ==
  LET found == Found(reads)
  IN /\ Usable(found)
     /\ \E q \in Whole :
          /\ q # found.engine.queue
          /\ engine' = IF saved = "before" THEN found.engine
                       ELSE [found.engine EXCEPT
                               !.queue = [q EXCEPT !.torn = found.engine.queue.torn]]
          /\ tasksFile' = IF saved = "before" THEN tasksFile ELSE engine'.queue
     /\ guard' = Settled(found.guard, saved)
     /\ flash' = None
     /\ Reopens(reads) /\ Costs(reads, Cost(saved))
     /\ UNCHANGED <<phase, settingsFile, time, told>>

\* A call that is refused while the engine is damaged.
Refused(reads) ==
  LET found == Found(reads)
  IN /\ ~Usable(found)
     /\ engine' = found.engine /\ guard' = found.guard /\ flash' = None
     /\ Reopens(reads) /\ Costs(reads, 0)
     /\ UNCHANGED <<phase, files, time, told>>

\* A panic before the save, with the change half made, or after it.
ChangePanics(reads) ==
  LET found == Found(reads)
  IN /\ Usable(found)
     /\ \/ /\ engine' = [found.engine EXCEPT !.queue.torn = TRUE]
           /\ UNCHANGED tasksFile
        \/ \E q \in Whole :
             /\ engine' = [found.engine EXCEPT
                             !.queue = [q EXCEPT !.torn = found.engine.queue.torn]]
             /\ tasksFile' = engine'.queue
     /\ guard' = [found.guard EXCEPT !.poisoned = TRUE]
     /\ flash' = None
     /\ Reopens(reads) /\ Costs(reads, 1)
     /\ UNCHANGED <<phase, settingsFile, time, told>>

\* QueueEngine::set_settings: the settings the app shows, with one key changed.
SetSettings(reads) ==
  LET found == Found(reads)
  IN /\ Usable(found)
     /\ \E k \in DOMAIN SettingValues : \E v \in SettingValues[k] :
          /\ engine' = [found.engine EXCEPT
                          !.settings = Updated(@, [engine.settings.settings EXCEPT ![k] = v])]
          /\ own' = Sanitized([own EXCEPT ![k] = v])
     /\ guard' = found.guard /\ flash' = None
     /\ waited' = IF Recovers(reads) THEN FullWait(Stored(settingsFile)) ELSE waited
     /\ Costs(reads, 0)
     /\ UNCHANGED <<phase, files, time, told>>

\* QueueEngine::flash_now, a preview that bypasses the quiet rules.
FlashNow(reads) ==
  LET found == Found(reads)
      settings == found.engine.settings.settings
  IN /\ Usable(found) /\ found.engine.queue.current # None
     /\ \E random \in 0..(Len(Style) - 1) :
          engine' = [found.engine EXCEPT !.reminder = Fired(@, settings, random)]
     /\ guard' = found.guard
     /\ flash' = [FullWait(settings) EXCEPT !.jumped = TRUE]
     /\ own' = IF Recovers(reads) THEN Stored(settingsFile) ELSE own
     /\ waited' = FullWait(settings)
     /\ Costs(reads, 0)
     /\ UNCHANGED <<phase, files, time, told>>

(***************************************************************************)
(* The clock: once a second, `seconds` after the tick before.              *)
(***************************************************************************)
Later(seconds) == (time + seconds) % Day

\* The second as the history of the wait counts it.
Counted(seconds, wait, settings) ==
  [ticks |-> IF wait.ticks < IntervalMax THEN wait.ticks + 1 ELSE wait.ticks,
   least |-> IF settings.interval < wait.least THEN settings.interval ELSE wait.least,
   jumped |-> wait.jumped \/ seconds > 1]

\* A tick of an engine that is sound: the settings writer, then the reminder,
\* and everything that was waiting to be said.
TickSound(found, recovers, seconds, saved) ==
  LET store == found.engine.settings
      settings == store.settings
      current == found.engine.queue.current
      reminder == Elapsed(found.engine.reminder, IF recovers THEN 0 ELSE seconds)
      fires == Fires(reminder, settings, current, Later(seconds))
      counted == Counted(seconds, IF recovers THEN FullWait(settings) ELSE waited, settings)
      ended == store.reported /\ ~Ticked(store, saved).reported
  IN /\ \E random \in 0..(Len(Style) - 1) :
          engine' = [found.engine EXCEPT
            !.settings = Ticked(store, saved),
            !.reminder = ReminderTick(reminder, settings, current, Later(seconds), random)]
     /\ settingsFile' = TickWritten(settingsFile, store, saved)
     /\ flash' = IF fires THEN counted ELSE None
     /\ waited' = IF fires \/ Held(settings, current, Later(seconds))
                  THEN FullWait(settings) ELSE counted
     /\ told' = (TickReports(store, saved) \/ (told /\ ~ended /\ ~found.guard.outageOver))

\* A tick of one that is damaged only hands over what was waiting.
TickDamaged(found) ==
  /\ engine' = found.engine
  /\ flash' = None
  /\ told' = (told /\ ~found.guard.outageOver)
  /\ UNCHANGED <<settingsFile, waited>>

Tick(reads, seconds, saved) ==
  LET found == Found(reads)
  IN /\ saved # "ok" => Usable(found) /\ Attempts(found.engine.settings)
     /\ IF Usable(found) THEN TickSound(found, Recovers(reads), seconds, saved)
        ELSE TickDamaged(found)
     /\ guard' = [found.guard EXCEPT !.outageOver = FALSE, !.problems = 0]
     /\ time' = Later(seconds)
     /\ own' = IF Recovers(reads) THEN Stored(settingsFile) ELSE own
     /\ Costs(reads, Cost(saved) + (IF seconds = 1 THEN 0 ELSE 1))
     /\ UNCHANGED <<phase, tasksFile>>

\* A tick that panics once the writer had its turn: its result is lost, and
\* with it what had been taken out to be told.
TickPanics(reads) ==
  LET found == Found(reads)
      store == found.engine.settings
  IN /\ Usable(found)
     /\ engine' = [found.engine EXCEPT !.settings = Ticked(store, "ok")]
     /\ settingsFile' = TickWritten(settingsFile, store, "ok")
     /\ guard' = [found.guard EXCEPT !.poisoned = TRUE, !.outageOver = FALSE]
     /\ time' = Later(1) /\ flash' = None
     /\ Reopens(reads) /\ Costs(reads, 1)
     /\ UNCHANGED <<phase, tasksFile, told>>

(***************************************************************************)
(* The process                                                             *)
(***************************************************************************)
\* What a stopped process leaves: the files, and settings that are theirs.
Stops ==
  /\ phase' = "stopped"
  /\ own' = Stored(settingsFile')
  /\ flash' = None /\ told' = FALSE
  /\ UNCHANGED <<tasksFile, time, waited>>

\* The app quits: QueueEngine::flush, which never sits out a turn.
Quit(reads, saved) ==
  LET found == Found(reads)
      store == found.engine.settings
  IN /\ saved # "ok" => Usable(found) /\ store.dirty
     /\ IF ~Usable(found) THEN UNCHANGED settingsFile /\ engine' = found.engine
        ELSE /\ settingsFile' = Written(settingsFile, store, saved)
             /\ engine' = [found.engine EXCEPT !.settings = Flushed(store, saved)]
     /\ guard' = [found.guard EXCEPT !.problems = 0]
     /\ Costs(reads, Cost(saved))
     /\ Stops

\* The process is killed, and the settings not yet written go with it.
Kill ==
  /\ UNCHANGED <<engine, guard, settingsFile>>
  /\ faults' = faults + 1 /\ faults' <= MaxFaults
  /\ Stops

\* QueueEngine::new.
Start ==
  /\ phase' = "running"
  /\ engine' = Opened
  /\ guard' = [poisoned |-> FALSE, damaged |-> FALSE, outageOver |-> FALSE, problems |-> 0]
  /\ flash' = None /\ waited' = FullWait(Stored(settingsFile))
  /\ UNCHANGED <<files, time, told, own, faults>>

Call ==
  \E reads \in BOOLEAN :
    \/ Look(reads) \/ Refused(reads) \/ SetSettings(reads) \/ FlashNow(reads)
    \/ \E saved \in Draws : Change(reads, saved)
    \/ ChangePanics(reads)
Second ==
  \E reads \in BOOLEAN :
    \/ \E seconds \in {1} \cup Jump, saved \in Draws : Tick(reads, seconds, saved)
    \/ TickPanics(reads)
Leave == (\E reads \in BOOLEAN, saved \in Draws : Quit(reads, saved)) \/ Kill

Next ==
  \/ phase = "running" /\ (Call \/ Second \/ Leave)
  \/ phase = "stopped" /\ Start

Spec == Init /\ [][Next]_vars

\* The app's timer fires every second for as long as it runs - failures and set
\* clocks are bounded, so sooner or later without any - and someone who quits
\* the app starts it again.
Fairness ==
  /\ WF_vars(phase = "running" /\ Tick(TRUE, 1, "ok"))
  /\ WF_vars(phase = "stopped" /\ Start)
LiveSpec == Spec /\ Fairness

(***************************************************************************)
(* Properties                                                              *)
(***************************************************************************)
Sound == phase = "running" /\ ~MustRecover

\* A change half made by a panic is never saved, and an engine that answers
\* holds the queue of its file (qf-ffi lib.rs "nor leave a half-made change in
\* memory for the next one to save").
OnlyWholeChanges == ~tasksFile.torn /\ (Sound => engine.queue = tasksFile)

\* The engine has the settings the user last had accepted, and so has the file or
\* they are still to be written: no default is ever written over a setting of
\* theirs, whatever could not be read or written on the way.
OwnSettings ==
  phase = "running" =>
    /\ engine.settings.settings = own
    /\ engine.settings.dirty \/ Stored(settingsFile) = own \/ settingsFile = Unreadable

\* An outage of the settings file is told once, and what was told is taken back
\* once a write works or the engine starts again: the message on the screen
\* stands for settings that are not in the file.
OutageTold ==
  Sound => /\ told <=> engine.settings.reported \/ (told /\ guard.outageOver)
           /\ (told => engine.settings.dirty \/ guard.outageOver)

\* The flash of a tick comes a full wait after the last thing that held it back
\* or the last flash: a full wait of the shortest interval that was set on the
\* way, in seconds as they pass; only a clock set forward can cut it short.
NoEarlyFlash == flash # None => flash.jumped \/ flash.ticks >= flash.least

\* With a task in Now and nothing that holds the flash back, flashes keep
\* coming, whatever the user sets in between.
FlashesGoOn ==
  <>[](Sound /\ ~Held(engine.settings.settings, engine.queue.current, time))
    => []<>(flash # None)

\* A setting that was changed reaches its file, through failed writes, panics
\* and restarts, unless the user cannot be given theirs back to begin with.
SettingsReachTheFile ==
  (phase = "running" /\ Stored(settingsFile) # own)
    ~> (Stored(settingsFile) = own \/ settingsFile = Unreadable)
=============================================================================
