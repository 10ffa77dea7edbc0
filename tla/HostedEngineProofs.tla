------------------------- MODULE HostedEngineProofs -------------------------
(***************************************************************************)
(* The engine behind the lock of its host saves only whole changes and the *)
(* user's own settings, tells of an outage for as long as there is one,    *)
(* and never flashes early, however many panics, failed saves, unreadable  *)
(* files, set clocks and restarts there are.                               *)
(***************************************************************************)
EXTENDS HostedEngine, TLAPS

Stores == [settings : Settings, dirty : BOOLEAN, reported : BOOLEAN, backoff : Nat]
Guards == [poisoned : BOOLEAN, damaged : BOOLEAN, outageOver : BOOLEAN, problems : Nat]
Waits == [ticks : 0..IntervalMax, least : 1..IntervalMax, jumped : BOOLEAN]
Files == Settings \cup {None, Unreadable}

IsReminder(r) == DOMAIN r = {"wait", "last"} /\ r.wait \in Int
IsEngine(e) ==
  /\ DOMAIN e = {"queue", "settings", "reminder"}
  /\ e.queue \in Queue /\ e.settings \in Stores /\ IsReminder(e.reminder)

\* What ties a store to its file and to the settings the user had accepted.
Owned(store, file, o) ==
  /\ store.settings = o
  /\ store.dirty \/ Stored(file) = o \/ file = Unreadable

\* The wait that is left makes up for what the current one lacks.
InTime(r, w) == w.jumped \/ r.wait + w.ticks >= w.least

\* What was told of an outage, while the engine is sound.
Telling(store, g, t) ==
  /\ g.outageOver => ~store.reported
  /\ store.reported => store.dirty
  /\ t <=> store.reported \/ (t /\ g.outageOver)

HTypes ==
  /\ IsEngine(engine) /\ guard \in Guards
  /\ phase \in {"running", "stopped"} /\ told \in BOOLEAN
  /\ tasksFile \in Whole /\ settingsFile \in Files
  /\ own \in Settings /\ waited \in Waits
  /\ flash # None => flash \in Waits

\* The inductive invariant: beyond the properties, what a stopped process
\* leaves, and what links the wait of the reminder to its history.
HInv ==
  /\ HTypes
  /\ Sound => engine.queue = tasksFile /\ Telling(engine.settings, guard, told)
  /\ phase = "running" =>
       Owned(engine.settings, settingsFile, own) /\ InTime(engine.reminder, waited)
  /\ phase = "stopped" => own = Stored(settingsFile) /\ ~told
  /\ NoEarlyFlash

(***************************************************************************)
(* Settings                                                                *)
(***************************************************************************)
LEMMA Ranges ==
  /\ IntervalMin \in Nat \ {0} /\ IntervalMax \in Nat /\ IntervalMin <= IntervalMax
  /\ RetryTicks \in Nat /\ DefaultSettings \in Settings
  /\ None \notin Settings /\ Unreadable \notin Settings
BY RangeAssumption, SettingsAssumption

\* Settings that were accepted are stored as they are.
LEMMA SanitizedKeeps ==
  ASSUME NEW s \in Settings PROVE Sanitized(s) = s /\ Stored(s) = s
<1>1. Sanitized(s) = s
  BY Ranges DEF Sanitized, Clamped, Settings
<1>2. s # None /\ s # Unreadable
  BY Ranges
<1> QED BY <1>1, <1>2 DEF Stored

LEMMA StoredType ==
  ASSUME NEW file \in Files PROVE Stored(file) \in Settings
BY Ranges, SanitizedKeeps DEF Stored, Files

LEMMA SanitizedType ==
  ASSUME NEW s \in Settings, NEW k \in DOMAIN SettingValues, NEW v \in SettingValues[k]
  PROVE  Sanitized([s EXCEPT ![k] = v]) \in Settings
<1>1. k \in Key /\ v \in (IF k = "interval" THEN Nat ELSE BOOLEAN)
  BY SettingsAssumption
<1>2. CASE k = "interval"
  <2>1. v \in Nat
    BY <1>1, <1>2
  <2>2. Clamped(v) \in IntervalMin..IntervalMax
    BY <2>1, Ranges DEF Clamped
  <2> QED BY <1>2, <2>2 DEF Sanitized, Settings
<1>3. CASE k # "interval"
  <2>1. v \in BOOLEAN /\ k \in {"vary", "quiet_paused", "quiet_hours"}
    BY <1>1, <1>3 DEF Key
  <2>2. [s EXCEPT ![k] = v] \in Settings
    BY <2>1 DEF Settings
  <2> QED BY <2>2, SanitizedKeeps
<1> QED BY <1>2, <1>3

LEMMA FullWaitType ==
  ASSUME NEW s \in Settings
  PROVE  FullWait(s) \in Waits /\ s.interval \in 1..IntervalMax
BY Ranges DEF FullWait, Waits, Settings

(***************************************************************************)
(* An engine that starts from its files                                    *)
(***************************************************************************)
LEMMA OpenedOK ==
  ASSUME tasksFile \in Whole, settingsFile \in Files
  PROVE  /\ IsEngine(Opened) /\ Opened.queue = tasksFile
         /\ Owned(Opened.settings, settingsFile, Stored(settingsFile))
         /\ InTime(Opened.reminder, FullWait(Stored(settingsFile)))
         /\ ~Opened.settings.reported /\ ~Opened.settings.dirty
         /\ Stored(settingsFile) \in Settings
         /\ FullWait(Stored(settingsFile)) \in Waits
<1>1. Stored(settingsFile) \in Settings /\ FullWait(Stored(settingsFile)) \in Waits
  BY StoredType, FullWaitType
<1>2. Stored(settingsFile).interval \in Int
  BY <1>1, FullWaitType
<1>3. Loaded(settingsFile) \in Stores
  BY <1>1 DEF Loaded, Stores
<1>4. IsReminder(NewReminder(Stored(settingsFile)))
  BY <1>2 DEF IsReminder, NewReminder
<1>5. IsEngine(Opened) /\ Opened.queue = tasksFile
  BY <1>3, <1>4 DEF IsEngine, Opened, Whole
<1>6. Owned(Opened.settings, settingsFile, Stored(settingsFile))
  BY DEF Owned, Opened, Loaded
<1>7. InTime(Opened.reminder, FullWait(Stored(settingsFile)))
  BY <1>2 DEF InTime, Opened, NewReminder, FullWait
<1>8. ~Opened.settings.reported /\ ~Opened.settings.dirty
  BY DEF Opened, Loaded
<1> QED BY <1>1, <1>5, <1>6, <1>7, <1>8

\* The histories of a call, by whether it starts again from the files.
OwnOf(reads) == IF Recovers(reads) THEN Stored(settingsFile) ELSE own
WaitOf(reads) == IF Recovers(reads) THEN FullWait(Stored(settingsFile)) ELSE waited

\* What every call finds.
LEMMA FoundOK ==
  ASSUME HInv, phase = "running", NEW reads \in BOOLEAN
  PROVE  /\ IsEngine(Found(reads).engine) /\ Found(reads).guard \in Guards
         /\ ~Found(reads).guard.poisoned
         /\ OwnOf(reads) \in Settings /\ WaitOf(reads) \in Waits
         /\ Owned(Found(reads).engine.settings, settingsFile, OwnOf(reads))
         /\ InTime(Found(reads).engine.reminder, WaitOf(reads))
         /\ Usable(Found(reads)) =>
              /\ Found(reads).engine.queue = tasksFile
              /\ Telling(Found(reads).engine.settings, Found(reads).guard, told)
<1> USE DEF Found, Usable, OwnOf, WaitOf, Recovers
<1>1. /\ IsEngine(engine) /\ guard \in Guards /\ own \in Settings /\ waited \in Waits
      /\ tasksFile \in Whole /\ settingsFile \in Files /\ told \in BOOLEAN
      /\ Owned(engine.settings, settingsFile, own) /\ InTime(engine.reminder, waited)
  BY DEF HInv, HTypes
<1>2. \A n \in Nat : Report(n) \in Nat
  BY HostAssumption DEF Report
<1>3. CASE ~MustRecover
  BY <1>1, <1>3 DEF HInv, Sound, MustRecover, Guards
<1>4. CASE MustRecover /\ Readable(reads)
  <2> DEFINE g == Found(reads).guard
  <2>1. Found(reads).engine = Opened /\ OwnOf(reads) = Stored(settingsFile)
        /\ WaitOf(reads) = FullWait(Stored(settingsFile))
    BY <1>4
  <2>2. g = [poisoned |-> FALSE, damaged |-> FALSE, outageOver |-> TRUE,
             problems |-> Report(guard.problems)]
    BY <1>4
  <2>3. g \in Guards /\ ~g.poisoned /\ g.outageOver
    <3>1. Report(guard.problems) \in Nat
      BY <1>1, <1>2 DEF Guards
    <3> HIDE DEF g
    <3> QED BY <2>2, <3>1 DEF Guards
  <2>4. Telling(Opened.settings, g, told)
    BY <2>3, <1>1, OpenedOK DEF Telling
  <2> QED BY <1>1, <2>1, <2>3, <2>4, OpenedOK
<1>5. CASE MustRecover /\ ~Readable(reads)
  <2> DEFINE g == Found(reads).guard
  <2>1. g = [guard EXCEPT !.poisoned = FALSE, !.damaged = TRUE,
               !.problems = IF guard.poisoned THEN Report(@) ELSE @]
    BY <1>5
  <2>2. g \in Guards /\ ~g.poisoned /\ g.damaged
    BY <2>1, <1>1, <1>2 DEF Guards
  <2> QED BY <1>1, <1>5, <2>2
<1> QED BY <1>3, <1>4, <1>5

(***************************************************************************)
(* Calls                                                                   *)
(***************************************************************************)
LEMMA LookKeeps ==
  ASSUME HInv, phase = "running", NEW reads \in BOOLEAN, Look(reads) \/ Refused(reads)
  PROVE  HInv'
<1> DEFINE f == Found(reads)
<1>1. /\ engine' = f.engine /\ guard' = f.guard /\ flash' = None
      /\ own' = OwnOf(reads) /\ waited' = WaitOf(reads)
      /\ UNCHANGED <<phase, tasksFile, settingsFile, told>>
  BY DEF Look, Refused, Reopens, OwnOf, WaitOf, files
<1>2. Sound' => Usable(f)
  BY <1>1 DEF Sound, MustRecover, Usable
<1> QED BY <1>1, <1>2, FoundOK DEF HInv, HTypes, NoEarlyFlash

LEMMA ChangeKeeps ==
  ASSUME HInv, phase = "running", NEW reads \in BOOLEAN, NEW saved \in Draws,
         Change(reads, saved)
  PROVE  HInv'
<1> DEFINE f == Found(reads)
<1>1. /\ Usable(f) /\ guard' = Settled(f.guard, saved) /\ flash' = None
      /\ own' = OwnOf(reads) /\ waited' = WaitOf(reads)
      /\ UNCHANGED <<phase, settingsFile, told>>
  BY DEF Change, Reopens, OwnOf, WaitOf
<1>2. PICK q \in Whole :
        /\ engine' = IF saved = "before" THEN f.engine
                     ELSE [f.engine EXCEPT !.queue = [q EXCEPT !.torn = f.engine.queue.torn]]
        /\ tasksFile' = IF saved = "before" THEN tasksFile ELSE engine'.queue
  BY DEF Change
<1>3. IsEngine(f.engine) /\ f.engine.queue = tasksFile /\ tasksFile \in Whole
  BY <1>1, FoundOK DEF HInv, HTypes
<1>4. [q EXCEPT !.torn = f.engine.queue.torn] \in Whole
  BY <1>3 DEF Whole, Queue
<1>5. /\ IsEngine(engine') /\ tasksFile' \in Whole /\ engine'.queue = tasksFile'
      /\ engine'.settings = f.engine.settings /\ engine'.reminder = f.engine.reminder
  BY <1>2, <1>3, <1>4 DEF IsEngine, Whole
<1>6. guard' \in Guards /\ guard'.outageOver = f.guard.outageOver
  BY <1>1, FoundOK, HostAssumption DEF Settled, Report, Guards
<1> QED BY <1>1, <1>5, <1>6, FoundOK DEF HInv, HTypes, NoEarlyFlash, Telling

LEMMA ChangePanicsKeeps ==
  ASSUME HInv, phase = "running", NEW reads \in BOOLEAN, ChangePanics(reads)
  PROVE  HInv'
<1> DEFINE f == Found(reads)
<1>1. /\ Usable(f) /\ guard' = [f.guard EXCEPT !.poisoned = TRUE] /\ flash' = None
      /\ own' = OwnOf(reads) /\ waited' = WaitOf(reads)
      /\ UNCHANGED <<phase, settingsFile, told>>
  BY DEF ChangePanics, Reopens, OwnOf, WaitOf
<1>2. IsEngine(f.engine) /\ f.engine.queue = tasksFile /\ tasksFile \in Whole
  BY <1>1, FoundOK DEF HInv, HTypes
<1>3. /\ IsEngine(engine') /\ tasksFile' \in Whole
      /\ engine'.settings = f.engine.settings /\ engine'.reminder = f.engine.reminder
  <2>1. CASE engine' = [f.engine EXCEPT !.queue.torn = TRUE] /\ UNCHANGED tasksFile
    BY <1>2, <2>1 DEF IsEngine, Whole, Queue
  <2>2. CASE \E q \in Whole :
               /\ engine' = [f.engine EXCEPT !.queue = [q EXCEPT !.torn = f.engine.queue.torn]]
               /\ tasksFile' = engine'.queue
    <3>1. PICK q \in Whole :
            /\ engine' = [f.engine EXCEPT !.queue = [q EXCEPT !.torn = f.engine.queue.torn]]
            /\ tasksFile' = engine'.queue
      BY <2>2
    <3>2. [q EXCEPT !.torn = f.engine.queue.torn] \in Whole
      BY <1>2 DEF Whole, Queue
    <3> QED BY <1>2, <3>1, <3>2 DEF IsEngine, Whole
  <2> QED BY <2>1, <2>2 DEF ChangePanics
<1>4. guard' \in Guards /\ guard'.poisoned
  BY <1>1, FoundOK DEF Guards
<1>5. ~Sound'
  BY <1>4 DEF Sound, MustRecover
<1> QED BY <1>1, <1>3, <1>4, <1>5, FoundOK DEF HInv, HTypes, NoEarlyFlash

LEMMA SetSettingsKeeps ==
  ASSUME HInv, phase = "running", NEW reads \in BOOLEAN, SetSettings(reads)
  PROVE  HInv'
<1> DEFINE f == Found(reads)
<1>1. /\ Usable(f) /\ guard' = f.guard /\ flash' = None /\ waited' = WaitOf(reads)
      /\ UNCHANGED <<phase, tasksFile, settingsFile, told>>
  BY DEF SetSettings, WaitOf, files
<1>2. engine.settings.settings = own /\ own \in Settings
  BY DEF HInv, HTypes, Owned
<1>0. PICK k \in DOMAIN SettingValues : \E v \in SettingValues[k] :
        /\ engine' = [f.engine EXCEPT !.settings = Updated(@, [own EXCEPT ![k] = v])]
        /\ own' = Sanitized([own EXCEPT ![k] = v])
  BY <1>2 DEF SetSettings
<1>3. PICK v \in SettingValues[k] :
        /\ engine' = [f.engine EXCEPT !.settings = Updated(@, [own EXCEPT ![k] = v])]
        /\ own' = Sanitized([own EXCEPT ![k] = v])
  BY <1>0
<1>4. own' \in Settings
  BY <1>2, <1>3, SanitizedType
<1>5. IsEngine(f.engine) /\ Owned(f.engine.settings, settingsFile, OwnOf(reads))
  BY FoundOK
<1>6. engine'.settings = [f.engine.settings EXCEPT !.settings = own',
                            !.dirty = @ \/ own' # f.engine.settings.settings]
  BY <1>3, <1>5 DEF IsEngine, Updated
<1>7. /\ IsEngine(engine') /\ engine'.queue = f.engine.queue
      /\ engine'.reminder = f.engine.reminder
  BY <1>3, <1>4, <1>5, <1>6 DEF IsEngine, Stores
<1>8. Owned(engine'.settings, settingsFile, own')
  BY <1>4, <1>5, <1>6 DEF Owned, IsEngine, Stores
<1>9. Telling(engine'.settings, f.guard, told)
  BY <1>1, <1>5, <1>6, FoundOK DEF Telling, IsEngine, Stores
<1> QED BY <1>1, <1>4, <1>7, <1>8, <1>9, FoundOK DEF HInv, HTypes, NoEarlyFlash

LEMMA FiredType ==
  ASSUME NEW r, NEW s \in Settings, NEW random
  PROVE  IsReminder(Fired(r, s, random)) /\ InTime(Fired(r, s, random), FullWait(s))
<1>1. s.interval \in Int
  BY FullWaitType
<1> QED BY <1>1 DEF IsReminder, Fired, InTime, FullWait

LEMMA FlashNowKeeps ==
  ASSUME HInv, phase = "running", NEW reads \in BOOLEAN, FlashNow(reads)
  PROVE  HInv'
<1> DEFINE f == Found(reads)
           s == f.engine.settings.settings
<1>1. /\ Usable(f) /\ guard' = f.guard /\ flash' = [FullWait(s) EXCEPT !.jumped = TRUE]
      /\ own' = OwnOf(reads) /\ waited' = FullWait(s)
      /\ UNCHANGED <<phase, tasksFile, settingsFile, told>>
  BY DEF FlashNow, OwnOf, files
<1>2. PICK random : engine' = [f.engine EXCEPT !.reminder = Fired(@, s, random)]
  BY DEF FlashNow
<1>3. IsEngine(f.engine) /\ s \in Settings
  BY FoundOK DEF IsEngine, Stores
<1>4. /\ IsEngine(engine') /\ engine'.queue = f.engine.queue
      /\ engine'.settings = f.engine.settings
      /\ InTime(engine'.reminder, waited')
  BY <1>1, <1>2, <1>3, FiredType DEF IsEngine
<1>5. waited' \in Waits /\ flash' \in Waits /\ flash'.jumped
  BY <1>1, <1>3, FullWaitType DEF Waits
<1> QED BY <1>1, <1>4, <1>5, FoundOK DEF HInv, HTypes, NoEarlyFlash

(***************************************************************************)
(* The second                                                              *)
(***************************************************************************)
LEMMA FlushOwned ==
  ASSUME NEW store \in Stores, NEW file \in Files, NEW o \in Settings, NEW saved \in Draws,
         Owned(store, file, o)
  PROVE  /\ Flushed(store, saved) \in Stores /\ Written(file, store, saved) \in Files
         /\ Owned(Flushed(store, saved), Written(file, store, saved), o)
<1>1. RetryTicks \in Nat /\ Stored(o) = o
  BY Ranges, SanitizedKeeps
<1>2. Flushed(store, saved) \in Stores
  BY <1>1 DEF Flushed, Stores
<1>3. Written(file, store, saved) \in Files
  BY DEF Owned, Written, Files
<1>4. Flushed(store, saved).settings = o
  BY DEF Owned, Flushed, Stores
<1>5. CASE ~store.dirty
  BY <1>5, <1>2, <1>3 DEF Owned, Flushed, Written
<1>6. CASE store.dirty /\ saved = "before"
  <2>1. Flushed(store, saved).dirty
    BY <1>6 DEF Flushed, Stores
  <2> QED BY <1>2, <1>3, <1>4, <2>1 DEF Owned
<1>7. CASE store.dirty /\ saved # "before"
  <2>1. Written(file, store, saved) = o
    BY <1>7 DEF Owned, Written
  <2> QED BY <1>1, <1>2, <1>3, <1>4, <2>1 DEF Owned
<1> QED BY <1>5, <1>6, <1>7

LEMMA TickOwned ==
  ASSUME NEW store \in Stores, NEW file \in Files, NEW o \in Settings, NEW saved \in Draws,
         Owned(store, file, o)
  PROVE  /\ Ticked(store, saved) \in Stores /\ TickWritten(file, store, saved) \in Files
         /\ Owned(Ticked(store, saved), TickWritten(file, store, saved), o)
<1>1. CASE store.backoff > 0
  BY <1>1 DEF Ticked, TickWritten, Owned, Stores
<1>2. CASE ~(store.backoff > 0)
  BY <1>2, FlushOwned DEF Ticked, TickWritten
<1> QED BY <1>1, <1>2

\* What a second tells of and takes back is what the store reports after it.
LEMMA TickTells ==
  ASSUME NEW store \in Stores, NEW saved \in Draws, NEW g \in Guards, NEW h \in Guards,
         NEW t \in BOOLEAN, NEW u \in BOOLEAN,
         Telling(store, g, t), ~h.outageOver,
         u <=> TickReports(store, saved)
                 \/ (t /\ ~(store.reported /\ ~Ticked(store, saved).reported) /\ ~g.outageOver)
  PROVE  Telling(Ticked(store, saved), h, u)
<1>1. CASE store.backoff > 0
  <2>1. /\ Ticked(store, saved).reported = store.reported
        /\ Ticked(store, saved).dirty = store.dirty
        /\ ~TickReports(store, saved)
    BY <1>1 DEF Ticked, TickReports, Stores
  <2> QED BY <2>1 DEF Telling
<1>2. CASE store.backoff = 0
  <2>1. /\ Ticked(store, saved) = Flushed(store, saved)
        /\ TickReports(store, saved) <=> store.dirty /\ saved # "ok" /\ ~store.reported
    BY <1>2 DEF Ticked, TickReports, FlushReports
  <2>2. CASE ~store.dirty
    BY <2>1, <2>2 DEF Flushed, Telling
  <2>3. CASE store.dirty /\ saved = "ok"
    <3>1. ~Ticked(store, saved).reported
      BY <2>1, <2>3 DEF Flushed, Stores
    <3> QED BY <2>1, <2>3, <3>1 DEF Telling
  <2>4. CASE store.dirty /\ saved # "ok"
    <3>1. Ticked(store, saved).reported /\ Ticked(store, saved).dirty
      BY <2>1, <2>4 DEF Flushed, Stores
    <3> QED BY <2>1, <2>4, <3>1 DEF Telling
  <2> QED BY <2>2, <2>3, <2>4
<1> QED BY <1>1, <1>2 DEF Stores

LEMMA CountedType ==
  ASSUME NEW w \in Waits, NEW s \in Settings, NEW seconds \in Int
  PROVE  /\ Counted(seconds, w, s) \in Waits
         /\ Counted(seconds, w, s).least <= w.least
         /\ Counted(seconds, w, s).least <= s.interval
         /\ Counted(seconds, w, s).ticks = IF w.ticks < IntervalMax THEN w.ticks + 1 ELSE w.ticks
         /\ Counted(seconds, w, s).jumped <=> w.jumped \/ seconds > 1
<1> DEFINE c == Counted(seconds, w, s)
<1>1. /\ s.interval \in 1..IntervalMax /\ IntervalMax \in Nat
      /\ w.ticks \in 0..IntervalMax /\ w.least \in 1..IntervalMax /\ w.jumped \in BOOLEAN
  BY Ranges, FullWaitType DEF Waits
<1>2. /\ c.ticks = IF w.ticks < IntervalMax THEN w.ticks + 1 ELSE w.ticks
      /\ c.least = IF s.interval < w.least THEN s.interval ELSE w.least
      /\ c.jumped = (w.jumped \/ seconds > 1)
  BY DEF Counted
<1>3. c.ticks \in 0..IntervalMax /\ c.least \in 1..IntervalMax
      /\ c.least <= w.least /\ c.least <= s.interval
  BY <1>1, <1>2
<1>4. c.jumped \in BOOLEAN /\ (c.jumped <=> w.jumped \/ seconds > 1)
  BY <1>1, <1>2
<1>5. c = [ticks |-> c.ticks, least |-> c.least, jumped |-> c.jumped]
  BY DEF Counted
<1>6. c \in Waits
  BY <1>3, <1>4, <1>5 DEF Waits
<1> QED BY <1>2, <1>3, <1>4, <1>6

\* The reminder's second: a flash comes in time, and so will the next.
LEMMA ReminderInTime ==
  ASSUME NEW r, IsReminder(r), NEW w \in Waits, InTime(r, w),
         NEW s \in Settings, NEW seconds \in Int, NEW elapsed \in Int,
         elapsed = seconds \/ elapsed = 0,
         NEW current, NEW now, NEW random
  PROVE  LET aged == Elapsed(r, elapsed)
             counted == Counted(seconds, w, s)
             fires == Fires(aged, s, current, now)
             next == ReminderTick(aged, s, current, now, random)
         IN /\ IsReminder(next)
            /\ fires => counted.jumped \/ counted.ticks >= counted.least
            /\ InTime(next, IF fires \/ Held(s, current, now) THEN FullWait(s) ELSE counted)
<1> DEFINE aged == Elapsed(r, elapsed)
           counted == Counted(seconds, w, s)
           fires == Fires(aged, s, current, now)
           next == ReminderTick(aged, s, current, now, random)
<1>1. /\ counted \in Waits /\ counted.least <= w.least /\ counted.least <= s.interval
      /\ counted.ticks = IF w.ticks < IntervalMax THEN w.ticks + 1 ELSE w.ticks
      /\ counted.jumped <=> w.jumped \/ seconds > 1
  BY CountedType
<1>2. s.interval \in 1..IntervalMax /\ IntervalMax \in Nat
  BY FullWaitType, Ranges
<1>3. IsReminder(aged) /\ aged.wait = r.wait - elapsed
  BY DEF Elapsed, IsReminder
<1>4. counted.jumped \/ aged.wait + counted.ticks >= counted.least \/ counted.ticks = IntervalMax
  BY <1>1, <1>2, <1>3 DEF InTime, IsReminder, Waits
<1>5. CASE Held(s, current, now)
  <2>1. ~fires
    BY <1>5 DEF Fires
  <2>2. next = [aged EXCEPT !.wait = s.interval]
    BY <1>5 DEF ReminderTick
  <2>3. IsReminder(next) /\ InTime(next, FullWait(s))
    BY <1>2, <1>3, <2>2 DEF IsReminder, InTime, FullWait
  <2> QED BY <1>5, <2>1, <2>3
<1>6. CASE ~Held(s, current, now) /\ Due(aged, s) <= 0
  <2>1. fires /\ next = Fired(aged, s, random)
    BY <1>6 DEF Fires, ReminderTick
  <2>2. aged.wait <= 0
    BY <1>2, <1>3, <1>6 DEF Due, IsReminder
  <2>3. counted.jumped \/ counted.ticks >= counted.least
    BY <1>1, <1>2, <1>3, <1>4, <2>2 DEF Waits, IsReminder
  <2> QED BY <2>1, <2>3, FiredType
<1>7. CASE ~Held(s, current, now) /\ ~(Due(aged, s) <= 0)
  <2>1. ~fires /\ next = [aged EXCEPT !.wait = Due(aged, s)]
    BY <1>7 DEF Fires, ReminderTick
  <2>2. Due(aged, s) \in Int /\ Due(aged, s) > 0
        /\ (Due(aged, s) = aged.wait \/ Due(aged, s) = s.interval)
    BY <1>2, <1>3, <1>7 DEF Due, IsReminder
  <2>3. IsReminder(next) /\ next.wait = Due(aged, s)
    BY <1>3, <2>1, <2>2 DEF IsReminder
  <2>4. InTime(next, counted)
    BY <1>1, <1>2, <1>4, <2>2, <2>3 DEF InTime, Waits
  <2> QED BY <1>7, <2>1, <2>3, <2>4
<1> QED BY <1>5, <1>6, <1>7

LEMMA TickSoundKeeps ==
  ASSUME HInv, phase = "running", NEW reads \in BOOLEAN, NEW saved \in Draws,
         NEW seconds \in {1} \cup Jump, Tick(reads, seconds, saved), Usable(Found(reads))
  PROVE  HInv'
<1> DEFINE f == Found(reads)
           store == f.engine.settings
           s == store.settings
           w == WaitOf(reads)
           current == f.engine.queue.current
           aged == Elapsed(f.engine.reminder, IF Recovers(reads) THEN 0 ELSE seconds)
           fires == Fires(aged, s, current, Later(seconds))
           counted == Counted(seconds, w, s)
<1>1. /\ IsEngine(f.engine) /\ f.guard \in Guards /\ ~f.guard.poisoned /\ ~f.guard.damaged
      /\ OwnOf(reads) \in Settings /\ w \in Waits
      /\ Owned(store, settingsFile, OwnOf(reads)) /\ InTime(f.engine.reminder, w)
      /\ f.engine.queue = tasksFile /\ Telling(store, f.guard, told)
  BY FoundOK DEF Usable
<1>2. /\ store \in Stores /\ IsReminder(f.engine.reminder) /\ s \in Settings
      /\ settingsFile \in Files /\ tasksFile \in Whole /\ told \in BOOLEAN /\ seconds \in Int
  BY <1>1, HostAssumption DEF IsEngine, Stores, HInv, HTypes
<1>3. (IF Recovers(reads) THEN FullWait(s) ELSE waited) = w
  BY <1>1 DEF WaitOf, OwnOf, Owned
<1>4. TickSound(f, Recovers(reads), seconds, saved)
  BY DEF Tick
<1>5. /\ guard' = [f.guard EXCEPT !.outageOver = FALSE, !.problems = 0]
      /\ own' = OwnOf(reads) /\ UNCHANGED <<phase, tasksFile>>
  BY DEF Tick, OwnOf
<1>6. PICK random :
        engine' = [f.engine EXCEPT
          !.settings = Ticked(store, saved),
          !.reminder = ReminderTick(aged, s, current, Later(seconds), random)]
  BY <1>4 DEF TickSound
<1>7. /\ settingsFile' = TickWritten(settingsFile, store, saved)
      /\ flash' = IF fires THEN counted ELSE None
      /\ waited' = IF fires \/ Held(s, current, Later(seconds)) THEN FullWait(s) ELSE counted
  BY <1>3, <1>4 DEF TickSound
<1>8. told' = (TickReports(store, saved)
                \/ (told /\ ~(store.reported /\ ~Ticked(store, saved).reported)
                    /\ ~f.guard.outageOver))
  BY <1>4 DEF TickSound
<1>9. /\ Ticked(store, saved) \in Stores /\ settingsFile' \in Files
      /\ Owned(Ticked(store, saved), settingsFile', own')
  BY <1>1, <1>2, <1>5, <1>7, TickOwned
<1>10. guard' \in Guards /\ ~guard'.outageOver
  BY <1>1, <1>5 DEF Guards
<1>11. told' \in BOOLEAN
  BY <1>2, <1>8 DEF TickReports, FlushReports
<1>12. Telling(Ticked(store, saved), guard', told')
  BY <1>1, <1>2, <1>8, <1>10, <1>11, TickTells
<1>13. /\ IsReminder(ReminderTick(aged, s, current, Later(seconds), random))
       /\ fires => counted.jumped \/ counted.ticks >= counted.least
       /\ InTime(ReminderTick(aged, s, current, Later(seconds), random), waited')
  <2> DEFINE elapsed == IF Recovers(reads) THEN 0 ELSE seconds
  <2>1. elapsed \in Int /\ (elapsed = seconds \/ elapsed = 0)
    BY <1>2
  <2> HIDE DEF elapsed
  <2>2. aged = Elapsed(f.engine.reminder, elapsed)
    BY DEF elapsed
  <2> QED BY <1>1, <1>2, <1>7, <2>1, <2>2, ReminderInTime
<1>14. waited' \in Waits /\ counted \in Waits
  BY <1>1, <1>2, <1>7, CountedType, FullWaitType
<1>15. /\ IsEngine(engine') /\ engine'.queue = tasksFile'
       /\ engine'.settings = Ticked(store, saved)
       /\ InTime(engine'.reminder, waited')
  BY <1>1, <1>5, <1>6, <1>9, <1>13 DEF IsEngine
<1>16. NoEarlyFlash' /\ (flash' # None => flash' \in Waits)
  BY <1>7, <1>13, <1>14 DEF NoEarlyFlash
<1> QED BY <1>1, <1>2, <1>5, <1>9, <1>10, <1>11, <1>12, <1>14, <1>15, <1>16 DEF HInv, HTypes

LEMMA TickDamagedKeeps ==
  ASSUME HInv, phase = "running", NEW reads \in BOOLEAN, NEW saved \in Draws,
         NEW seconds \in {1} \cup Jump, Tick(reads, seconds, saved), ~Usable(Found(reads))
  PROVE  HInv'
<1> DEFINE f == Found(reads)
<1>1. /\ engine' = f.engine /\ flash' = None
      /\ told' = (told /\ ~f.guard.outageOver)
      /\ guard' = [f.guard EXCEPT !.outageOver = FALSE, !.problems = 0]
      /\ own' = OwnOf(reads) /\ UNCHANGED <<phase, tasksFile, settingsFile, waited>>
  BY DEF Tick, TickDamaged, OwnOf
<1>2. WaitOf(reads) = waited
  BY DEF WaitOf, Recovers, Usable, Found
<1>3. guard' \in Guards /\ guard'.damaged
  BY <1>1, FoundOK DEF Guards, Usable
<1>4. told' \in BOOLEAN /\ ~Sound'
  BY <1>1, <1>3 DEF HInv, HTypes, Sound, MustRecover
<1> QED BY <1>1, <1>2, <1>3, <1>4, FoundOK DEF HInv, HTypes, NoEarlyFlash

LEMMA TickPanicsKeeps ==
  ASSUME HInv, phase = "running", NEW reads \in BOOLEAN, TickPanics(reads)
  PROVE  HInv'
<1> DEFINE f == Found(reads)
           store == f.engine.settings
<1>1. /\ engine' = [f.engine EXCEPT !.settings = Ticked(store, "ok")]
      /\ settingsFile' = TickWritten(settingsFile, store, "ok")
      /\ guard' = [f.guard EXCEPT !.poisoned = TRUE, !.outageOver = FALSE] /\ flash' = None
      /\ own' = OwnOf(reads) /\ waited' = WaitOf(reads)
      /\ UNCHANGED <<phase, tasksFile, told>>
  BY DEF TickPanics, Reopens, OwnOf, WaitOf
<1>2. /\ IsEngine(f.engine) /\ store \in Stores /\ "ok" \in Draws /\ settingsFile \in Files
      /\ OwnOf(reads) \in Settings /\ Owned(store, settingsFile, OwnOf(reads))
  BY FoundOK DEF IsEngine, HInv, HTypes, Draws
<1>3. /\ Ticked(store, "ok") \in Stores /\ settingsFile' \in Files
      /\ Owned(Ticked(store, "ok"), settingsFile', own')
  BY <1>1, <1>2, TickOwned
<1>4. /\ IsEngine(engine') /\ engine'.settings = Ticked(store, "ok")
      /\ engine'.reminder = f.engine.reminder
  BY <1>1, <1>2, <1>3 DEF IsEngine
<1>5. guard' \in Guards /\ guard'.poisoned
  BY <1>1, FoundOK DEF Guards
<1>6. ~Sound'
  BY <1>5 DEF Sound, MustRecover
<1> QED BY <1>1, <1>3, <1>4, <1>5, <1>6, FoundOK DEF HInv, HTypes, NoEarlyFlash

(***************************************************************************)
(* The process                                                             *)
(***************************************************************************)
LEMMA QuitKeeps ==
  ASSUME HInv, phase = "running", NEW reads \in BOOLEAN, NEW saved \in Draws,
         Quit(reads, saved)
  PROVE  HInv'
<1> DEFINE f == Found(reads)
           store == f.engine.settings
<1>1. /\ guard' = [f.guard EXCEPT !.problems = 0]
      /\ phase' = "stopped" /\ own' = Stored(settingsFile') /\ flash' = None /\ told' = FALSE
      /\ UNCHANGED <<tasksFile, waited>>
  BY DEF Quit, Stops
<1>2. /\ IsEngine(f.engine) /\ store \in Stores /\ settingsFile \in Files
      /\ OwnOf(reads) \in Settings /\ Owned(store, settingsFile, OwnOf(reads))
  BY FoundOK DEF IsEngine, HInv, HTypes
<1>3. settingsFile' \in Files /\ IsEngine(engine')
  <2>1. CASE ~Usable(f)
    BY <1>2, <2>1 DEF Quit
  <2>2. CASE Usable(f)
    BY <1>2, <2>2, FlushOwned DEF Quit, IsEngine
  <2> QED BY <2>1, <2>2
<1>4. guard' \in Guards
  BY <1>1, FoundOK DEF Guards
<1> QED BY <1>1, <1>3, <1>4, StoredType DEF HInv, HTypes, NoEarlyFlash, Sound

LEMMA KillKeeps ==
  ASSUME HInv, phase = "running", Kill
  PROVE  HInv'
BY StoredType DEF Kill, Stops, HInv, HTypes, NoEarlyFlash, Sound

LEMMA StartKeeps ==
  ASSUME HInv, phase = "stopped", Start
  PROVE  HInv'
<1>1. /\ phase' = "running" /\ engine' = Opened /\ flash' = None
      /\ waited' = FullWait(Stored(settingsFile))
      /\ guard' = [poisoned |-> FALSE, damaged |-> FALSE, outageOver |-> FALSE, problems |-> 0]
      /\ UNCHANGED <<tasksFile, settingsFile, told, own>>
  BY DEF Start, files
<1>2. /\ tasksFile \in Whole /\ settingsFile \in Files /\ own = Stored(settingsFile) /\ ~told
  BY DEF HInv, HTypes
<1>3. guard' \in Guards
  BY <1>1 DEF Guards
<1> QED BY <1>1, <1>2, <1>3, OpenedOK DEF HInv, HTypes, NoEarlyFlash, Telling

(***************************************************************************)
(* The theorems                                                            *)
(***************************************************************************)
LEMMA InitHolds == Init => HInv
<1> SUFFICES ASSUME Init PROVE HInv
  OBVIOUS
<1>1. tasksFile \in Whole /\ settingsFile \in Files
  BY Ranges DEF Init, Files
<1>2. guard \in Guards
  BY DEF Init, Guards
<1> QED BY <1>1, <1>2, OpenedOK DEF Init, HInv, HTypes, NoEarlyFlash, Telling

LEMMA NextKeeps == HInv /\ [Next]_vars => HInv'
<1> SUFFICES ASSUME HInv, [Next]_vars PROVE HInv'
  OBVIOUS
<1>1. CASE phase = "running" /\ Call
  <2>1. PICK reads \in BOOLEAN :
          \/ Look(reads) \/ Refused(reads) \/ SetSettings(reads) \/ FlashNow(reads)
          \/ \E saved \in Draws : Change(reads, saved)
          \/ ChangePanics(reads)
    BY <1>1 DEF Call
  <2> QED BY <1>1, <2>1, LookKeeps, SetSettingsKeeps, FlashNowKeeps, ChangeKeeps,
             ChangePanicsKeeps
<1>2. CASE phase = "running" /\ Second
  <2>1. PICK reads \in BOOLEAN :
          \/ \E seconds \in {1} \cup Jump, saved \in Draws : Tick(reads, seconds, saved)
          \/ TickPanics(reads)
    BY <1>2 DEF Second
  <2> QED BY <1>2, <2>1, TickSoundKeeps, TickDamagedKeeps, TickPanicsKeeps
<1>3. CASE phase = "running" /\ Leave
  BY <1>3, QuitKeeps, KillKeeps DEF Leave
<1>4. CASE phase = "stopped" /\ Start
  BY <1>4, StartKeeps
<1>5. CASE UNCHANGED vars
  BY <1>5 DEF vars, HInv, HTypes, NoEarlyFlash, Sound, MustRecover
<1> QED BY <1>1, <1>2, <1>3, <1>4, <1>5 DEF Next

LEMMA Invariant == Spec => []HInv
BY InitHolds, NextKeeps, PTL DEF Spec

\* Whatever panics, fails or cannot be read, only whole changes are saved, and an
\* engine that answers holds the queue of its file.
THEOREM SpecOnlyWholeChanges == Spec => []OnlyWholeChanges
<1>1. HInv => OnlyWholeChanges
  BY DEF HInv, HTypes, OnlyWholeChanges, Whole
<1> QED BY <1>1, Invariant, PTL

\* The engine has the settings the user last had accepted, and its file has them
\* or will be written.
THEOREM SpecOwnSettings == Spec => []OwnSettings
<1>1. HInv => OwnSettings
  BY DEF HInv, Owned, OwnSettings
<1> QED BY <1>1, Invariant, PTL

\* What was told of an outage stands for settings that are not in the file.
THEOREM SpecOutageTold == Spec => []OutageTold
<1>1. HInv => OutageTold
  BY DEF HInv, Telling, OutageTold
<1> QED BY <1>1, Invariant, PTL

\* No tick flashes before a full wait, for any interval, hours and clocks.
THEOREM SpecNoEarlyFlash == Spec => []NoEarlyFlash
<1>1. HInv => NoEarlyFlash
  BY DEF HInv
<1> QED BY <1>1, Invariant, PTL
=============================================================================
