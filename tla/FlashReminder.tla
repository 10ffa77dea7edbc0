---------------------------- MODULE FlashReminder ---------------------------
(***************************************************************************)
(* The schedule of the flash (qf-core reminder.rs, and settings.rs for      *)
(* what holds it back and which style it has).  A reminder is a record     *)
(* [wait, last]: `wait` is its `due` less the clock, so that time passing   *)
(* takes it down and setting the clock back takes it up.                   *)
(***************************************************************************)
EXTENDS Integers, Sequences, SettingsFile

CONSTANTS
  Style,             \* the styles of a flash, as a sequence without repetitions
  Fixed,             \* the one used when the flash is not varied
  Day,               \* instants of local time in a day
  QuietFrom, QuietTo

LOCAL Fn == INSTANCE Functions
ASSUME StyleAssumption ==
  /\ Fn!IsInjective(Style) /\ Len(Style) >= 2 /\ \E i \in DOMAIN Style : Style[i] = Fixed
  /\ None \notin Fn!Range(Style)
ASSUME DayAssumption ==
  /\ Day \in Nat \ {0} /\ QuietFrom \in 0..(Day - 1) /\ QuietTo \in 0..(Day - 1)

\* The chosen hours, which may wrap past midnight; equal ends are the whole day.
WithinWindow(time, from, to) ==
  \/ from = to
  \/ from < to /\ from <= time /\ time < to
  \/ from > to /\ (from <= time \/ time < to)

\* Why the next flash is held back.  `current` is None, "running" or "paused".
Hold(settings, current, time) ==
  IF current = None THEN "NoCurrentTask"
  ELSE IF settings.quiet_paused /\ current = "paused" THEN "Paused"
  ELSE IF settings.quiet_hours /\ ~WithinWindow(time, QuietFrom, QuietTo) THEN "OutsideHours"
  ELSE "None"
Held(settings, current, time) == Hold(settings, current, time) # "None"

\* Never the style of the flash before while the flash is varied.
PickStyle(vary, last, random) ==
  LET pool == SelectSeq(Style, LAMBDA s : s # last)
  IN IF ~vary THEN Fixed ELSE pool[(random % Len(pool)) + 1]

NewReminder(settings) == [wait |-> settings.interval, last |-> None]

\* The clock moves by some seconds, backwards when it is set.
Elapsed(reminder, seconds) == [reminder EXCEPT !.wait = @ - seconds]

\* Reminder::fire: a flash, and a full wait for the next.
Fired(reminder, settings, random) ==
  [wait |-> settings.interval, last |-> PickStyle(settings.vary, reminder.last, random)]

\* A shorter interval or a clock set back strands no flash beyond a full wait.
Due(reminder, settings) ==
  IF reminder.wait < settings.interval THEN reminder.wait ELSE settings.interval

Fires(reminder, settings, current, time) ==
  ~Held(settings, current, time) /\ Due(reminder, settings) <= 0

\* Fault: a wait that is held back is not started over.
FaultReminderTick(reminder, settings, current, time, random) ==
  IF Held(settings, current, time) THEN reminder
  ELSE IF Due(reminder, settings) <= 0 THEN Fired(reminder, settings, random)
  ELSE [reminder EXCEPT !.wait = Due(reminder, settings)]

\* Fault: every second that is not held back starts the wait over too.
FaultRestart(reminder, settings, current, time, random) ==
  IF Fires(reminder, settings, current, time) THEN Fired(reminder, settings, random)
  ELSE [reminder EXCEPT !.wait = settings.interval]

\* One second of the reminder.
ReminderTick(reminder, settings, current, time, random) ==
  IF Held(settings, current, time) THEN [reminder EXCEPT !.wait = settings.interval]
  ELSE IF Due(reminder, settings) <= 0 THEN Fired(reminder, settings, random)
  ELSE [reminder EXCEPT !.wait = Due(reminder, settings)]
=============================================================================
