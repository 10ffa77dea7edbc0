---------------------------- MODULE SettingsFile ----------------------------
(***************************************************************************)
(* The settings and the file that catches up with them (qf-core            *)
(* settings.rs, settings_store.rs, store.rs).  A settings store is a       *)
(* record [settings, dirty, reported, backoff]; a file holds settings,     *)
(* None when it does not exist, or Unreadable.  Saving ends in one of       *)
(* three ways: "ok", "before" the commit point (the file keeps what it     *)
(* had) or "after" it (the file has the new settings, the directory may    *)
(* not be durable, and the caller is told of an error).                    *)
(***************************************************************************)
EXTENDS Integers

CONSTANTS
  None,
  Unreadable,        \* a file that cannot be read as settings
  IntervalMin,
  IntervalMax,
  RetryTicks,
  DefaultSettings,
  SettingValues      \* key -> the values a control can ask for

ASSUME RangeAssumption ==
  /\ IntervalMin \in Nat \ {0} /\ IntervalMax \in Nat /\ IntervalMin <= IntervalMax
  /\ RetryTicks \in Nat

Key == {"interval", "vary", "quiet_paused", "quiet_hours"}
Settings == [interval : IntervalMin..IntervalMax, vary : BOOLEAN,
             quiet_paused : BOOLEAN, quiet_hours : BOOLEAN]

ASSUME SettingsAssumption ==
  /\ DefaultSettings \in Settings
  /\ None \notin Settings /\ Unreadable \notin Settings
  /\ DOMAIN SettingValues \subseteq Key
  /\ \A k \in DOMAIN SettingValues :
       SettingValues[k] \subseteq (IF k = "interval" THEN Nat ELSE BOOLEAN)

\* u32::clamp.
Clamped(n) == IF n < IntervalMin THEN IntervalMin
              ELSE IF n > IntervalMax THEN IntervalMax ELSE n
Sanitized(settings) == [settings EXCEPT !.interval = Clamped(@)]

\* The settings of a file: an absent one means the defaults.
Stored(file) == IF file \in {None, Unreadable} THEN DefaultSettings ELSE Sanitized(file)

\* A store as it is loaded.
Loaded(file) ==
  [settings |-> Stored(file), dirty |-> FALSE, reported |-> FALSE, backoff |-> 0]

\* SettingsStore::update with the settings a control asks for.
Updated(store, wanted) ==
  [store EXCEPT !.settings = Sanitized(wanted),
                !.dirty = @ \/ Sanitized(wanted) # store.settings]

\* What a write leaves in the file and in the store, and whether it is reported.
Written(file, store, saved) ==
  IF store.dirty /\ saved # "before" THEN store.settings ELSE file
Flushed(store, saved) ==
  IF ~store.dirty THEN store
  ELSE IF saved = "ok"
  THEN [store EXCEPT !.dirty = FALSE, !.reported = FALSE, !.backoff = 0]
  ELSE [store EXCEPT !.reported = TRUE, !.backoff = RetryTicks]
FlushReports(store, saved) == store.dirty /\ saved # "ok" /\ ~store.reported

\* One second of the writer: it sits out its turns after a failure.
Attempts(store) == store.backoff = 0 /\ store.dirty
\* Fault: a writer that sits out a turn forgets to count it.
FaultTicked(store, saved) ==
  IF store.backoff > 0 THEN store ELSE Flushed(store, saved)
Ticked(store, saved) ==
  IF store.backoff > 0 THEN [store EXCEPT !.backoff = @ - 1] ELSE Flushed(store, saved)
TickWritten(file, store, saved) ==
  IF store.backoff > 0 THEN file ELSE Written(file, store, saved)
TickReports(store, saved) == store.backoff = 0 /\ FlushReports(store, saved)
=============================================================================
