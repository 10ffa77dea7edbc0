-------------------------- MODULE QueueConnection --------------------------
(***************************************************************************)
(* The connection of the GNOME Shell extension to the service              *)
(* (connection.js).  Here it is a record; every handler is an operator     *)
(* from the connection to the connection, and `out` holds the calls that   *)
(* the handler makes, for the caller to send.  The counters of versions    *)
(* and reads of the code only decide whether an answer still counts, so a  *)
(* counter that moves on is seen here as an answer nobody waits for any    *)
(* more: `reads` are the reads whose answer would be taken, and `behind`   *)
(* says that a status was announced since they were sent.                  *)
(***************************************************************************)
EXTENDS Naturals, Sequences

CONSTANT None

NewConnection ==
  [owner |-> None, stopping |-> FALSE, retry |-> FALSE,
   stateReady |-> FALSE, settingsReady |-> FALSE,
   reads |-> {}, behind |-> FALSE,
   asked |-> 0,                                        \* requests not yet answered
   queue |-> None, sync |-> None, settings |-> None,   \* what the panel shows
   out |-> <<>>]

\* A call goes to the owner that is known, and by name when none is.  It is live
\* for as long as its answer is waited for.
Call(what, c) == [what |-> what, to |-> c.owner, live |-> TRUE]

ScheduleRetry(c) == [c EXCEPT !.retry = @ \/ ~c.stopping]

Unread(c) == [c EXCEPT !.stateReady = FALSE, !.settingsReady = FALSE, !.reads = {}]

Idle(c) == [Unread(c) EXCEPT !.retry = FALSE, !.queue = None]

\* Both snapshots are read again.
Refresh(c) ==
  IF c.stopping THEN c
  ELSE [Unread(c) EXCEPT !.retry = FALSE, !.behind = FALSE,
                         !.reads = {"settings", "state"},
                         !.out = <<Call("settings", c), Call("state", c)>>]

\* Fault: one healthy snapshot is taken for two.
FaultRecovered(c) == [c EXCEPT !.retry = FALSE]

\* Both snapshots have to be healthy before the retries end.
Recovered(c) == IF c.stateReady /\ c.settingsReady THEN [c EXCEPT !.retry = FALSE] ELSE c

TakeState(c, state, behind) ==
  Recovered([c EXCEPT !.stateReady = TRUE, !.queue = state.queue,
                      !.sync = IF behind THEN @ ELSE state.sync])
TakeSettings(c, settings) ==
  Recovered([c EXCEPT !.settingsReady = TRUE, !.settings = settings])

(***************************************************************************)
(* Handlers                                                                *)
(***************************************************************************)
OwnerChanged(c, owner) ==
  LET moved == [Unread(c) EXCEPT !.owner = owner, !.sync = None]
      let_go == [moved EXCEPT !.asked = 0, !.queue = None]
      now == IF c.owner = None THEN moved ELSE let_go
  IN IF owner = c.owner THEN c
     ELSE IF owner = None THEN ScheduleRetry(now)
     ELSE Refresh([now EXCEPT !.stopping = FALSE, !.retry = FALSE])

\* Fault: a service that is asked to stop is taken for one that is lost.
FaultStopping(c) == [c EXCEPT !.reads = {}]

Stopping(c) == [c EXCEPT !.stopping = TRUE, !.retry = FALSE, !.reads = {}]

\* Fault: an answer that was overtaken by a change is still taken.
FaultChanged(c, state) == TakeState(c, state, FALSE)

Without(c, read) == [c EXCEPT !.reads = @ \ {read}]
Changed(c, state) == TakeState(Without(c, "state"), state, FALSE)
SyncStatusChanged(c, sync) == [c EXCEPT !.sync = sync, !.behind = TRUE]
SettingsChanged(c, settings) == TakeSettings(Without(c, "settings"), settings)

\* An answer: a value, or an error ("unavailable" when there is no service to
\* be had, else "failed").
SettingsRead(c, answer) ==
  IF answer.error # None THEN ScheduleRetry(Without(c, "settings"))
  ELSE TakeSettings(Without(c, "settings"), answer.value.settings)

StateRead(c, answer) ==
  LET read == Without(c, "state")
  IN IF answer.error = None THEN TakeState(read, answer.value, c.behind)
     ELSE IF answer.error = "unavailable" THEN Idle(read)
     ELSE ScheduleRetry([read EXCEPT !.queue = None])

\* An action is never repeated: it may have been done.  The reads tell.
Answered(c, answer) ==
  LET done == [c EXCEPT !.asked = @ - 1]
  IN IF c.stopping THEN done
     ELSE IF answer.error = "unavailable" THEN Idle(done)
     ELSE Refresh(done)

Reply(c, answer) ==
  CASE answer.what = "settings" -> SettingsRead(c, answer)
    [] answer.what = "state" -> StateRead(c, answer)
    [] answer.what = "ask" -> Answered(c, answer)

\* The user: a request, or the button that starts the service.
Request(c) ==
  [c EXCEPT !.stopping = FALSE, !.retry = FALSE, !.asked = @ + 1, !.out = <<Call("ask", c)>>]
RefreshAsked(c) == Refresh([c EXCEPT !.stopping = FALSE, !.retry = FALSE])

RetryFires(c) == Refresh([c EXCEPT !.retry = FALSE])

\* Is the answer of a call sent before still waited for, now that c.out is sent?
Awaits(c, what) ==
  IF what = "ask" THEN c.asked > 0
  ELSE what \in c.reads /\ \A i \in DOMAIN c.out : c.out[i].what # what
=============================================================================
