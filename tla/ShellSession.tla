---------------------------- MODULE ShellSession ----------------------------
(***************************************************************************)
(* The GNOME service (queue-focus app.rs, dbus.rs, service.rs, main.rs) as *)
(* the connection of the GNOME Shell extension sees it over the session    *)
(* bus: activation, calls held until the service has opened its files,     *)
(* signals and answers, quits, restarts and crashes.  The queue, the       *)
(* settings and the status of sync are seen as how often they changed.     *)
(***************************************************************************)
EXTENDS QueueConnection

CONSTANTS
  MaxHeld,           \* calls a service holds while it starts
  MaxAsks,           \* bound on requests of the shell's user
  MaxChanges,        \* bound on changes of what the service has
  MaxFaults,         \* bound on crashes and failed starts
  MaxQuits,          \* bound on `queue-focus quit`
  MaxStarts          \* bound on starts by hand

ASSUME BoundAssumption ==
  /\ MaxHeld \in Nat /\ MaxAsks \in Nat /\ MaxChanges \in Nat
  /\ MaxFaults \in Nat /\ MaxQuits \in Nat /\ MaxStarts \in Nat
\* An absent value is neither a number nor an error.
ASSUME NoneAssumption == None \notin Nat \cup {"failed", "unavailable"}

FS == INSTANCE FiniteSetsExt
Sq == INSTANCE SequencesExt

VARIABLES
  conn,              \* the connection
  service,           \* [phase, gen, has]: the process, its unique name, what it holds
  calls,             \* from the shell to the bus and the service, in order
  inbound,           \* to the shell: what becomes of the name, signals, answers
  installed,         \* the bus knows how to start the service
  wanted,            \* history: something since the last quit starts it again
  seen,              \* history: the newest queue, status and settings shown
  spent              \* how much of each bound is used up

vars == <<conn, service, calls, inbound, installed, wanted, seen, spent>>

Initially == [queue |-> 0, sync |-> 0, settings |-> 0]
State(has) == [queue |-> has.queue, sync |-> has.sync]
SettingsOf(has) == [settings |-> has.settings]

(***************************************************************************)
(* Messages                                                                *)
(***************************************************************************)
\* What is left of a sequence when only these places are kept.
Only(seq, kept) ==
  LET part[n \in 0..Len(seq)] ==
        IF n = 0 THEN <<>>
        ELSE IF n \in kept THEN Append(part[n - 1], seq[n])
        ELSE part[n - 1]
  IN part[Len(seq)]

\* The answers to calls, of which only those that are waited for matter.
Answers(some, error, value) ==
  LET live == Only(some, {i \in DOMAIN some : some[i].live})
  IN [i \in DOMAIN live |-> [kind |-> "answer", what |-> live[i].what, error |-> error, value |-> value]]
Failures(some, error) == Answers(some, error, None)
Signal(kind, value) == [kind |-> kind, sender |-> service.gen, value |-> value]
Owner(owner) == [kind |-> "owner", sender |-> owner]

\* The connection as a handler leaves it, with `rest` still to come, and its
\* calls on their way.  An answer that nobody waits for any more is dropped, and
\* so is a call that only such an answer would come of; one by name is not, as it
\* starts the service.
Kept(c) ==
  LET marked == [i \in DOMAIN calls |-> [calls[i] EXCEPT !.live = @ /\ Awaits(c, calls[i].what)]]
  IN Only(marked, {i \in DOMAIN marked : marked[i].live \/ marked[i].to = None})
Shell(c, rest) ==
  /\ conn' = [c EXCEPT !.out = <<>>]
  /\ calls' = Kept(c) \o c.out
  /\ inbound' = Only(rest, {i \in DOMAIN rest : rest[i].kind = "answer" => Awaits(c, rest[i].what)})
  /\ seen' = [k \in DOMAIN seen |-> IF c[k] = None THEN seen[k] ELSE FS!Max({seen[k], c[k]})]

Spend(bound, limit) == spent[bound] < limit /\ spent' = [spent EXCEPT ![bound] = @ + 1]

Init ==
  /\ installed \in BOOLEAN
  /\ LET c == Refresh(NewConnection)
     IN conn = [c EXCEPT !.out = <<>>] /\ calls = c.out
  /\ service = [phase |-> "absent", gen |-> 0, has |-> Initially]
  /\ inbound = <<>> /\ wanted = TRUE /\ seen = Initially
  /\ spent = [asks |-> 0, changes |-> 0, faults |-> 0, quits |-> 0, starts |-> 0]

(***************************************************************************)
(* The shell                                                               *)
(***************************************************************************)
Ask ==
  /\ Spend("asks", MaxAsks)
  /\ \E c \in {Request(conn), RefreshAsked(conn)} : Shell(c, inbound)
  /\ wanted' = TRUE
  /\ UNCHANGED <<service, installed>>

Retry ==
  /\ conn.retry
  /\ \E c \in {RetryFires(conn)} : Shell(c, inbound)
  /\ UNCHANGED <<service, installed, wanted, spent>>

\* What the connection makes of one message; a signal of anyone but the owner
\* is nobody's.
Handled(m) ==
  CASE m.kind = "owner" -> OwnerChanged(conn, m.sender)
    [] m.kind = "answer" -> Reply(conn, m)
    [] m.kind = "Stopping" /\ m.sender = conn.owner -> Stopping(conn)
    [] m.kind = "Changed" /\ m.sender = conn.owner -> Changed(conn, m.value)
    [] m.kind = "SyncStatusChanged" /\ m.sender = conn.owner -> SyncStatusChanged(conn, m.value.sync)
    [] m.kind = "SettingsChanged" /\ m.sender = conn.owner -> SettingsChanged(conn, m.value.settings)
    [] OTHER -> conn

\* Messages arrive in order, except that an answer can take a turn of the main
\* loop more than a signal of the service does, and be overtaken by it.
Deliver(i) ==
  /\ i \in DOMAIN inbound
  /\ i > 1 => inbound[i].kind \notin {"answer", "owner"}
  /\ \A j \in 1..(i - 1) : inbound[j].kind = "answer"
  /\ \E c \in {Handled(inbound[i])}, rest \in {Sq!RemoveAt(inbound, i)} : Shell(c, rest)
  /\ UNCHANGED <<service, installed, wanted, spent>>

(***************************************************************************)
(* The service                                                             *)
(***************************************************************************)
Send(messages) == inbound' = inbound \o messages

Runs == service.phase \in {"starting", "ready", "stopping"}
Served(call) == Runs /\ call.to \in {None, service.gen}

\* The process starts and acquires the name, or nothing comes of it.
Starts ==
  /\ service' = [service EXCEPT !.phase = "starting", !.gen = @ + 1]
  /\ Send(<<Owner(service'.gen)>>)

\* Service::request: what it changes is announced - the queue with its status,
\* the settings, the status - before it is answered.
Announced(parts, has) ==
  (IF "queue" \in parts THEN <<Signal("Changed", State(has))>> ELSE <<>>) \o
  (IF "settings" \in parts THEN <<Signal("SettingsChanged", SettingsOf(has))>> ELSE <<>>) \o
  (IF "sync" \in parts THEN <<Signal("SyncStatusChanged", State(has))>> ELSE <<>>)
Changing(parts) ==
  [k \in DOMAIN service.has |-> service.has[k] + (IF k \in parts THEN 1 ELSE 0)]
Parts == {{"queue"}, {"settings"}, {"sync"}}

\* dbus::handle of the call at the head: a reader, a request that changes
\* something, or one that changes nothing or is refused.
Value(what) == IF what = "state" THEN State(service.has) ELSE SettingsOf(service.has)
Handle(call) ==
  \/ /\ call.what # "ask"
     /\ Send(Answers(<<call>>, None, Value(call.what)))
     /\ UNCHANGED <<service, spent>>
  \/ /\ call.what = "ask"
     /\ \/ Send(Answers(<<call>>, None, None))
        \/ Send(Failures(<<call>>, "failed"))
     /\ UNCHANGED <<service, spent>>
  \/ /\ call.what = "ask"
     /\ Spend("changes", MaxChanges)
     /\ \E parts \in Parts :
          LET has == Changing(parts)
          IN /\ service' = [service EXCEPT !.has = has]
             /\ Send(Announced(parts, has) \o Answers(<<call>>, None, None))

\* Calls are taken in order; those that came before the files were opened are
\* held and taken by QfApplication::initialize.
Dispatch ==
  /\ calls # <<>> /\ Served(Head(calls))
  /\ service.phase # "starting"
  /\ Handle(Head(calls))
  /\ calls' = Tail(calls)
  /\ UNCHANGED <<conn, installed, wanted, seen>>

\* QfApplication::dispatch when as many are held as it holds.
Overflow ==
  /\ service.phase = "starting" /\ Len(calls) > MaxHeld
  /\ \A i \in 1..(MaxHeld + 1) : Served(calls[i])
  /\ Send(Failures(<<calls[MaxHeld + 1]>>, "failed"))
  /\ calls' = Sq!RemoveAt(calls, MaxHeld + 1)
  /\ UNCHANGED <<conn, service, installed, wanted, seen, spent>>

\* The window, the command line, the reminder's second and the sync worker.
Change ==
  /\ service.phase \in {"ready", "stopping"}
  /\ Spend("changes", MaxChanges)
  /\ \E parts \in Parts :
       LET has == Changing(parts)
       IN service' = [service EXCEPT !.has = has] /\ Send(Announced(parts, has))
  /\ UNCHANGED <<conn, calls, installed, wanted, seen>>

\* The bus: a call by name starts the service, one to a name that is gone fails.
Activate ==
  /\ calls # <<>> /\ Head(calls).to = None
  /\ service.phase = "absent" /\ installed
  /\ Starts
  /\ UNCHANGED <<conn, calls, installed, wanted, seen, spent>>
Undeliverable ==
  /\ calls # <<>> /\ ~Served(Head(calls))
  /\ \/ /\ Head(calls).to = None /\ ~installed
        /\ Send(Failures(<<Head(calls)>>, "unavailable"))
     \/ /\ Head(calls).to # None
        /\ \/ Send(Failures(<<Head(calls)>>, "unavailable"))
           \/ Send(Failures(<<Head(calls)>>, "failed"))
  /\ calls' = Tail(calls)
  /\ UNCHANGED <<conn, service, installed, wanted, seen, spent>>

Initialize ==
  /\ service.phase = "starting"
  /\ service' = [service EXCEPT !.phase = "ready"]
  /\ UNCHANGED <<conn, calls, inbound, installed, wanted, seen, spent>>

\* The process is gone, and the calls that had reached it fail: `told` of them
\* with an answer of its own, the others by the bus, after the name was lost.
Gone(told) ==
  \E n \in told..Len(calls) :
    /\ \A i \in 1..n : Served(calls[i])
    /\ service' = [service EXCEPT !.phase = "absent"]
    /\ Send(Failures(SubSeq(calls, 1, told), "failed") \o <<Owner(None)>> \o
            Failures(SubSeq(calls, told + 1, n), "failed"))
    /\ calls' = SubSeq(calls, n + 1, Len(calls))

Crash ==
  /\ service.phase \in {"starting", "ready"}
  /\ Spend("faults", MaxFaults)
  /\ Gone(0)
  /\ wanted' = TRUE
  /\ UNCHANGED <<conn, installed, seen>>

\* The files cannot be opened: what is held is told, and the service quits
\* without a word about stopping.
InitializeFails ==
  /\ service.phase = "starting"
  /\ Spend("faults", MaxFaults)
  /\ \E held \in 0..MaxHeld : Gone(held)
  /\ wanted' = TRUE
  /\ UNCHANGED <<conn, installed, seen>>

\* The process dies before it has the name: the bus gives up on who asked.
ActivationFails ==
  /\ calls # <<>> /\ Head(calls).to = None
  /\ service.phase = "absent" /\ installed
  /\ Spend("faults", MaxFaults)
  /\ \E n \in 1..Len(calls) :
       /\ \A i \in 1..n : calls[i].to = None
       /\ Send(Failures(SubSeq(calls, 1, n), "failed"))
       /\ calls' = SubSeq(calls, n + 1, Len(calls))
  /\ UNCHANGED <<conn, service, installed, wanted, seen>>

\* `queue-focus quit` and the first half of `restart`.  The shell has to know
\* whom it has lost, and no call may be under way that starts a service.
Quit ==
  /\ service.phase = "ready"
  /\ Spend("quits", MaxQuits)
  /\ service' = [service EXCEPT !.phase = "stopping"]
  /\ Send(<<Signal("Stopping", None)>>)
  /\ wanted' = (conn.owner # service.gen \/ \E i \in DOMAIN calls : calls[i].to = None)
  /\ UNCHANGED <<conn, calls, installed, seen>>
Release ==
  /\ service.phase = "stopping"
  /\ Gone(0)
  /\ UNCHANGED <<conn, installed, wanted, seen, spent>>

\* ensure_service of a command, and the second half of `restart`.
EnsureService ==
  /\ service.phase = "absent"
  /\ Spend("starts", MaxStarts)
  /\ Starts
  /\ wanted' = TRUE
  /\ UNCHANGED <<conn, calls, installed, seen>>

Next ==
  \/ Ask \/ Retry \/ \E i \in DOMAIN inbound : Deliver(i)
  \/ Activate \/ Undeliverable \/ Overflow \/ Dispatch
  \/ Initialize \/ Change \/ Release
  \/ Crash \/ InitializeFails \/ ActivationFails \/ Quit \/ EnsureService

Spec == Init /\ [][Next]_vars

\* The bus forwards what it is given, the main loops of both processes go on
\* turning and timers fire.  Users and faults owe nothing.
Fairness ==
  /\ WF_vars(Retry)
  /\ WF_vars(Deliver(1))
  /\ WF_vars(Activate) /\ WF_vars(Undeliverable) /\ WF_vars(Dispatch)
  /\ WF_vars(Initialize) /\ WF_vars(Release)
LiveSpec == Spec /\ Fairness

(***************************************************************************)
(* Properties                                                              *)
(***************************************************************************)
\* What the panel shows is never replaced by something older: whichever answers
\* and signals overtake each other and whichever service they come from
\* (connection.js _refresh and the versions it compares).
NeverOlder == \A k \in DOMAIN seen : conn[k] # None => conn[k] = seen[k]

\* After `queue-focus quit` the service stays stopped until the next request
\* (README.md:41), and a restart is left to the command that asked for it.
StaysStopped ==
  [][service.phase = "absent" /\ service'.phase = "starting" => wanted']_vars

\* In the end the panel shows what the service has and every request was
\* answered, or there is no service, the panel says so, and the shell waits
\* because it was told to or because none can be started.
ShownInTheEnd ==
  \/ <>[](/\ service.phase = "ready" /\ conn.owner = service.gen
          /\ conn.queue = service.has.queue /\ conn.sync = service.has.sync
          /\ conn.settings = service.has.settings
          /\ conn.asked = 0)
  \/ <>[](/\ service.phase = "absent" /\ (conn.stopping \/ ~installed)
          /\ conn.queue = None /\ conn.asked = 0)
=============================================================================
