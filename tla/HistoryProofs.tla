---------------------------- MODULE HistoryProofs ----------------------------
(***************************************************************************)
(* The server under every load of its devices.  First what one state of    *)
(* its database tells: it stays good, what it answered is final, and the   *)
(* timer of Now stays sound.  Then what the history of accepted commands   *)
(* tells of the queue: tokens are given once and bind what they were given *)
(* for, a task that left comes back by an undo only, a focus command acted *)
(* on the queue its device saw, an undo is exact, and a repeated request   *)
(* is answered.                                                            *)
(***************************************************************************)
EXTENDS ServerWorkload, ServerProofs

(***************************************************************************)
(* The inductive invariant and the steps                                   *)
(***************************************************************************)
Sane == TypeOK /\ Stored

\* What a device composes from a snapshot is a command.
LEMMA Composed ==
  ASSUME NEW snap, IsSnapshot(snap), NEW a \in Actions(snap), lastTime \in Nat,
         NEW g \in Guards(snap, a), NEW id \in CommandId
  PROVE  [id |-> id, generation |-> snap.generation, guard |-> g, action |-> a] \in Command
<1>1. snap.generation \in Generation
  BY DEF IsSnapshot, IsBody
<1>2. Setup \in Seeding
  BY WorkloadConstants DEF Setup, Seeding
<1>3. CASE a \in FocusActions(snap)
  <2>1. PICK time \in 0..lastTime : g = ObservedGuard(snap, time)
    BY <1>3 DEF Guards
  <2>2. g \in Guard /\ a \in Focused
    BY <1>3, <2>1, GuardTyped, IntentsTyped
  <2> QED BY <1>1, <2>2 DEF Command
<1>4. CASE a \notin FocusActions(snap)
  <2>1. a \in Queued \cup Seeding /\ g = None
    BY <1>2, <1>4, IntentsTyped DEF Actions, Guards
  <2> QED BY <1>1, <2>1 DEF Command
<1> QED BY <1>3, <1>4

LEMMA InitSane == Init => Sane
<1> SUFFICES ASSUME Init PROVE Sane
  OBVIOUS
<1>1. Stored
  BY InitStored DEF Init
<1>2. observed = {} /\ sent = {} /\ restores = 0
  BY DEF Init
<1> QED BY <1>1, <1>2 DEF Sane, Stored, TypeOK

\* Serving a request is sound and lets nobody observe anything else.
LEMMA ServeSane ==
  ASSUME Sane, NEW request, request.command \in Command \cup {None},
         request.device \in Device, NEW now \in Nat, Serve(request, now)
  PROVE  Sane' /\ Final
<1>1. Stored' /\ Final /\ UNCHANGED <<minted, roots, artifact>>
  BY ExchangeKeeps DEF Sane, Serve
<1>2. /\ observed' = observed \cup {state'.snapshot}
      /\ sent' = IF request.command = None THEN sent ELSE sent \cup {request}
      /\ restores' = restores
  BY DEF Serve
<1>3. IsSnapshot(state'.snapshot)
  BY <1>1 DEF Stored, Good, Sound, IsState
<1>4. TypeOK'
  BY <1>1, <1>2, <1>3 DEF Sane, Stored, TypeOK
<1> QED BY <1>1, <1>4 DEF Sane

\* A command is sent with the checkpoint of a snapshot its device saw, to which a
\* focus command is bound, and is only ever repeated as it was.
Asks(request, snap) ==
  /\ request.checkpoint = Checkpoint(snap)
  /\ IsFocus(request.command) => request.command.guard.revision = snap.revision
Sendable(request) ==
  request.command # None =>
    \/ \E snap \in observed : Asks(request, snap)
    \/ \E r \in sent : r.command = request.command /\ r.checkpoint = request.checkpoint

\* Whatever a device does is one request that is served, of one of the kinds
\* of command there are.
LEMMA NextKinds ==
  ASSUME Sane, [Next]_vars
  PROVE  \/ \E request : \E now \in Nat :
              /\ request.command \in Command \cup {None} /\ request.device \in Device
              /\ Sendable(request) /\ Serve(request, now)
         \/ Administer \/ Restore \/ UNCHANGED vars
<1> DEFINE Served == \E request : \E now \in Nat :
              /\ request.command \in Command \cup {None} /\ request.device \in Device
              /\ Sendable(request) /\ Serve(request, now)
<1>0. /\ TypeOK /\ IsDatabase(database) /\ DOMAIN enrolled \subseteq Device
      /\ lastTime \in Nat /\ minted \in Nat /\ restores \in Nat
      /\ roots \subseteq Generation
      /\ enrolled \in [DOMAIN enrolled -> [token : Nat, revoked : BOOLEAN]]
      /\ \A s \in observed : IsSnapshot(s)
      /\ \A r \in sent : r.device \in Device /\ r.command \in Command
  BY DEF Sane, TypeOK, IsDatabase, database, Partial
<1>1. ASSUME NEW now \in 0..MaxTime, NEW d \in DOMAIN enrolled, Discover(d, now) \/ Poll(d, now)
      PROVE  Served
  <2>1. PICK checkpoint : Serve([token |-> enrolled[d].token, device |-> d,
                                 checkpoint |-> checkpoint, command |-> None], now)
    BY <1>1 DEF Discover, Poll, Request
  <2> DEFINE q == [token |-> enrolled[d].token, device |-> d,
                   checkpoint |-> checkpoint, command |-> None]
  <2>2. q.command = None /\ q.device = d
    OBVIOUS
  <2> HIDE DEF q
  <2>3. Serve(q, now) /\ d \in Device /\ now \in Nat
    BY <1>0, <2>1, WorkloadConstants DEF q
  <2> QED BY <2>2, <2>3 DEF Sendable
<1>2. ASSUME NEW now \in 0..MaxTime, NEW d \in DOMAIN enrolled, Submit(d, now)
      PROVE  Served
  <2> DEFINE id == FreshIn(CommandId, CommandsSent)
  <2>1. /\ CommandsSent # CommandId
        /\ \E snap \in observed : \E a \in Actions(snap) : \E g \in Guards(snap, a) :
             Serve(Request(d, snap, [id |-> id, generation |-> snap.generation,
                                     guard |-> g, action |-> a]), now)
    BY <1>2 DEF Submit
  <2>2. id \in CommandId
    <3>1. CommandsSent \subseteq CommandId
      BY <1>0, CommandKinds DEF CommandsSent
    <3> QED BY <2>1, <3>1, Drawing
  <2> HIDE DEF id
  <2>3. PICK snap \in observed : \E a \in Actions(snap) : \E g \in Guards(snap, a) :
             Serve(Request(d, snap, [id |-> id, generation |-> snap.generation,
                                     guard |-> g, action |-> a]), now)
    BY <2>1
  <2>4. PICK a \in Actions(snap) : \E g \in Guards(snap, a) :
             Serve(Request(d, snap, [id |-> id, generation |-> snap.generation,
                                     guard |-> g, action |-> a]), now)
    BY <2>3
  <2>5. PICK g \in Guards(snap, a) :
             Serve(Request(d, snap, [id |-> id, generation |-> snap.generation,
                                     guard |-> g, action |-> a]), now)
    BY <2>4
  <2> DEFINE c == [id |-> id, generation |-> snap.generation, guard |-> g, action |-> a]
  <2>6. c \in Command
    BY <1>0, <2>2, Composed
  <2> HIDE DEF c
  <2>7. Serve(Request(d, snap, c), now)
    BY <2>5 DEF c
  <2>8. /\ Request(d, snap, c).command = c /\ Request(d, snap, c).device = d
        /\ Request(d, snap, c).checkpoint = Checkpoint(snap)
        /\ d \in Device /\ now \in Nat
    BY <1>0, WorkloadConstants DEF Request
  <2>9. IsFocus(c) => c.guard.revision = snap.revision
    BY DEF Guards, ObservedGuard, IsFocus, c
  <2> QED BY <2>6, <2>7, <2>8, <2>9 DEF Sendable, Asks
<1>3. ASSUME NEW now \in 0..MaxTime, Redeliver(now)
      PROVE  Served
  <2>1. PICK r \in sent : Serve([r EXCEPT !.token = enrolled[r.device].token], now)
    BY <1>3 DEF Redeliver
  <2> DEFINE q == [r EXCEPT !.token = enrolled[r.device].token]
  <2>2. q.command = r.command /\ q.device = r.device /\ q.checkpoint = r.checkpoint
    OBVIOUS
  <2> HIDE DEF q
  <2>3. Serve(q, now) /\ now \in Nat
    BY <2>1, WorkloadConstants DEF q
  <2> QED BY <1>0, <2>2, <2>3 DEF Sendable
<1> QED BY <1>1, <1>2, <1>3 DEF Next
LEMMA NextSane ==
  ASSUME Sane, [Next]_vars
  PROVE  Sane' /\ (restores' = restores => Final)
<1>0. Stored /\ TypeOK /\ restores \in Nat
  BY DEF Sane, TypeOK
<1>1. ASSUME NEW request, NEW now \in Nat, request.command \in Command \cup {None},
             request.device \in Device, Serve(request, now)
      PROVE  Sane' /\ Final
  BY <1>1, ServeSane
<1>2. ASSUME Stored', UNCHANGED <<observed, sent>>, restores' \in Nat
      PROVE  Sane'
  BY <1>0, <1>2 DEF Sane, Stored, TypeOK
<1>3. CASE Administer
  <2>1. UNCHANGED <<observed, sent, restores>>
    BY <1>3 DEF Administer
  <2>2. (\E d \in Device : Issue(d) \/ Revoke(d)) \/ Backup
    BY <1>3 DEF Administer, Enroll, Rotate
  <2>3. Stored' /\ UNCHANGED <<server, roots>>
    BY <1>0, <2>2, OperatorKeeps
  <2> QED BY <1>0, <1>2, <2>1, <2>3 DEF server, Final
<1>4. CASE Restore
  <2>1. UNCHANGED <<observed, sent>> /\ restores' = restores + 1
    BY <1>4 DEF Restore
  <2>2. Stored'
    BY <1>0, <1>4, RestoreKeeps DEF Restore
  <2> QED BY <1>0, <1>2, <2>1, <2>2
<1>5. CASE UNCHANGED vars
  <2>1. UNCHANGED <<state, history, receipts, lastTime, enrolled, minted, roots, artifact,
                    observed, sent, restores>>
    BY <1>5 DEF vars, serverVars, server
  <2>2. database' = database
    BY <2>1 DEF database
  <2>3. Stored'
    BY <1>0, <2>1, <2>2 DEF Stored
  <2> QED BY <1>0, <1>2, <2>1, <2>3 DEF Final
<1> QED BY <1>1, <1>3, <1>4, <1>5, NextKinds

(***************************************************************************)
(* What the server keeps                                                   *)
(***************************************************************************)
LEMMA SpecSane == Spec => []Sane
BY InitSane, NextSane, PTL DEF Spec

\* Every row, backup and message has its type.
THEOREM SpecTypeOK == Spec => []TypeOK
<1>1. Sane => TypeOK
  BY DEF Sane
<1> QED BY <1>1, SpecSane, PTL

\* No accepted command and no restore produces a state the code's validation
\* refuses: apply never fails after it has decided, open never refuses a database.
THEOREM SpecDatasetValid == Spec => []DatasetValid
<1>1. Sane => DatasetValid
  BY DEF Sane, Stored, Good, Sound, DatasetValid
<1> QED BY <1>1, SpecSane, PTL

\* Every retained revision is an ancestor of the snapshot being served.
THEOREM SpecHistoryIsAncestry == Spec => []HistoryIsAncestry
<1>1. Sane => HistoryIsAncestry
  <2> SUFFICES ASSUME Sane PROVE HistoryIsAncestry
    OBVIOUS
  <2>1. Ancestry(state, history)
    BY DEF Sane, Stored, Good
  <2> QED BY <2>1 DEF Ancestry, HistoryIsAncestry, chain, Snap
<1> QED BY <1>1, SpecSane, PTL

\* A command has one effect, at the revision its receipt names.
THEOREM SpecExactlyOneEffect == Spec => []ExactlyOneEffect
<1>1. Sane => ExactlyOneEffect
  BY DEF Sane, Stored, Good, OneEffect, ExactlyOneEffect, chain, Snap
<1> QED BY <1>1, SpecSane, PTL

\* Outside a restore an outcome once answered is answered for good.
THEOREM SpecOutcomesFinal == Spec => OutcomesFinal
<1>1. Sane /\ [Next]_vars =>
        [restores' = restores =>
           \A c \in DOMAIN receipts : c \in DOMAIN receipts' /\ receipts'[c] = receipts[c]]_vars
  BY NextSane DEF Final
<1> QED BY <1>1, SpecSane, PTL DEF Spec, OutcomesFinal

(***************************************************************************)
(* The timer of the focus session                                          *)
(***************************************************************************)
Timers ==
  /\ Sane
  /\ Timed(state, receipts, roots, lastTime)
  /\ artifact # None => Timed(artifact.state, artifact.receipts, roots, artifact.lastTime)

LEMMA InitTimers == Init => Timers
<1> SUFFICES ASSUME Init PROVE Timers
  OBVIOUS
<1>1. Sane
  BY InitSane
<1>2. artifact = None /\ \E g : state = NewState(g)
  BY DEF Init, ServerInit
<1> QED BY <1>1, <1>2, NewTimed DEF Timers

\* Serving a request: the receipt is new whenever something is executed.
LEMMA ServeTimers ==
  ASSUME Timers, NEW request, request.command \in Command \cup {None},
         request.device \in Device, NEW sampled \in Nat, Serve(request, sampled)
  PROVE  /\ Timers'
         /\ Continuous(SessionOf(state), SessionOf(state'), lastTime, lastTime')
<1>1. Sane' /\ Stored /\ Exchange(request, sampled) /\ UNCHANGED <<roots, artifact>>
  BY ServeSane DEF Timers, Sane, Serve, Exchange
<1>2. /\ Timed(state', receipts', roots, lastTime')
      /\ Continuous(SessionOf(state), SessionOf(state'), lastTime, lastTime')
  BY <1>1, ExchangeTimed DEF Timers
<1> QED BY <1>1, <1>2 DEF Timers

LEMMA NextTimers ==
  ASSUME Timers, [Next]_vars
  PROVE  /\ Timers'
         /\ restores' = restores =>
              Continuous(SessionOf(state), SessionOf(state'), lastTime, lastTime')
<1> DEFINE Running == Continuous(SessionOf(state), SessionOf(state'), lastTime, lastTime')
<1>1. Sane' /\ Sane
  BY NextSane DEF Timers
<1>2. /\ Timed(state, receipts, roots, lastTime)
      /\ artifact # None => Timed(artifact.state, artifact.receipts, roots, artifact.lastTime)
  BY DEF Timers
<1>3. ASSUME UNCHANGED <<server, roots>>, artifact' = artifact \/ artifact' = database
      PROVE  Timers' /\ Running
  <2>1. /\ UNCHANGED <<state, receipts, lastTime, roots>>
        /\ database.state = state /\ database.receipts = receipts
        /\ database.lastTime = lastTime
    BY <1>3 DEF server, database
  <2> QED BY <1>1, <1>2, <1>3, <2>1 DEF Timers, Continuous
<1>4. ASSUME NEW request, NEW now \in Nat, request.command \in Command \cup {None},
             request.device \in Device, Serve(request, now)
      PROVE  Timers' /\ Running
  BY <1>4, ServeTimers
<1>5. ASSUME Administer
      PROVE  Timers' /\ Running
  BY <1>3, <1>5 DEF Administer, Enroll, Rotate, Issue, Revoke, Backup
<1>6. ASSUME Restore
      PROVE  Timers' /\ restores' # restores
  <2>1. restores' # restores
    BY <1>1, <1>6 DEF Restore, Sane, TypeOK
  <2>2. /\ artifact # None /\ artifact' = artifact
        /\ receipts' = artifact.receipts /\ lastTime' = artifact.lastTime
        /\ Sound(artifact.state)
    BY <1>1, <1>6 DEF Restore, RawRestore, RestoreGeneration, Sane, Stored, Good
  <2>3. CASE RawRestore
    BY <1>1, <1>2, <2>1, <2>2, <2>3 DEF RawRestore, Timers
  <2>4. CASE RestoreGeneration
    <3> DEFINE g == FreshIn(Generation, roots)
    <3>1. roots' = roots \cup {g} /\ state' = ResetGeneration(artifact.state, g)
      BY <2>4 DEF RestoreGeneration
    <3> HIDE DEF g
    <3>2. Timed(state', receipts', roots', lastTime')
      BY <1>2, <2>2, <3>1, ResetTimed
    <3>3. Timed(artifact.state, artifact.receipts, roots', artifact.lastTime)
      BY <1>2, <2>2, <3>1 DEF Timed
    <3> QED BY <1>1, <2>1, <2>2, <3>2, <3>3 DEF Timers
  <2> QED BY <1>6, <2>3, <2>4 DEF Restore
<1>7. ASSUME UNCHANGED vars
      PROVE  Timers' /\ Running
  BY <1>3, <1>7 DEF vars, serverVars
<1> QED BY <1>1, <1>4, <1>5, <1>6, <1>7, NextKinds

LEMMA SpecTimers == Spec => []Timers
BY InitTimers, NextTimers, PTL DEF Spec

\* The anchor of the session's timer is never ahead of the persisted clock, whatever
\* the host's clock does: the elapsed time a client computes is never negative.
THEOREM SpecAnchorNotAhead == Spec => []AnchorNotAhead
<1>1. Timers => AnchorNotAhead
  BY DEF Timers, Timed, Dated, SessionOf, AnchorNotAhead
<1> QED BY <1>1, SpecTimers, PTL

\* Outside a restore no step makes the elapsed time of a session jump: only the
\* passing of time while it runs changes it.
THEOREM SpecTimerContinuous == Spec => TimerContinuous
<1>1. Timers /\ [Next]_vars =>
        [LET old == state.snapshot.focus.session
             new == state'.snapshot.focus.session
         IN old # None /\ new # None /\ restores' = restores =>
              (old.id = new.id => ElapsedAt(new, lastTime') = ElapsedAt(old, lastTime'))]_vars
  BY NextTimers DEF Continuous, SessionOf
<1> QED BY <1>1, SpecTimers, PTL DEF Spec, TimerContinuous

(***************************************************************************)
(* What a command does to the tokens                                       *)
(***************************************************************************)
Fields == {"title", "tag", "placement"}

\* The parts of a snapshot that a device acts on.
SameQueue(s, q) == s.order = q.order /\ s.task = q.task /\ s.focus = q.focus

\* Every field of q has a token of `by`, or the token and the content it had in s.
TasksTouched(s, q, by) ==
  \A t \in Live(q) : \A f \in Fields :
    \/ q.task[t].versions[f] = by
    \/ /\ t \in Live(s)
       /\ q.task[t].versions[f] = s.task[t].versions[f]
       /\ Content(q, t, f) = Content(s, t, f)
FocusTouched(s, q, by) ==
  /\ q.focus.version \in {by, s.focus.version}
  /\ q.focus.session # None =>
       \/ q.focus.session.id = by
       \/ /\ s.focus.session # None
          /\ q.focus.session.id = s.focus.session.id
          /\ q.focus.session.task = s.focus.session.task
Touched(s, q, by) == TasksTouched(s, q, by) /\ FocusTouched(s, q, by)

LEMMA TouchedTwice ==
  ASSUME NEW s, NEW q, NEW r, NEW by, TasksTouched(s, q, by), TasksTouched(q, r, by)
  PROVE  TasksTouched(s, r, by)
<1> SUFFICES ASSUME NEW t \in Live(r), NEW f \in Fields, r.task[t].versions[f] # by
             PROVE  /\ t \in Live(s)
                    /\ r.task[t].versions[f] = s.task[t].versions[f]
                    /\ Content(r, t, f) = Content(s, t, f)
  BY DEF TasksTouched
<1>1. /\ t \in Live(q) /\ r.task[t].versions[f] = q.task[t].versions[f]
      /\ Content(r, t, f) = Content(q, t, f)
  BY DEF TasksTouched
<1> QED BY <1>1 DEF TasksTouched

\* Tasks whose records are the old ones.
LEMMA SameRecords ==
  ASSUME NEW s, NEW q, Live(q) \subseteq Live(s), \A u \in Live(q) : q.task[u] = s.task[u],
         NEW by
  PROVE  TasksTouched(s, q, by)
BY DEF TasksTouched, Content

\* A new place: its token is the command's, the others are as they were.
LEMMA PlaceTouched ==
  ASSUME NEW s, Listed(s), NEW t \in Live(s), NEW bucket, NEW before, NEW command
  PROVE  LET d == Place(s, t, bucket, before, command)
         IN /\ TasksTouched(s, d, command) /\ Live(d) = Live(s)
            /\ \A u \in Live(s) : d.task[u].title = s.task[u].title /\ d.task[u].tag = s.task[u].tag
<1> DEFINE d == Place(s, t, bucket, before, command)
           task == [s.task EXCEPT ![t].bucket = bucket, ![t].versions.placement = command]
<1>1. s.task \in [Live(s) -> TaskRecord]
  BY DEF Listed, IsBody, Partial, Live
<1>2. d.task = task
  <2>1. Shape(s)
    BY DEF Shape, Listed, IsBody
  <2> QED BY <2>1 DEF Place, Shape
<1>3. /\ DOMAIN task = Live(s) /\ \A u \in Live(s) \ {t} : task[u] = s.task[u]
      /\ task[t].title = s.task[t].title /\ task[t].tag = s.task[t].tag
      /\ task[t].versions["title"] = s.task[t].versions["title"]
      /\ task[t].versions["tag"] = s.task[t].versions["tag"]
      /\ task[t].versions["placement"] = command
  BY <1>1 DEF TaskRecord
<1> HIDE DEF d, task
<1>4. Live(d) = Live(s)
  BY <1>2, <1>3 DEF Live
<1>5. TasksTouched(s, d, command)
  BY <1>2, <1>3, <1>4 DEF TasksTouched, Fields, Content
<1> QED BY <1>2, <1>3, <1>4, <1>5 DEF d

LEMMA PromoteTouched ==
  ASSUME NEW s, Listed(s), FocusIsNow(s), NEW t \in Live(s),
         NEW command \in Token, NEW now \in Nat
  PROVE  LET p == Promote(s, t, command, now)
         IN /\ TasksTouched(s, p, command)
            /\ \A u \in Live(s) : p.task[u].title = s.task[u].title /\ p.task[u].tag = s.task[u].tag
<1> DEFINE p == Promote(s, t, command, now)
           freed == IF Current(s) = None THEN s
                    ELSE Place(s, Current(s), "next", Head1(s, "next", t), command)
           placed == Place(freed, t, "now", None, command)
<1> "next" \in Bucket /\ "now" \in Bucket
  BY ProtocolConstants DEF Bucket
<1>1. CASE SessionTask(s) = t
  BY <1>1, SameRecords DEF Promote
<1>2. CASE SessionTask(s) # t
  <2>1. /\ Listed(freed) /\ Live(freed) = Live(s) /\ TasksTouched(s, freed, command)
        /\ \A u \in Live(s) : freed.task[u].title = s.task[u].title /\ freed.task[u].tag = s.task[u].tag
    <3>1. CASE Current(s) = None
      BY <3>1, SameRecords
    <3>2. CASE Current(s) # None
      <4>1. Current(s) \in Live(s) /\ s.task[Current(s)].bucket = "now"
        BY <3>2, CurrentIsSessionTask
      <4>2. Head1(s, "next", t) \in (Live(s) \ {Current(s)}) \cup {None}
        BY <4>1, Head1Facts, ProtocolConstants
      <4> DEFINE f == Place(s, Current(s), "next", Head1(s, "next", t), command)
      <4>3. Listed(f)
        BY <4>1, <4>2, PlaceFacts
      <4>4. /\ TasksTouched(s, f, command) /\ Live(f) = Live(s)
            /\ \A u \in Live(s) : f.task[u].title = s.task[u].title /\ f.task[u].tag = s.task[u].tag
        BY <4>1, PlaceTouched
      <4> HIDE DEF f
      <4>5. freed = f
        BY <3>2 DEF f
      <4> QED BY <4>3, <4>4, <4>5
    <3> QED BY <3>1, <3>2
  <2> HIDE DEF freed
  <2>2. Listed(placed)
    BY <2>1, PlaceFacts
  <2>3. /\ TasksTouched(freed, placed, command)
        /\ \A u \in Live(s) : placed.task[u].title = s.task[u].title /\ placed.task[u].tag = s.task[u].tag
    BY <2>1, PlaceTouched
  <2>4. p = [placed EXCEPT !.focus.session = NewSession(command, t, now)]
    BY <1>2 DEF Promote, NewSession, placed, freed
  <2> HIDE DEF placed, p
  <2>5. p.task = placed.task
    BY <2>2, <2>4 DEF Listed, IsBody
  <2>6. TasksTouched(placed, p, command)
    BY <2>5, SameRecords DEF Live
  <2> QED BY <2>1, <2>3, <2>5, <2>6, TouchedTwice DEF p
<1> QED BY <1>1, <1>2

\* Nothing enters the queue that was ever in it.
Grown(st, r) ==
  /\ st.used \subseteq r.used
  /\ (Live(r.snapshot) \ Live(st.snapshot)) \cap st.used = {}

LEMMA CreateTouched ==
  ASSUME NEW st, Clean(st), NEW t \in TaskId, CreateRefusal(st, t) = None,
         NEW command, NEW title, NEW tag, NEW bucket, NEW created
  PROVE  LET r == CreateTask(st, command, t, title, tag, bucket, created)
         IN /\ TasksTouched(st.snapshot, r.snapshot, command) /\ Grown(st, r)
            /\ Live(st.snapshot) \subseteq Live(r.snapshot)
            /\ r.snapshot.focus = st.snapshot.focus
            /\ r.used = st.used \cup {t}
<1> DEFINE s == st.snapshot
           r == CreateTask(st, command, t, title, tag, bucket, created)
           q == r.snapshot
           record == [title |-> title, tag |-> tag, bucket |-> bucket, created |-> created,
                      versions |-> Versions(command)]
<1>1. StateShape(st) /\ Shape(s)
  BY DEF Clean, Base, Listed, IsBody, Shape
<1>2. /\ r.used = st.used \cup {t} /\ q.focus = s.focus
      /\ q.task = [u \in Live(s) \cup {t} |-> IF u = t THEN record ELSE s.task[u]]
  BY <1>1 DEF CreateTask, StateShape, Shape, Live
<1>3. t \notin st.used
  BY DistinctValues DEF CreateRefusal, Require, ??, Reason
<1>4. t \notin Live(s)
  BY <1>3 DEF Clean, Base
<1>5. /\ \A f \in Fields : record.versions[f] = command
      /\ Live(q) = Live(s) \cup {t} /\ q.task[t] = record
      /\ \A u \in Live(s) : q.task[u] = s.task[u]
  BY <1>2, <1>4 DEF Live, Versions, Fields
<1> HIDE DEF r, record
<1>6. TasksTouched(s, q, command)
  BY <1>5 DEF TasksTouched, Content
<1> QED BY <1>2, <1>3, <1>5, <1>6 DEF Grown, r

\* New contents of one live task.
Rewrites(record, old, by) ==
  \A f \in Fields :
    \/ record.versions[f] = by
    \/ /\ record.versions[f] = old.versions[f]
       /\ f = "title" => record.title = old.title
       /\ f = "tag" => record.tag = old.tag
       /\ f = "placement" => record.bucket = old.bucket

LEMMA RewriteTouched ==
  ASSUME NEW st, Clean(st), NEW t \in Live(st.snapshot), NEW record, NEW command,
         Rewrites(record, st.snapshot.task[t], command)
  PROVE  LET r == [st EXCEPT !.snapshot.task[t] = record]
         IN /\ TasksTouched(st.snapshot, r.snapshot, command) /\ r.used = st.used
            /\ Live(r.snapshot) = Live(st.snapshot)
            /\ r.snapshot.focus = st.snapshot.focus
<1> DEFINE s == st.snapshot
           r == [st EXCEPT !.snapshot.task[t] = record]
           q == r.snapshot
<1>1. StateShape(st) /\ Shape(s) /\ s.task \in [Live(s) -> TaskRecord]
  BY DEF Clean, Base, Listed, IsBody, Shape, Partial, Live
<1>2. r.used = st.used /\ q.focus = s.focus /\ q.task = [s.task EXCEPT ![t] = record]
  BY <1>1 DEF StateShape, Shape
<1>3. /\ Live(q) = Live(s) /\ q.task[t] = record
      /\ \A u \in Live(s) \ {t} : q.task[u] = s.task[u]
  BY <1>1, <1>2 DEF Live
<1> HIDE DEF r
<1>4. TasksTouched(s, q, command)
  BY <1>3 DEF TasksTouched, Content, Fields, Rewrites
<1> QED BY <1>2, <1>3, <1>4 DEF r

LEMMA QueuedTouched ==
  ASSUME NEW st, Clean(st), NEW a \in Queued, QueuedRefusal(st, a) = None,
         NEW command \in Token, NEW now \in Nat
  PROVE  LET r == QueuedEffect(st, command, a, now)
         IN Touched(st.snapshot, r.snapshot, command) /\ Grown(st, r)
<1> DEFINE r == QueuedEffect(st, command, a, now)
           s == st.snapshot
           Same == /\ TasksTouched(s, r.snapshot, command) /\ Grown(st, r)
                   /\ r.snapshot.focus = s.focus
<1> USE DistinctValues DEF Reason
<1>1. StateShape(st) /\ Shape(s) /\ Listed(s) /\ s.task \in [Live(s) -> TaskRecord]
  BY DEF Clean, Base, Listed, IsBody, Shape, Partial, Live
<1>2. CASE a.op = "Create"
  <2>1. CreateRefusal(st, a.task) = None /\ a.task \in TaskId
    BY <1>2 DEF QueuedRefusal, Queued, Require, ??
  <2>2. r = CreateTask(st, command, a.task, a.title, a.tag, a.bucket, now)
    BY <1>2 DEF QueuedEffect
  <2> HIDE DEF r
  <2>3. Same
    BY <2>1, <2>2, CreateTouched
  <2> QED BY <2>3 DEF Touched, FocusTouched, r
<1>3. CASE a.op # "Create"
  <2>0. a.task \in Live(s)
    BY <1>3 DEF QueuedRefusal, Require, ??
  <2>1. CASE a.op \in {"Rename", "SetTag"}
    <3> DEFINE record == IF a.op = "Rename"
                         THEN [s.task[a.task] EXCEPT !.title = a.title, !.versions.title = command]
                         ELSE [s.task[a.task] EXCEPT !.tag = a.tag, !.versions.tag = command]
    <3>1. r = [st EXCEPT !.snapshot.task[a.task] = record]
      BY <2>1 DEF QueuedEffect
    <3>2. s.task[a.task] \in TaskRecord
      BY <1>1, <2>0
    <3>3. Rewrites(record, s.task[a.task], command)
      BY <2>1, <3>2 DEF Fields, TaskRecord, Rewrites
    <3> HIDE DEF record, r
    <3>4. /\ TasksTouched(s, r.snapshot, command) /\ r.used = st.used
          /\ Live(r.snapshot) = Live(s) /\ r.snapshot.focus = s.focus
      BY <2>0, <3>1, <3>3, RewriteTouched
    <3> QED BY <3>4 DEF Touched, FocusTouched, Grown, r
  <2>2. CASE a.op = "MoveBefore"
    <3> DEFINE d == Place(s, a.task, a.bucket, AnchorTask(a.before), command)
    <3>1. r = [st EXCEPT !.snapshot = d]
      BY <2>2 DEF QueuedEffect
    <3>2. TasksTouched(s, d, command) /\ Live(d) = Live(s)
      BY <1>1, <2>0, PlaceTouched
    <3>3. d.focus = s.focus
      BY <1>1 DEF Place, Shape
    <3> HIDE DEF d, r
    <3>4. r.snapshot = d /\ r.used = st.used
      BY <1>1, <3>1 DEF StateShape
    <3> QED BY <3>2, <3>3, <3>4 DEF Touched, FocusTouched, Grown, r
  <2>3. CASE a.op = "Delete"
    <3> DEFINE d == Drop(s, a.task)
    <3>1. r = [st EXCEPT !.snapshot = d]
      BY <2>3 DEF QueuedEffect
    <3>2. SameAround(d, s) /\ Live(d) \subseteq Live(s) /\ \A u \in Live(d) : d.task[u] = s.task[u]
      BY <1>1, <2>0, DropFacts
    <3> HIDE DEF d, r
    <3>3. r.snapshot = d /\ r.used = st.used
      BY <1>1, <3>1 DEF StateShape
    <3>4. TasksTouched(s, d, command)
      BY <3>2, SameRecords
    <3> QED BY <3>2, <3>3, <3>4 DEF Touched, FocusTouched, Grown, SameAround, r
  <2> QED BY <1>3, <2>1, <2>2, <2>3 DEF Queued
<1> QED BY <1>2, <1>3
\* The task that a focus command takes out of the queue.
Leaves(a, t) == IF a.op \in {"Complete", "Remove"} THEN {t} ELSE {}

Moved(st, r, command, a) ==
  /\ Touched(st.snapshot, r.snapshot, command)
  /\ Grown(st, r)
  /\ Live(st.snapshot) \ Live(r.snapshot) = Leaves(a, SessionTask(st.snapshot))

LEMMA FocusMoveTouched ==
  ASSUME NEW st, Clean(st), NEW command \in Token, NEW now \in Nat,
         NEW a \in Focused, a.op \notin {"Complete", "Undo"},
         FocusRefusal(st, a, now) = None
  PROVE  Moved(st, FocusMove(st, command, a, now), command, a)
<1> DEFINE s == st.snapshot
           t == SessionTask(s)
           r == FocusMove(st, command, a, now)
           q == r.snapshot
<1> USE DistinctValues DEF Reason
<1>0. StateShape(st) /\ Base(st) /\ Listed(s) /\ FocusIsNow(s) /\ Shape(s)
  BY DEF Clean, Base, Shape, Listed, IsBody
<1>1. CASE a.op = "Promote"
  <2> DEFINE p == Promote(s, a.task, command, now)
  <2>1. a.task \in Live(s)
    BY <1>1 DEF Focused, FocusRefusal, Require, ??
  <2>2. /\ SameButSession(p, s) /\ Live(p) = Live(s)
        /\ p.focus.session \in {s.focus.session, NewSession(command, a.task, now)}
    BY <1>0, <2>1, PromoteFacts
  <2>3. TasksTouched(s, p, command)
    BY <1>0, <2>1, PromoteTouched
  <2>4. r = [st EXCEPT !.snapshot = p]
    BY <1>1 DEF FocusMove
  <2> HIDE DEF p, r
  <2>5. q = p /\ r.used = st.used
    BY <1>0, <2>4 DEF StateShape
  <2>6. FocusTouched(s, p, command)
    BY <2>2 DEF FocusTouched, SameButSession, NewSession
  <2> QED BY <1>1, <2>2, <2>3, <2>5, <2>6 DEF Moved, Touched, Grown, Leaves, r
<1>2. CASE a.op = "CreateNow"
  <2> DEFINE c == CreateTask(st, command, a.task, a.title, a.tag, "next", now)
             p == Promote(c.snapshot, a.task, command, now)
  <2>1. /\ CreateRefusal(st, a.task) = None /\ a.task \in TaskId
        /\ a.title \in Title /\ a.tag \in Tag \cup {None} /\ "next" \in QueueBucket
    BY <1>2, ProtocolConstants DEF Focused, FocusRefusal
  <2>2. Clean(c) /\ a.task \in Live(c.snapshot)
    BY <2>1, CreateFacts
  <2>3. /\ TasksTouched(s, c.snapshot, command) /\ Grown(st, c)
        /\ Live(s) \subseteq Live(c.snapshot) /\ c.snapshot.focus = s.focus
    BY <2>1, CreateTouched
  <2>4. r = [c EXCEPT !.snapshot = p]
    BY <1>2 DEF FocusMove
  <2> HIDE DEF c
  <2>5. /\ Listed(c.snapshot) /\ FocusIsNow(c.snapshot) /\ StateShape(c)
    BY <2>2 DEF Clean, Base
  <2>6. /\ SameButSession(p, c.snapshot) /\ Live(p) = Live(c.snapshot)
        /\ p.focus.session \in {c.snapshot.focus.session, NewSession(command, a.task, now)}
    BY <2>2, <2>5, PromoteFacts
  <2>7. TasksTouched(c.snapshot, p, command)
    BY <2>2, <2>5, PromoteTouched
  <2> HIDE DEF p, r
  <2>8. q = p /\ r.used = c.used
    BY <2>4, <2>5 DEF StateShape
  <2>9. FocusTouched(s, p, command)
    BY <2>3, <2>6 DEF FocusTouched, SameButSession, NewSession
  <2>10. TasksTouched(s, p, command)
    BY <2>3, <2>7, TouchedTwice
  <2> QED BY <1>2, <2>3, <2>6, <2>8, <2>9, <2>10 DEF Moved, Touched, Grown, Leaves, r
<1>3. CASE a.op \in {"Remove", "MoveToQueue", "SetPaused"}
  <2>1. s.focus.session # None
    BY <1>3 DEF FocusRefusal, Require, ??
  <2>2. s.focus.session \in Session /\ t \in Live(s)
    BY <1>0, <2>1 DEF Listed, IsBody, FocusIsNow, SessionTask, NowTasks
  <2> HIDE DEF t
  <2>3. CASE a.op = "Remove"
    <3> DEFINE d == Drop(s, t)
    <3>1. r = [st EXCEPT !.snapshot = [d EXCEPT !.focus.session = None]]
      BY <2>3 DEF FocusMove, t
    <3>2. /\ Listed(d) /\ SameAround(d, s) /\ Live(d) = Live(s) \ {t}
          /\ \A u \in Live(d) : d.task[u] = s.task[u]
      BY <1>0, <2>2, DropFacts
    <3> HIDE DEF d, r
    <3>3. /\ q.task = d.task /\ q.focus.version = s.focus.version /\ q.focus.session = None
          /\ r.used = st.used
      BY <1>0, <3>1, <3>2 DEF StateShape, Listed, IsBody, SameAround
    <3>4. TasksTouched(s, q, command) /\ Live(q) = Live(s) \ {t}
      BY <3>2, <3>3, SameRecords DEF Live
    <3> QED BY <2>2, <2>3, <3>3, <3>4 DEF Moved, Touched, FocusTouched, Grown, Leaves, r, t
  <2>4. CASE a.op = "MoveToQueue"
    <3> DEFINE d == Place(s, t, a.bucket, AnchorTask(a.before), command)
    <3>1. r = [st EXCEPT !.snapshot = [d EXCEPT !.focus.session = None]]
      BY <2>4 DEF FocusMove, t
    <3>2. TasksTouched(s, d, command) /\ Live(d) = Live(s)
      BY <1>0, <2>2, PlaceTouched
    <3>3. Shape(d) /\ d.focus = s.focus
      BY <1>0 DEF Place, Shape
    <3> HIDE DEF d, r
    <3>4. /\ q.task = d.task /\ q.focus.version = s.focus.version /\ q.focus.session = None
          /\ r.used = st.used
      BY <1>0, <3>1, <3>3 DEF StateShape, Shape, Listed, IsBody
    <3>5. TasksTouched(s, q, command) /\ Live(q) = Live(s)
      BY <3>2, <3>4 DEF TasksTouched, Content, Live
    <3> QED BY <2>4, <3>4, <3>5 DEF Moved, Touched, FocusTouched, Grown, Leaves, r
  <2>5. CASE a.op = "SetPaused"
    <3> DEFINE held == Repaused(s.focus.session, a.paused, now)
    <3>1. r = [st EXCEPT !.snapshot.focus.session = held]
      BY <2>5 DEF FocusMove
    <3>2. held.id = s.focus.session.id /\ held.task = s.focus.session.task
      BY <2>2 DEF Repaused, Session
    <3> HIDE DEF held, r
    <3>3. /\ q.task = s.task /\ q.focus.version = s.focus.version /\ q.focus.session = held
          /\ r.used = st.used
      BY <1>0, <3>1 DEF StateShape, Listed, IsBody
    <3>4. TasksTouched(s, q, command) /\ Live(q) = Live(s)
      BY <3>3, SameRecords DEF Live
    <3> QED BY <2>1, <2>5, <3>2, <3>3, <3>4 DEF Moved, Touched, FocusTouched, Grown, Leaves, r
  <2> QED BY <1>3, <2>3, <2>4, <2>5
<1> QED BY <1>1, <1>2, <1>3 DEF Focused

\* The undo record remembers the queue before, of which only content that no
\* later undo must give back has changed since.
Remembers(r, s, by) ==
  /\ r.undo.completion = by /\ SameQueue(r.undo.before, s)
  /\ Live(r.snapshot) \subseteq Live(s)
  /\ \A t \in Live(r.snapshot) : /\ r.snapshot.task[t].title = s.task[t].title
                                /\ r.snapshot.task[t].tag = s.task[t].tag

LEMMA CompleteTouched ==
  ASSUME NEW st, Clean(st), st.snapshot.focus.session # None,
         NEW command \in Token, NEW now \in Nat
  PROVE  LET r == Complete(st, command, now)
         IN /\ Touched(st.snapshot, r.snapshot, command) /\ Grown(st, r)
            /\ Live(st.snapshot) \ Live(r.snapshot) = {SessionTask(st.snapshot)}
            /\ Remembers(r, st.snapshot, command)
<1> DEFINE s == st.snapshot
           t == SessionTask(s)
           d == Drop(s, t)
           dropped == [d EXCEPT !.focus.session = None]
           next == Head1(dropped, "next", None)
           snap == IF next = None THEN dropped ELSE Promote(dropped, next, command, now)
           until == now + UndoFor
           hint == [command |-> command, task |-> t, until |-> until]
           e == [snap EXCEPT !.undo = hint]
           r == Complete(st, command, now)
           Alike(p) == \A u \in Live(p) : p.task[u].title = s.task[u].title /\ p.task[u].tag = s.task[u].tag
<1>1. StateShape(st) /\ Listed(s) /\ FocusIsNow(s)
  BY DEF Clean, Base
<1>2. t = s.focus.session.task /\ NowTasks(s) = {t} /\ t \in Live(s)
  BY <1>1 DEF Listed, IsBody, FocusIsNow, SessionTask, NowTasks, Partial, Live
<1>3. r = [st EXCEPT !.undo = [completion |-> command, until |-> until, before |-> s],
                     !.snapshot = e]
  BY DEF Complete
<1> HIDE DEF t
<1>4. /\ Listed(d) /\ SameAround(d, s) /\ Live(d) = Live(s) \ {t}
      /\ NowTasks(d) = {} /\ \A u \in Live(d) : d.task[u] = s.task[u]
  BY <1>1, <1>2, DropFacts
<1> HIDE DEF d
<1>5. /\ Listed(dropped) /\ FocusIsNow(dropped) /\ SameButSession(dropped, d)
      /\ Live(dropped) = Live(d) /\ dropped.focus.session = None
  BY <1>4, Refocused
<1>6. dropped.task = d.task
  BY <1>4 DEF Listed, IsBody
<1> HIDE DEF dropped
<1>7. TasksTouched(s, dropped, command) /\ Alike(dropped)
  BY <1>4, <1>5, <1>6, SameRecords
<1>8. /\ Live(snap) = Live(dropped) /\ SameButSession(snap, dropped) /\ Listed(snap)
      /\ snap.focus.session # None => snap.focus.session.id = command
      /\ TasksTouched(s, snap, command) /\ Alike(snap)
  <2>1. CASE next = None
    BY <1>5, <1>7, <2>1 DEF SameButSession
  <2>2. CASE next # None
    <3>1. next \in Live(dropped)
      BY <1>5, <2>2, Head1Facts
    <3> HIDE DEF next
    <3> DEFINE p == Promote(dropped, next, command, now)
    <3>2. /\ SameButSession(p, dropped) /\ Live(p) = Live(dropped) /\ Listed(p)
          /\ p.focus.session \in {dropped.focus.session, NewSession(command, next, now)}
      BY <1>5, <3>1, PromoteFacts
    <3>3. /\ TasksTouched(dropped, p, command)
          /\ \A u \in Live(dropped) : p.task[u].title = dropped.task[u].title
                                      /\ p.task[u].tag = dropped.task[u].tag
      BY <1>5, <3>1, PromoteTouched
    <3>4. snap = p
      BY <2>2
    <3> HIDE DEF p, snap
    <3>5. TasksTouched(s, p, command)
      BY <1>7, <3>3, TouchedTwice
    <3> QED BY <1>5, <1>7, <3>2, <3>3, <3>4, <3>5 DEF NewSession
  <2> QED BY <2>1, <2>2
<1> HIDE DEF snap
<1>9. e.task = snap.task /\ e.focus = snap.focus
  BY <1>8 DEF Listed, IsBody
<1> HIDE DEF e
<1>10. /\ r.used = st.used /\ r.snapshot = e
       /\ r.undo = [completion |-> command, until |-> until, before |-> s]
  BY <1>1, <1>3 DEF StateShape
<1> HIDE DEF r
<1>11. Live(e) = Live(s) \ {t}
  BY <1>4, <1>5, <1>8, <1>9 DEF Live
<1>12. TasksTouched(s, e, command) /\ Alike(e)
  BY <1>8, <1>9, <1>11 DEF TasksTouched, Content, Live
<1>13. FocusTouched(s, e, command)
  BY <1>4, <1>5, <1>8, <1>9 DEF FocusTouched, SameAround, SameButSession
<1>14. Remembers(r, s, command)
  BY <1>10, <1>11, <1>12 DEF Remembers, SameQueue
<1> QED BY <1>2, <1>10, <1>11, <1>12, <1>13, <1>14 DEF Touched, Grown, r, t

\* An undo gives back what can be seen of the queue it remembers, under tokens
\* that are its own wherever the queue it finds has another content.
LEMMA UndoTouched ==
  ASSUME NEW st, Base(st), NEW before, Listed(before),
         Live(st.snapshot) \subseteq Live(before),
         \A t \in Live(st.snapshot) : /\ st.snapshot.task[t].title = before.task[t].title
                                     /\ st.snapshot.task[t].tag = before.task[t].tag,
         NEW command \in Token
  PROVE  LET r == Undone(st, before, command)
         IN /\ TasksTouched(st.snapshot, r.snapshot, command)
            /\ r.snapshot.focus.session # None => r.snapshot.focus.session.id = command
            /\ r.used = st.used /\ r.undo = NoUndo
            /\ Live(r.snapshot) = Live(before) /\ Visible(r.snapshot) = Visible(before)
<1> DEFINE s == st.snapshot
           Fresh(t) == IF t \notin Live(s) THEN Versions(command)
                       ELSE IF s.task[t].bucket # before.task[t].bucket
                       THEN [s.task[t].versions EXCEPT !.placement = command]
                       ELSE s.task[t].versions
           task == [t \in DOMAIN before.task |-> [before.task[t] EXCEPT !.versions = Fresh(t)]]
           old == before.focus.session
           session == IF old = None THEN None ELSE [old EXCEPT !.id = command]
           e == Restored(s, before, command)
           r == Undone(st, before, command)
<1>1. /\ StateShape(st) /\ s.task \in [Live(s) -> TaskRecord]
      /\ before.task \in [Live(before) -> TaskRecord] /\ old \in Session \cup {None}
      /\ Shape(before) /\ before.focus \in [version : {before.focus.version}, session : {old}]
  BY DEF Base, Listed, IsBody, Partial, Live, Shape
<1>2. /\ e.order = before.order /\ e.task = task
      /\ e.focus.session = session
  BY <1>1 DEF Restored, Shape
<1>3. r.used = st.used /\ r.snapshot = e /\ r.undo = NoUndo
  BY <1>1 DEF Undone, StateShape
<1>4. /\ DOMAIN task = Live(before)
      /\ \A t \in Live(before) : /\ task[t].title = before.task[t].title
                                 /\ task[t].tag = before.task[t].tag
                                 /\ task[t].bucket = before.task[t].bucket
                                 /\ task[t].versions = Fresh(t)
  <2> HIDE DEF Fresh
  <2> QED BY <1>1 DEF Live, TaskRecord
<1> HIDE DEF r, e, task
<1>5. TasksTouched(s, e, command)
  <2> SUFFICES ASSUME NEW t \in Live(before), NEW f \in Fields
               PROVE  \/ e.task[t].versions[f] = command
                      \/ /\ t \in Live(s)
                         /\ e.task[t].versions[f] = s.task[t].versions[f]
                         /\ Content(e, t, f) = Content(s, t, f)
    BY <1>2, <1>4 DEF TasksTouched, Live
  <2>1. e.task[t] = task[t]
    BY <1>2
  <2>2. CASE t \notin Live(s)
    <3>1. e.task[t].versions = Versions(command)
      BY <1>4, <2>1, <2>2
    <3> QED BY <3>1 DEF Versions, Fields
  <2>3. CASE t \in Live(s)
    <3>1. s.task[t] \in TaskRecord
      BY <1>1, <2>3
    <3> QED BY <1>4, <2>1, <2>3, <3>1 DEF Fields, Content, TaskRecord
  <2> QED BY <2>2, <2>3
<1>6. Visible(e) = Visible(before)
  <2>1. Live(e) = Live(before)
    BY <1>2, <1>4 DEF Live
  <2>2. \A t \in Live(before) : [f \in {"title", "tag", "bucket"} |-> e.task[t][f]]
                                = [f \in {"title", "tag", "bucket"} |-> before.task[t][f]]
    BY <1>2, <1>4
  <2>3. /\ (e.focus.session = None) <=> (old = None)
        /\ before.focus.session # None =>
             [f \in {"task", "elapsed", "running", "anchor"} |-> e.focus.session[f]]
             = [f \in {"task", "elapsed", "running", "anchor"} |-> before.focus.session[f]]
    <3>1. CASE old = None
      BY <1>2, <3>1
    <3>2. CASE old # None
      <4>1. /\ old \in Session /\ session \in Session
            /\ session.task = old.task /\ session.elapsed = old.elapsed
            /\ session.running = old.running /\ session.anchor = old.anchor
        BY <1>1, <3>2 DEF Session
      <4>2. session # None
        BY <4>1, DistinctValues
      <4> HIDE DEF session
      <4> QED BY <1>2, <3>2, <4>1, <4>2
    <3> QED BY <3>1, <3>2
  <2> QED BY <1>2, <2>1, <2>2, <2>3 DEF Visible
<1>7. e.focus.session # None => e.focus.session.id = command
  BY <1>1, <1>2 DEF Session
<1>8. Live(e) = Live(before)
  BY <1>2, <1>4 DEF Live
<1> QED BY <1>3, <1>5, <1>6, <1>7, <1>8 DEF r

LEMMA InitializeTouched ==
  ASSUME NEW st, StateShape(st), Shape(st.snapshot), st.used = {}, Live(st.snapshot) = {},
         NEW a, NEW command, NEW now
  PROVE  LET r == Initialize(st, command, a, now)
         IN /\ Touched(st.snapshot, r.snapshot, command) /\ Grown(st, r)
<1> DEFINE ids == [i \in DOMAIN a.seeds |-> a.seeds[i].id]
           SeedOf(t) == a.seeds[CHOOSE i \in DOMAIN ids : ids[i] = t]
           taken == {ids[i] : i \in DOMAIN ids}
           task == [t \in taken |->
             [title |-> SeedOf(t).title, tag |-> SeedOf(t).tag,
              bucket |-> SeedOf(t).bucket, created |-> SeedOf(t).created,
              versions |-> Versions(command)]]
           session == IF a.timer = None THEN None
                      ELSE [id |-> command, task |-> ids[Least(SeedsIn(a.seeds, "now"))],
                            elapsed |-> a.timer.elapsed,
                            running |-> a.timer.running, anchor |-> now]
           focus == [version |-> command, session |-> session]
           s == st.snapshot
           r == Initialize(st, command, a, now)
<1>0. r = [st EXCEPT !.used = @ \cup taken, !.snapshot.initialized = TRUE,
                     !.snapshot.order = ids, !.snapshot.task = task,
                     !.snapshot.focus = focus]
  BY DEF Initialize
<1>1. \A t \in taken : task[t].versions = Versions(command)
  <2> HIDE DEF SeedOf, taken
  <2> QED OBVIOUS
<1>2. DOMAIN task = taken
  <2> HIDE DEF SeedOf, taken
  <2> QED OBVIOUS
<1>3. session # None => session.id = command
  OBVIOUS
<1> HIDE DEF r, session, task, ids, taken
<1>4. /\ r.snapshot.task = task /\ r.snapshot.focus.version = command
      /\ r.snapshot.focus.session = session
  BY <1>0 DEF StateShape, Shape
<1>5. TasksTouched(s, r.snapshot, command)
  BY <1>1, <1>2, <1>4 DEF TasksTouched, Live, Versions, Fields
<1>6. FocusTouched(s, r.snapshot, command)
  BY <1>3, <1>4 DEF FocusTouched
<1> QED BY <1>5, <1>6 DEF Touched, Grown, r

(***************************************************************************)
(* What an accepted command tells                                          *)
(***************************************************************************)
LEMMA SameParts ==
  ASSUME NEW s, NEW q, SameQueue(s, q)
  PROVE  /\ Live(s) = Live(q) /\ SessionTask(s) = SessionTask(q) /\ SessionId(s) = SessionId(q)
         /\ Visible(s) = Visible(q) /\ Tokens(s) = Tokens(q) /\ SameQueue(q, s)
         /\ \A t, f : Content(s, t, f) = Content(q, t, f)
<1>1. Live(s) = Live(q) /\ SessionTask(s) = SessionTask(q) /\ SessionId(s) = SessionId(q)
  BY DEF SameQueue, Live, SessionTask, SessionId
<1>2. Visible(s) = Visible(q)
  BY <1>1 DEF SameQueue, Visible
<1>3. Tokens(s) = Tokens(q)
  BY <1>1 DEF SameQueue, Tokens
<1>4. \A t, f : Content(s, t, f) = Content(q, t, f)
  BY DEF SameQueue, Content
<1> QED BY <1>1, <1>2, <1>3, <1>4 DEF SameQueue

LEMMA SameTouched ==
  ASSUME NEW s, NEW q, NEW x, NEW y, SameQueue(s, x), SameQueue(q, y),
         NEW by, Touched(s, q, by)
  PROVE  Touched(x, y, by)
<1>1. TasksTouched(x, y, by)
  BY SameParts DEF Touched, TasksTouched, SameQueue
<1>2. FocusTouched(x, y, by)
  BY DEF Touched, FocusTouched, SameQueue
<1> QED BY <1>1, <1>2 DEF Touched

\* Nothing was ever in a queue that was not begun; what an undo would change
\* since the completion is no title and no tag.
Begun(st) == ~st.snapshot.initialized => st.used = {}
Undoes(st) ==
  st.undo # NoUndo =>
    LET before == st.undo.before
        now == st.snapshot
    IN /\ Live(now) \subseteq Live(before)
       /\ \A t \in Live(now) : /\ now.task[t].title = before.task[t].title
                               /\ now.task[t].tag = before.task[t].tag

\* What the state r after the command c says of the state before.
Told(st, c, r) ==
  LET s == st.snapshot
      q == r.snapshot
  IN /\ Touched(s, q, c.id)
     /\ st.used \subseteq r.used
     /\ IsUndo(c) \/ (Live(q) \ Live(s)) \cap st.used = {}
     /\ r.undo # NoUndo => Remembers(r, s, c.id)
     /\ IsFocus(c) => /\ c.guard.revision = s.revision /\ c.guard.task = SessionTask(s)
                      /\ Live(s) \ Live(q) = Leaves(c.action, SessionTask(s))
     /\ IsUndo(c) => /\ st.undo # NoUndo /\ st.undo.completion = c.action.completion
                     /\ Visible(q) = Visible(st.undo.before)

\* What is told depends on the queue, the used identities and the undo record.
LEMMA ToldOfSame ==
  ASSUME NEW st, NEW c, NEW r, Told(st, c, r), NEW r2, r2.used = r.used, r2.undo = r.undo,
         SameQueue(r.snapshot, r2.snapshot)
  PROVE  Told(st, c, r2)
<1>1. Touched(st.snapshot, r2.snapshot, c.id)
  BY SameTouched DEF Told, SameQueue
<1>2. Live(r2.snapshot) = Live(r.snapshot) /\ Visible(r2.snapshot) = Visible(r.snapshot)
  BY SameParts
<1>3. r2.undo # NoUndo => Remembers(r2, st.snapshot, c.id)
  BY <1>2 DEF Told, Remembers, SameQueue
<1> QED BY <1>1, <1>2, <1>3 DEF Told

LEMMA ReduceTold ==
  ASSUME NEW st, Sound(st), Begun(st), Undoes(st), NEW c \in Command, NEW now \in Nat,
         Refusal(st, c, now) = None
  PROVE  Told(st, c, Reduce(st, c, now))
<1> DEFINE r == Reduce(st, c, now)
           a == c.action
           clear == [st EXCEPT !.undo = NoUndo, !.snapshot.undo = None]
           s == st.snapshot
<1>1. c.id \in Token
  BY CommandKinds
<1>2. /\ StateShape(clear) /\ Listed(clear.snapshot) /\ SnapshotValid(clear.snapshot)
      /\ Live(clear.snapshot) = Live(s)
      /\ clear.used = st.used /\ clear.undo = NoUndo
      /\ clear.snapshot.initialized = s.initialized
      /\ clear.snapshot.focus = s.focus
      /\ s.initialized => Clean(clear)
  BY Cleared
<1>3. SameQueue(clear.snapshot, s)
  BY SoundFacts DEF StateShape, Listed, IsBody, SameQueue
<1>4. \A q : Touched(clear.snapshot, q, c.id) => Touched(s, q, c.id)
  <2>1. \A q : SameQueue(q, q)
    BY DEF SameQueue
  <2> HIDE DEF clear
  <2> QED BY <1>3, <2>1, SameTouched
<1>5. \A x : Grown(clear, x) => Grown(st, x)
  <2> HIDE DEF clear
  <2> QED BY <1>2 DEF Grown
<1> HIDE DEF r
<1> USE DistinctValues DEF Reason
<1>6. CASE a \in Queued /\ ~IsFocus(c) /\ ~IsUndo(c) /\ a.op # "Initialize"
  <2>1. s.initialized /\ QueuedRefusal(st, a) = None
    BY <1>6 DEF Refusal, Require, ??
  <2>2. r = QueuedEffect(clear, c.id, a, now)
    BY <1>6 DEF Reduce, r
  <2> HIDE DEF clear
  <2>3. QueuedRefusal(clear, a) = None
    BY <1>2, <1>3, <2>1, SameRefusals DEF SameQueue
  <2>4. Clean(clear)
    BY <1>2, <2>1
  <2>5. Touched(clear.snapshot, r.snapshot, c.id) /\ Grown(clear, r)
    BY <1>1, <1>6, <2>2, <2>3, <2>4, QueuedTouched
  <2>6. Clean(r)
    BY <1>1, <1>6, <2>2, <2>3, <2>4, QueuedFacts
  <2> QED BY <1>4, <1>5, <1>6, <2>5, <2>6 DEF Told, Grown, Clean, r
<1>7. CASE a \in Seeding /\ a.op = "Initialize" /\ ~IsFocus(c) /\ ~IsUndo(c)
  <2>1. ~s.initialized /\ InitializeRefusal(st, a) = None
    BY <1>7 DEF Refusal, InitializeRefusal, Require, ??
  <2>2. r = Initialize(clear, c.id, a, now)
    BY <1>7 DEF Reduce, r
  <2> HIDE DEF clear
  <2>3. Live(clear.snapshot) = {} /\ clear.used = {} /\ Shape(clear.snapshot)
    BY <1>2, <2>1 DEF Begun, SnapshotValid, StartedOnce, Listed, IsBody, Shape
  <2>4. Touched(clear.snapshot, r.snapshot, c.id) /\ Grown(clear, r)
    BY <1>2, <2>2, <2>3, InitializeTouched
  <2>5. InitializeRefusal(clear, a) = None
    BY <1>2, <2>1 DEF InitializeRefusal
  <2>6. r.undo = NoUndo
    BY <1>1, <1>2, <1>7, <2>2, <2>5, InitializeFacts
  <2> QED BY <1>4, <1>5, <1>7, <2>4, <2>6 DEF Told, Grown, r
<1>8. CASE a \in Focused /\ IsFocus(c) /\ a.op # "Initialize"
  <2>1. /\ s.initialized /\ FocusRefusal(st, a, now) = None
        /\ GuardRefusal(s, c.guard, now) = None
        /\ Clean(clear) /\ Base(st)
    BY <1>2, <1>8, SoundFacts DEF Refusal, Require, ??
  <2>2. c.guard.revision = s.revision /\ c.guard.task = SessionTask(s)
    BY <2>1 DEF GuardRefusal, Require, ??
  <2> DEFINE from == IF IsUndo(c) THEN st ELSE clear
             m == FocusMove(from, c.id, a, now)
             v == [m EXCEPT !.snapshot.focus.version = c.id]
  <2>3. r = v
    BY <1>8 DEF Reduce, FocusEffect, r
  <2> HIDE DEF clear, from, m
  <2> DEFINE Enough == /\ TasksTouched(s, m.snapshot, c.id)
                       /\ FocusTouched(s, v.snapshot, c.id)
                       /\ st.used \subseteq m.used
                       /\ IsUndo(c) \/ (Live(m.snapshot) \ Live(s)) \cap st.used = {}
                       /\ m.undo # NoUndo => Remembers(m, s, c.id)
                       /\ Live(s) \ Live(m.snapshot) = Leaves(a, SessionTask(s))
                       /\ IsUndo(c) => /\ st.undo # NoUndo /\ st.undo.completion = a.completion
                                       /\ Visible(m.snapshot) = Visible(st.undo.before)
  <2>4. ASSUME Base(m), Enough
        PROVE  Told(st, c, r)
    <3>1. /\ v.used = m.used /\ v.undo = m.undo /\ v.snapshot.order = m.snapshot.order
          /\ v.snapshot.task = m.snapshot.task
          /\ v.snapshot.focus.session = m.snapshot.focus.session
      BY <2>4 DEF Base, StateShape, Listed, IsBody
    <3> HIDE DEF v
    <3>2. Live(v.snapshot) = Live(m.snapshot) /\ Visible(v.snapshot) = Visible(m.snapshot)
      BY <3>1 DEF Live, Visible
    <3>3. TasksTouched(s, v.snapshot, c.id)
      BY <2>4, <3>1, <3>2 DEF TasksTouched, Content
    <3>4. v.undo # NoUndo => Remembers(v, s, c.id)
      BY <2>4, <3>1, <3>2 DEF Remembers
    <3> QED BY <2>2, <2>3, <2>4, <3>1, <3>2, <3>3, <3>4 DEF Told, Touched
  <2>5. ASSUME Base(m) PROVE v.snapshot.focus.version = c.id /\
                             v.snapshot.focus.session = m.snapshot.focus.session
    BY <2>5 DEF Base, StateShape, Listed, IsBody
  <2> HIDE DEF v
  <2>6. CASE a.op \notin {"Complete", "Undo"}
    <3>1. from = clear /\ ~IsUndo(c)
      BY <2>6 DEF IsUndo, from
    <3>2. FocusRefusal(clear, a, now) = None
      BY <1>2, <1>3, <2>1, <2>6, SameRefusals DEF SameQueue
    <3>3. Clean(m)
      BY <1>1, <1>8, <2>1, <2>6, <3>1, <3>2, FocusMoveFacts DEF m
    <3>4. Moved(clear, m, c.id, a)
      BY <1>1, <1>8, <2>1, <2>6, <3>1, <3>2, FocusMoveTouched DEF m
    <3>5. Touched(s, m.snapshot, c.id) /\ Grown(st, m)
      BY <1>4, <1>5, <3>4 DEF Moved
    <3>6. Live(s) \ Live(m.snapshot) = Leaves(a, SessionTask(s))
      BY <1>2, <1>3, <3>4, SameParts DEF Moved
    <3>7. Base(m) /\ m.undo = NoUndo
      BY <3>3 DEF Clean
    <3>8. FocusTouched(s, v.snapshot, c.id)
      BY <2>5, <3>5, <3>7 DEF Touched, FocusTouched
    <3> QED BY <2>4, <3>1, <3>5, <3>6, <3>7, <3>8 DEF Touched, Grown, r
  <2>7. CASE a.op = "Complete"
    <3>1. from = clear /\ ~IsUndo(c)
      BY <2>7 DEF IsUndo, from
    <3>2. clear.snapshot.focus.session # None
      BY <1>2, <2>1, <2>7 DEF FocusRefusal, Require, ??
    <3>3. m = Complete(clear, c.id, now)
      BY <2>7, <3>1 DEF FocusMove, m
    <3>4. Base(m)
      BY <1>1, <2>1, <3>2, <3>3, CompleteFacts
    <3>5. /\ Touched(clear.snapshot, m.snapshot, c.id) /\ Grown(clear, m)
          /\ Live(clear.snapshot) \ Live(m.snapshot) = {SessionTask(clear.snapshot)}
          /\ Remembers(m, clear.snapshot, c.id)
      BY <1>1, <2>1, <3>2, <3>3, CompleteTouched
    <3>6. Touched(s, m.snapshot, c.id) /\ Grown(st, m)
      BY <1>4, <1>5, <3>5
    <3>7. Live(s) \ Live(m.snapshot) = Leaves(a, SessionTask(s))
      BY <1>2, <1>3, <2>7, <3>5, SameParts DEF Leaves
    <3>8. Remembers(m, s, c.id)
      BY <1>2, <1>3, <3>5 DEF Remembers, SameQueue
    <3>9. FocusTouched(s, v.snapshot, c.id)
      BY <2>5, <3>4, <3>6 DEF Touched, FocusTouched
    <3> QED BY <2>4, <3>1, <3>4, <3>6, <3>7, <3>8, <3>9 DEF Touched, Grown, r
  <2>8. CASE a.op = "Undo"
    <3> DEFINE b == st.undo.before
    <3>1. from = st /\ IsUndo(c)
      BY <2>8 DEF IsUndo, from
    <3>2. st.undo # NoUndo /\ st.undo.completion = a.completion
      BY <2>1, <2>8 DEF FocusRefusal, Require, ??
    <3>3. m = Undone(st, b, c.id)
      BY <2>8, <3>1 DEF FocusMove, Undone, m
    <3>4. /\ Listed(b) /\ FocusIsNow(b) /\ b.initialized /\ b.generation = s.generation
          /\ Live(b) \subseteq st.used /\ Cardinality(Live(b)) <= MaxTasks
      BY <3>2 DEF Sound, StateValid, SnapshotValid, IsState, IsSnapshot, Listed
    <3>5. /\ Live(s) \subseteq Live(b)
          /\ \A t \in Live(s) : s.task[t].title = b.task[t].title /\ s.task[t].tag = b.task[t].tag
      BY <3>2 DEF Undoes
    <3> HIDE DEF b
    <3>6. Clean(m)
      BY <1>1, <2>1, <3>3, <3>4, RestoredFacts
    <3>7. /\ TasksTouched(s, m.snapshot, c.id)
          /\ m.snapshot.focus.session # None => m.snapshot.focus.session.id = c.id
          /\ m.used = st.used /\ m.undo = NoUndo
          /\ Live(m.snapshot) = Live(b) /\ Visible(m.snapshot) = Visible(b)
      BY <1>1, <2>1, <3>3, <3>4, <3>5, UndoTouched
    <3>8. Base(m)
      BY <3>6 DEF Clean
    <3>9. FocusTouched(s, v.snapshot, c.id)
      BY <2>5, <3>7, <3>8 DEF FocusTouched
    <3>10. Live(s) \ Live(m.snapshot) = Leaves(a, SessionTask(s))
      BY <2>8, <3>5, <3>7 DEF Leaves
    <3> QED BY <2>4, <3>1, <3>2, <3>7, <3>8, <3>9, <3>10 DEF b, r
  <2> QED BY <2>6, <2>7, <2>8
<1>9. \/ a \in Queued /\ ~IsFocus(c) /\ ~IsUndo(c) /\ a.op # "Initialize"
      \/ a \in Seeding /\ a.op = "Initialize" /\ ~IsFocus(c) /\ ~IsUndo(c)
      \/ a \in Focused /\ IsFocus(c) /\ a.op # "Initialize"
  <2>1. a \in Seeding => ~(a \in Focused)
    BY DEF Seeding, Focused
  <2>2. a \in Seeding => c.guard = None
    BY <2>1 DEF Command
  <2> QED BY <2>2, CommandKinds DEF IsFocus
<1> QED BY <1>6, <1>7, <1>8, <1>9 DEF r

\* What an accepted command does to the queue, told by its kind alone: nothing that was
\* ever deleted comes back but by undo, a focus command takes at most the task it names
\* out, and an undo gives back what was to be seen before the completion it names.
THEOREM ApplyTells ==
  ASSUME NEW st, Sound(st), Begun(st), Undoes(st), NEW c \in Command, NEW now \in Nat,
         Refusal(st, c, now) = None
  PROVE  Told(st, c, Apply(st, c, now)) /\ Apply(st, c, now).snapshot.initialized
<1> DEFINE m == Reduce(st, c, now)
           next == [m EXCEPT !.snapshot.revision = st.snapshot.revision + 1]
           r == [next EXCEPT !.snapshot.history =
                   Append(st.snapshot.history, Link(c.id, next.snapshot))]
<1>1. Base(m)
  BY ReduceFacts
<1>2. Told(st, c, m)
  BY ReduceTold
<1>3. Apply(st, c, now) = r
  BY DEF Apply
<1> HIDE DEF m
<1>4. StateShape(m) /\ Shape(m.snapshot) /\ m.snapshot.initialized
  BY <1>1 DEF Base, Listed, IsBody, Shape
<1>5. /\ StateShape(next) /\ Shape(next.snapshot) /\ next.snapshot.initialized
      /\ next.used = m.used /\ next.undo = m.undo /\ SameQueue(m.snapshot, next.snapshot)
  BY <1>4 DEF StateShape, Shape, SameQueue
<1> HIDE DEF next
<1>6. /\ r.used = m.used /\ r.undo = m.undo /\ SameQueue(m.snapshot, r.snapshot)
      /\ r.snapshot.initialized
  BY <1>5 DEF StateShape, Shape, SameQueue
<1> HIDE DEF r
<1>7. Told(st, c, r)
  BY <1>2, <1>6, ToldOfSame
<1> QED BY <1>3, <1>6, <1>7

\* A link holds the queue it was made from.
LEMMA LinkHolds ==
  ASSUME NEW by, NEW s, IsBody(s)
  PROVE  Link(by, s).by = by /\ SameQueue(s, Link(by, s).result)
         /\ Link(by, s).result.revision = s.revision
<1> DEFINE b == [s EXCEPT !.history = <<>>]
<1>1. b.order = s.order /\ b.task = s.task /\ b.focus = s.focus /\ b.revision = s.revision
  BY DEF IsBody
<1>2. Link(by, s).by = by /\ Link(by, s).result = b
  BY DEF Link
<1> HIDE DEF b
<1> QED BY <1>1, <1>2 DEF SameQueue

(***************************************************************************)
(* The chain of accepted commands                                          *)
(***************************************************************************)
Last(c) == c[Len(c)].result

\* It starts with an empty queue, and every link touches only what is its own.
Threaded(c) ==
  /\ Live(c[1].result) = {}
  /\ c[1].result.focus.version = c[1].by /\ c[1].result.focus.session = None
  /\ \A i \in 2..Len(c) : Touched(c[i - 1].result, c[i].result, c[i].by)

\* A task that enters the queue was never in it, except by an undo.
Undoing(by, rc) == by \in DOMAIN rc /\ IsUndo(rc[by].command)
Numbered(c, used, rc) ==
  /\ \A i \in DOMAIN c : Live(c[i].result) \subseteq used
  /\ \A i \in 2..Len(c) :
       \/ Undoing(c[i].by, rc)
       \/ \A t \in Live(c[i].result) \ Live(c[i - 1].result) :
            \A j \in 1..(i - 1) : t \notin Live(c[j].result)

\* Link i is the command's: a focus command acted on what had been seen, an
\* undo gave back what the completion before it took.
Aimed(c, i, command, obs) ==
  IsFocus(command) =>
    /\ i > 1
    /\ \E s \in obs : s.revision = command.guard.revision /\ SameQueue(s, c[i - 1].result)
    /\ SessionTask(c[i - 1].result) = command.guard.task
    /\ Live(c[i - 1].result) \ Live(c[i].result) = Leaves(command.action, command.guard.task)
Exact(c, i, command) ==
  IsUndo(command) =>
    /\ i > 2 /\ c[i - 1].by = command.action.completion
    /\ Visible(c[i].result) = Visible(c[i - 2].result)
Intended(c, rc, obs) ==
  \A i \in DOMAIN c : c[i].by \in DOMAIN rc =>
    Aimed(c, i, rc[c[i].by].command, obs) /\ Exact(c, i, rc[c[i].by].command)

\* The completion that can be undone is the last link, on the queue before it.
Undoable(st) ==
  LET c == st.snapshot.history
  IN st.undo # NoUndo =>
       /\ Len(c) > 1 /\ c[Len(c)].by = st.undo.completion
       /\ SameQueue(st.undo.before, c[Len(c) - 1].result)

\* What a database with its history tells, given the snapshots devices saw.
Lineage(st, h, rc, obs) ==
  LET c == st.snapshot.history
  IN /\ h[st.snapshot.revision] = c
     /\ SameQueue(st.snapshot, Last(c))
     /\ Begun(st) /\ Undoes(st) /\ Undoable(st)
     /\ Threaded(c) /\ Numbered(c, st.used, rc) /\ Intended(c, rc, obs)

\* A chain and one more link.
Longer(old, new, l) ==
  /\ Len(old) \in Nat \ {0} /\ Len(new) = Len(old) + 1
  /\ DOMAIN old = 1..Len(old) /\ DOMAIN new = 1..(Len(old) + 1)
  /\ \A i \in DOMAIN old : new[i] = old[i]
  /\ new[Len(old) + 1] = l

LEMMA ThreadedMore ==
  ASSUME NEW old, NEW new, NEW l, Longer(old, new, l), Threaded(old),
         Touched(Last(old), l.result, l.by)
  PROVE  Threaded(new)
<1>1. ASSUME NEW i \in 2..Len(new)
      PROVE  Touched(new[i - 1].result, new[i].result, new[i].by)
  <2>1. CASE i = Len(new)
    BY <2>1 DEF Longer, Last
  <2>2. CASE i # Len(new)
    BY <2>2 DEF Longer, Threaded
  <2> QED BY <2>1, <2>2
<1> QED BY <1>1 DEF Threaded, Longer

LEMMA NumberedMore ==
  ASSUME NEW old, NEW new, NEW l, Longer(old, new, l), NEW used, NEW rc, NEW more, NEW rc2,
         Numbered(old, used, rc), used \subseteq more, Live(l.result) \subseteq more,
         Undoing(l.by, rc2) \/ (Live(l.result) \ Live(Last(old))) \cap used = {},
         \A i \in DOMAIN old : Undoing(old[i].by, rc) => Undoing(old[i].by, rc2)
  PROVE  Numbered(new, more, rc2)
<1>1. \A i \in DOMAIN new : Live(new[i].result) \subseteq more
  BY DEF Longer, Numbered
<1>2. ASSUME NEW i \in 2..Len(new)
      PROVE  \/ Undoing(new[i].by, rc2)
             \/ \A t \in Live(new[i].result) \ Live(new[i - 1].result) :
                  \A j \in 1..(i - 1) : t \notin Live(new[j].result)
  <2>1. CASE i = Len(new)
    <3>1. new[i] = l /\ new[i - 1].result = Last(old)
      BY <2>1 DEF Longer, Last
    <3>2. \A j \in 1..(i - 1) : Live(new[j].result) \subseteq used
      BY <2>1 DEF Longer, Numbered
    <3> QED BY <3>1, <3>2
  <2>2. CASE i # Len(new)
    <3>1. i \in 2..Len(old) /\ new[i] = old[i] /\ new[i - 1] = old[i - 1]
          /\ \A j \in 1..(i - 1) : new[j] = old[j]
      BY <2>2 DEF Longer
    <3>2. i \in DOMAIN old
      BY <3>1 DEF Longer
    <3> QED BY <3>1, <3>2 DEF Numbered
  <2> QED BY <2>1, <2>2
<1> QED BY <1>1, <1>2 DEF Numbered

LEMMA IntendedMore ==
  ASSUME NEW old, NEW new, NEW l, Longer(old, new, l), NEW rc, NEW rc2, NEW obs, NEW more,
         Intended(old, rc, obs), obs \subseteq more,
         \A i \in DOMAIN old : old[i].by \in DOMAIN rc2 =>
            old[i].by \in DOMAIN rc /\ rc2[old[i].by].command = rc[old[i].by].command,
         l.by \in DOMAIN rc2 =>
            /\ Aimed(new, Len(new), rc2[l.by].command, more)
            /\ Exact(new, Len(new), rc2[l.by].command)
  PROVE  Intended(new, rc2, more)
<1> SUFFICES ASSUME NEW i \in DOMAIN new, new[i].by \in DOMAIN rc2
             PROVE  /\ Aimed(new, i, rc2[new[i].by].command, more)
                    /\ Exact(new, i, rc2[new[i].by].command)
  BY DEF Intended
<1>1. CASE i = Len(new)
  BY <1>1 DEF Longer
<1>2. CASE i # Len(new)
  <2> DEFINE command == rc2[new[i].by].command
  <2>1. i \in DOMAIN old /\ i \in Nat /\ new[i] = old[i]
    BY <1>2 DEF Longer
  <2>2. Aimed(old, i, command, obs) /\ Exact(old, i, command)
    BY <2>1 DEF Intended
  <2> HIDE DEF command
  <2>3. i > 1 => new[i - 1] = old[i - 1]
    BY <2>1 DEF Longer
  <2>4. i > 2 => new[i - 2] = old[i - 2]
    BY <2>1 DEF Longer
  <2>5. Aimed(new, i, command, more)
    BY <2>1, <2>2, <2>3 DEF Aimed
  <2>6. Exact(new, i, command)
    <3>1. i > 2 => i > 1
      BY <2>1
    <3> QED BY <2>1, <2>2, <2>3, <2>4, <3>1 DEF Exact
  <2> QED BY <2>5, <2>6 DEF command
<1> QED BY <1>1, <1>2

\* A device saw the queue of the revision r.
Seen(r, h, obs) ==
  \E s \in obs : s.revision = r /\ h[r] = s.history /\ SameQueue(s, Last(s.history))

LEMMA LineageExecute ==
  ASSUME NEW st, NEW h, NEW rc, NEW drawn, Good(st, h, rc, drawn),
         Partial(rc, CommandId, Receipt), NEW obs, Lineage(st, h, rc, obs),
         NEW c \in Command, c.id \notin DOMAIN rc, NEW now \in Nat,
         Refusal(st, c, now) = None, NEW receipt, receipt.command = c,
         IsFocus(c) => Seen(c.guard.revision, h, obs), NEW more, obs \subseteq more
  PROVE  LET r == Apply(st, c, now)
             revision == st.snapshot.revision + 1
         IN Lineage(r,
                    [n \in DOMAIN h \cup {revision} |->
                       IF n = revision THEN r.snapshot.history ELSE h[n]],
                    [x \in DOMAIN rc \cup {c.id} |-> IF x = c.id THEN receipt ELSE rc[x]],
                    more)
<1> DEFINE r == Apply(st, c, now)
           revision == st.snapshot.revision + 1
           h2 == [n \in DOMAIN h \cup {revision} |->
                    IF n = revision THEN r.snapshot.history ELSE h[n]]
           rc2 == [x \in DOMAIN rc \cup {c.id} |-> IF x = c.id THEN receipt ELSE rc[x]]
           s == st.snapshot
           q == r.snapshot
           old == s.history
           new == q.history
           l == Link(c.id, q)
<1>1. /\ Sound(st) /\ c.id \in CommandId /\ c.id \in Token /\ IsChain(old)
      /\ Begun(st) /\ Undoes(st) /\ Undoable(st)
  BY CommandKinds, SoundFacts DEF Good, Lineage
<1>2. Sound(r) /\ q.revision = revision /\ new = Append(old, l)
  BY <1>1, ApplySound
<1>3. Told(st, c, r) /\ q.initialized
  BY <1>1, ApplyTells
<1>4. IsBody(q) /\ Live(q) \subseteq r.used
  BY <1>2, SoundFacts DEF Sound, IsState, IsSnapshot
<1>5. l.by = c.id /\ SameQueue(q, l.result)
  BY <1>4, LinkHolds
<1> HIDE DEF r, l
<1>6. /\ rc2[c.id] = receipt /\ c.id \in DOMAIN rc2
      /\ \A x \in DOMAIN rc : x \in DOMAIN rc2 /\ rc2[x] = rc[x]
      /\ \A x \in DOMAIN rc2 : x = c.id \/ x \in DOMAIN rc
  OBVIOUS
<1>7. q.revision \in DOMAIN h2 /\ h2[q.revision] = new
  BY <1>2
<1> HIDE DEF rc2, h2
<1>8. /\ Len(old) \in Nat /\ Len(new) = Len(old) + 1
      /\ DOMAIN old = 1..Len(old) /\ DOMAIN new = 1..(Len(old) + 1)
      /\ \A i \in DOMAIN old : new[i] = old[i]
      /\ new[Len(old) + 1] = l
  BY <1>1, <1>2, <1>4, Linked DEF l
<1>9. Len(old) # 0
  <2>1. \E x : x \in 1..Len(old)
    BY DEF Good, Ancestry
  <2> QED BY <1>8, <2>1
<1> HIDE DEF old, new
<1>10. Longer(old, new, l)
  BY <1>8, <1>9 DEF Longer
<1>11. /\ h[s.revision] = old /\ SameQueue(s, Last(old))
       /\ Threaded(old) /\ Numbered(old, st.used, rc) /\ Intended(old, rc, obs)
  BY DEF Lineage, old
<1>12. SameQueue(q, Last(new))
  BY <1>5, <1>8 DEF Last
<1>13. Threaded(new)
  <2>1. Touched(Last(old), l.result, l.by)
    BY <1>3, <1>5, <1>11, SameTouched DEF Told
  <2> QED BY <1>10, <1>11, <2>1, ThreadedMore
<1>14. Live(l.result) = Live(q) /\ Live(Last(old)) = Live(s)
  BY <1>5, <1>11, SameParts
<1>15. Numbered(new, r.used, rc2)
  <2>1. IsUndo(c) => Undoing(l.by, rc2)
    BY <1>5, <1>6 DEF Undoing
  <2>2. Undoing(l.by, rc2) \/ (Live(l.result) \ Live(Last(old))) \cap st.used = {}
    BY <1>3, <1>14, <2>1 DEF Told
  <2>3. \A i \in DOMAIN old : Undoing(old[i].by, rc) => Undoing(old[i].by, rc2)
    BY <1>6 DEF Undoing
  <2>4. st.used \subseteq r.used /\ Live(l.result) \subseteq r.used
    BY <1>3, <1>4, <1>14 DEF Told
  <2> QED BY <1>10, <1>11, <2>2, <2>3, <2>4, NumberedMore
<1>16. r.undo # NoUndo => Remembers(r, s, c.id)
  BY <1>3 DEF Told
<1>17. Undoes(r)
  BY <1>16, SameParts DEF Undoes, Remembers, SameQueue
<1>18. Undoable(r)
  <2>1. r.undo # NoUndo => SameQueue(r.undo.before, Last(old))
    BY <1>11, <1>16 DEF Remembers, SameQueue
  <2> QED BY <1>5, <1>8, <1>9, <1>16, <2>1 DEF Undoable, Remembers, Last, new
<1>19. Aimed(new, Len(new), c, more)
  <2> SUFFICES ASSUME IsFocus(c) PROVE Aimed(new, Len(new), c, more)
    BY DEF Aimed
  <2>1. /\ c.guard.revision = s.revision /\ c.guard.task = SessionTask(s)
        /\ Live(s) \ Live(q) = Leaves(c.action, SessionTask(s))
    BY <1>3 DEF Told
  <2>2. PICK x \in obs : /\ x.revision = s.revision /\ h[s.revision] = x.history
                         /\ SameQueue(x, Last(x.history))
    BY <2>1 DEF Seen
  <2>3. SameQueue(x, Last(old)) /\ x \in more
    BY <1>11, <2>2
  <2>4. Len(new) > 1 /\ new[Len(new) - 1].result = Last(old) /\ new[Len(new)].result = l.result
    BY <1>8, <1>9 DEF Last
  <2>5. SessionTask(Last(old)) = SessionTask(s)
    BY <1>11, SameParts
  <2> QED BY <1>14, <2>1, <2>2, <2>3, <2>4, <2>5 DEF Aimed
<1>20. Exact(new, Len(new), c)
  <2> SUFFICES ASSUME IsUndo(c) PROVE Exact(new, Len(new), c)
    BY DEF Exact
  <2>1. /\ st.undo # NoUndo /\ st.undo.completion = c.action.completion
        /\ Visible(q) = Visible(st.undo.before)
    BY <1>3 DEF Told
  <2>2. /\ Len(old) > 1 /\ old[Len(old)].by = c.action.completion
        /\ SameQueue(st.undo.before, old[Len(old) - 1].result)
    BY <1>1, <2>1 DEF Undoable, old
  <2>3. /\ Len(new) > 2 /\ new[Len(new) - 1] = old[Len(old)]
        /\ new[Len(new) - 2] = old[Len(old) - 1] /\ new[Len(new)] = l
    BY <1>8, <2>2
  <2>4. Visible(l.result) = Visible(q) /\ Visible(st.undo.before) = Visible(old[Len(old) - 1].result)
    BY <1>5, <2>2, SameParts
  <2> QED BY <2>1, <2>2, <2>3, <2>4 DEF Exact
<1>21. Intended(new, rc2, more)
  <2>1. \A i \in DOMAIN old : old[i].by # c.id
    BY <1>1 DEF Good, OneEffect, old
  <2>2. \A i \in DOMAIN old : old[i].by \in DOMAIN rc2 =>
          old[i].by \in DOMAIN rc /\ rc2[old[i].by].command = rc[old[i].by].command
    BY <1>6, <2>1
  <2> QED BY <1>5, <1>6, <1>10, <1>11, <1>19, <1>20, <2>2, IntendedMore
<1>22. Begun(r)
  BY <1>3 DEF Begun
<1>23. Lineage(r, h2, rc2, more)
  BY <1>7, <1>12, <1>13, <1>15, <1>17, <1>18, <1>21, <1>22 DEF Lineage, new
<1> QED BY <1>23 DEF h2, rc2, r, revision

\* More receipts of commands without effect, more snapshots seen.
LEMMA LineageMore ==
  ASSUME NEW st, NEW h, NEW rc, NEW drawn, Good(st, h, rc, drawn),
         NEW obs, Lineage(st, h, rc, obs), NEW more, obs \subseteq more,
         NEW rc2, \A x \in DOMAIN rc : x \in DOMAIN rc2 /\ rc2[x] = rc[x],
         \A x \in DOMAIN rc2 : x \in CommandId
  PROVE  Lineage(st, h, rc2, more)
<1> DEFINE c == st.snapshot.history
<1>1. \A i \in DOMAIN c : c[i].by \in DOMAIN rc2 => c[i].by \in DOMAIN rc
  BY DEF Good, OneEffect
<1>2. Intended(c, rc2, more)
  <2>1. Intended(c, rc, obs)
    BY DEF Lineage
  <2> HIDE DEF c
  <2>2. ASSUME NEW i \in DOMAIN c, c[i].by \in DOMAIN rc2
        PROVE  /\ Aimed(c, i, rc2[c[i].by].command, more)
               /\ Exact(c, i, rc2[c[i].by].command)
    <3>1. c[i].by \in DOMAIN rc /\ rc2[c[i].by] = rc[c[i].by]
      BY <1>1, <2>2
    <3>2. Aimed(c, i, rc[c[i].by].command, obs) /\ Exact(c, i, rc[c[i].by].command)
      BY <2>1, <3>1 DEF Intended
    <3>3. Aimed(c, i, rc[c[i].by].command, more)
      BY <3>2 DEF Aimed
    <3> QED BY <3>1, <3>2, <3>3
  <2> QED BY <2>2 DEF Intended
<1>3. Numbered(c, st.used, rc2)
  BY DEF Lineage, Numbered, Undoing
<1> QED BY <1>2, <1>3 DEF Lineage

\* A new generation gives every token anew and changes nothing else.
LEMMA ResetTouched ==
  ASSUME NEW st, Sound(st), NEW g \in Generation
  PROVE  LET r == ResetGeneration(st, g)
         IN /\ Touched(st.snapshot, r.snapshot, g) /\ Live(r.snapshot) = Live(st.snapshot)
            /\ r.used = st.used /\ r.undo = NoUndo
            /\ r.snapshot.initialized = st.snapshot.initialized
<1> DEFINE s == st.snapshot
           old == s.focus.session
           session == IF old = None THEN None ELSE [old EXCEPT !.id = g]
           task == [t \in DOMAIN s.task |-> [s.task[t] EXCEPT !.versions = Versions(g)]]
           snap == [s EXCEPT !.generation = g, !.undo = None, !.focus.version = g,
                             !.focus.session = session, !.task = task]
           r == [st EXCEPT !.snapshot = [snap EXCEPT !.history = Append(s.history, Link(g, snap))],
                           !.undo = NoUndo]
<1>1. /\ StateShape(st) /\ Shape(s) /\ s.task \in [Live(s) -> TaskRecord]
      /\ old \in Session \cup {None}
      /\ s.focus \in [version : {s.focus.version}, session : {old}]
  BY SoundFacts DEF Listed, IsBody, Partial, Live, Shape
<1>2. ResetGeneration(st, g) = r
  BY DEF ResetGeneration
<1>3. session # None => session.id = g
  BY <1>1 DEF Session
<1>4. DOMAIN task = Live(s) /\ \A t \in Live(s) : task[t].versions = Versions(g)
  BY <1>1 DEF Live, TaskRecord
<1> HIDE DEF session, task
<1>5. /\ Shape(snap) /\ snap.task = task /\ snap.focus.version = g
      /\ snap.focus.session = session /\ snap.initialized = s.initialized
  BY <1>1 DEF Shape
<1> HIDE DEF snap
<1>6. /\ r.snapshot.task = task /\ r.snapshot.focus.version = g
      /\ r.snapshot.focus.session = session /\ r.snapshot.initialized = s.initialized
      /\ r.used = st.used /\ r.undo = NoUndo
  BY <1>1, <1>5 DEF StateShape, Shape
<1> HIDE DEF r
<1>7. TasksTouched(s, r.snapshot, g)
  BY <1>4, <1>6 DEF TasksTouched, Live, Versions, Fields
<1>8. FocusTouched(s, r.snapshot, g)
  BY <1>3, <1>6 DEF FocusTouched
<1> QED BY <1>2, <1>4, <1>6, <1>7, <1>8 DEF Touched, Live

LEMMA LineageReset ==
  ASSUME NEW st, NEW h, NEW rc, NEW drawn, Good(st, h, rc, drawn),
         Partial(rc, CommandId, Receipt), NEW obs, Lineage(st, h, rc, obs),
         NEW g \in Generation
  PROVE  LET r == ResetGeneration(st, g)
         IN Lineage(r, [n \in {r.snapshot.revision} |-> r.snapshot.history], rc, obs)
<1> DEFINE r == ResetGeneration(st, g)
           h2 == [n \in {r.snapshot.revision} |-> r.snapshot.history]
           s == st.snapshot
           q == r.snapshot
           old == s.history
           new == q.history
           l == Link(g, q)
<1>1. Sound(st) /\ IsChain(old) /\ Begun(st) /\ g \in Token /\ g \notin DOMAIN rc
  BY SoundFacts, DistinctValues DEF Good, Lineage, Token, Partial
<1>2. Sound(r) /\ new = Append(old, l)
  BY <1>1, ResetGenerationSound
<1>3. /\ Touched(s, q, g) /\ Live(q) = Live(s) /\ r.used = st.used /\ r.undo = NoUndo
      /\ q.initialized = s.initialized
  BY <1>1, ResetTouched
<1>4. IsBody(q)
  BY <1>2 DEF Sound, IsState, IsSnapshot
<1>5. l.by = g /\ SameQueue(q, l.result)
  BY <1>4, LinkHolds
<1>6. h2[q.revision] = new
  OBVIOUS
<1> HIDE DEF r, l, h2
<1>7. /\ Len(old) \in Nat /\ Len(new) = Len(old) + 1
      /\ DOMAIN old = 1..Len(old) /\ DOMAIN new = 1..(Len(old) + 1)
      /\ \A i \in DOMAIN old : new[i] = old[i]
      /\ new[Len(old) + 1] = l
  BY <1>1, <1>2, <1>4, Linked DEF l
<1>8. Len(old) # 0
  <2>1. \E x : x \in 1..Len(old)
    BY DEF Good, Ancestry
  <2> QED BY <1>7, <2>1
<1> HIDE DEF old, new
<1>9. Longer(old, new, l)
  BY <1>7, <1>8 DEF Longer
<1>10. /\ SameQueue(s, Last(old)) /\ Threaded(old) /\ Numbered(old, st.used, rc)
       /\ Intended(old, rc, obs)
  BY DEF Lineage, old
<1>11. SameQueue(q, Last(new))
  BY <1>5, <1>7 DEF Last
<1>12. Threaded(new)
  <2>1. Touched(Last(old), l.result, l.by)
    BY <1>3, <1>5, <1>10, SameTouched
  <2> QED BY <1>9, <1>10, <2>1, ThreadedMore
<1>13. Live(l.result) = Live(q) /\ Live(Last(old)) = Live(s)
  BY <1>5, <1>10, SameParts
<1>14. Numbered(new, r.used, rc)
  <2>1. Live(s) \subseteq st.used
    BY <1>1, SoundFacts
  <2> QED BY <1>3, <1>9, <1>10, <1>13, <2>1, NumberedMore
<1>15. Intended(new, rc, obs)
  BY <1>1, <1>5, <1>9, <1>10, IntendedMore
<1>16. Begun(r) /\ Undoes(r) /\ Undoable(r)
  BY <1>1, <1>3 DEF Begun, Undoes, Undoable
<1>17. Lineage(r, h2, rc, obs)
  BY <1>6, <1>11, <1>12, <1>14, <1>15, <1>16 DEF Lineage, new
<1> QED BY <1>17 DEF h2, r

LEMMA LineageNew ==
  ASSUME NEW g \in Generation
  PROVE  LET r == NewState(g)
         IN Lineage(r, [n \in {0} |-> r.snapshot.history], <<>>, {})
<1> DEFINE r == NewState(g)
           h == [n \in {0} |-> r.snapshot.history]
           l == Link(g, r.snapshot)
           c == r.snapshot.history
<1>1. Sound(r) /\ r.snapshot.revision = 0 /\ r.snapshot.history = <<l>>
  BY NewStateSound
<1>2. /\ Live(r.snapshot) = {} /\ r.used = {} /\ r.undo = NoUndo
      /\ r.snapshot.focus.version = g /\ r.snapshot.focus.session = None
  BY DEF NewState, Live
<1>3. IsBody(r.snapshot)
  BY <1>1 DEF Sound, IsState, IsSnapshot
<1>4. l.by = g /\ SameQueue(r.snapshot, l.result)
  BY <1>3, LinkHolds
<1>5. h[0] = c
  OBVIOUS
<1> HIDE DEF r, l, h
<1>6. Len(c) = 1 /\ c[1] = l /\ DOMAIN c = {1}
  BY <1>1
<1>7. Live(l.result) = {}
  BY <1>2, <1>4, SameParts
<1>8. Threaded(c)
  BY <1>2, <1>4, <1>6, <1>7 DEF Threaded, SameQueue
<1>9. Numbered(c, r.used, <<>>) /\ Intended(c, <<>>, {})
  BY <1>6, <1>7 DEF Numbered, Intended
<1>10. Begun(r) /\ Undoes(r) /\ Undoable(r)
  BY <1>2 DEF Begun, Undoes, Undoable
<1>11. Lineage(r, h, <<>>, {})
  BY <1>1, <1>4, <1>5, <1>6, <1>8, <1>9, <1>10 DEF Lineage, Last
<1> QED BY <1>11 DEF r, h

(***************************************************************************)
(* The inductive invariant and the steps                                   *)
(***************************************************************************)
\* A device sees the queue that the last link of the history holds.
Heard == \A s \in observed : SameQueue(s, Last(s.history))

\* A request that carries a command was composed from a snapshot seen.
Asked(request) == request.checkpoint # None /\ \E snap \in observed : Asks(request, snap)

\* While no backup came back, every checkpoint and every receipt is still there.
Answerable ==
  /\ \A s \in observed :
       /\ s.generation = state.snapshot.generation
       /\ s.revision \in DOMAIN history /\ s.revision <= state.snapshot.revision
       /\ history[s.revision] = s.history
  /\ \A r \in sent :
       /\ r.device \in DOMAIN enrolled /\ r.command.id \in DOMAIN receipts
       /\ receipts[r.command.id].device = r.device
       /\ receipts[r.command.id].command = r.command

Remembered ==
  /\ Sane
  /\ Lineage(state, history, receipts, observed)
  /\ artifact # None =>
       Lineage(artifact.state, artifact.history, artifact.receipts, observed)
  /\ Heard
  /\ \A r \in sent : Asked(r)
  /\ restores = 0 => Answerable

\* What an exchange that is not refused has checked.
Retained(checkpoint) ==
  checkpoint # None =>
    /\ checkpoint.generation = state.snapshot.generation
    /\ checkpoint.revision <= state.snapshot.revision
    /\ checkpoint.revision \in DOMAIN history
    /\ history[checkpoint.revision] = checkpoint.history
Matches(device, command) ==
  command # None /\ command.id \in DOMAIN receipts =>
    /\ receipts[command.id].device = device
    /\ receipts[command.id].command = command

LEMMA Unrefused ==
  ASSUME NEW request
  PROVE  ExchangeError(request) = None <=>
           /\ request.command = None \/ request.checkpoint # None
           /\ request.device \in Holders(request.token)
           /\ Retained(request.checkpoint)
           /\ Matches(request.device, request.command)
<1> USE DistinctValues, ServerConstants DEF Reason, Require, ??
<1>1. CheckpointRefusal(request.checkpoint) = None <=> Retained(request.checkpoint)
  BY DEF CheckpointRefusal, Retained
<1>2. ReceiptRefusal(request.device, request.command) = None
        <=> Matches(request.device, request.command)
  BY DEF ReceiptRefusal, Matches
<1>3. \A x, y : (x ?? y) = None <=> x = None /\ y = None
  OBVIOUS
<1>4. \A P : \A x \in {"Invalid", "Unauthorized"} : Require(P, x) = None <=> P
  OBVIOUS
<1>5. ExchangeError(request) = None <=>
        /\ request.command = None \/ request.checkpoint # None
        /\ request.device \in Holders(request.token)
        /\ CheckpointRefusal(request.checkpoint) = None
        /\ ReceiptRefusal(request.device, request.command) = None
  BY <1>3, <1>4 DEF ExchangeError
<1> QED BY <1>1, <1>2, <1>5

\* Checkpoints are records: none of them is the absent value.
LEMMA CheckpointParts ==
  ASSUME NEW s
  PROVE  /\ Checkpoint(s).generation = s.generation /\ Checkpoint(s).revision = s.revision
         /\ Checkpoint(s).history = s.history
BY DEF Checkpoint

LEMMA InitRemembered == Init => Remembered
<1> SUFFICES ASSUME Init PROVE Remembered
  OBVIOUS
<1> DEFINE g == FreshIn(Generation, {})
<1>1. g \in Generation
  BY Drawing, ServerConstants
<1> HIDE DEF g
<1>2. /\ state = NewState(g) /\ history = [r \in {0} |-> state.snapshot.history]
      /\ receipts = <<>> /\ artifact = None /\ observed = {} /\ sent = {}
  BY DEF Init, ServerInit, g
<1>3. Sane
  BY InitSane
<1>4. Lineage(state, history, receipts, observed)
  BY <1>1, <1>2, LineageNew
<1> QED BY <1>2, <1>3, <1>4 DEF Remembered, Heard, Answerable

\* What a step of the server must do to keep everything answerable.
Extends ==
  /\ state'.snapshot.generation = state.snapshot.generation
  /\ state.snapshot.revision <= state'.snapshot.revision
  /\ \A n \in DOMAIN history : n <= state.snapshot.revision =>
       n \in DOMAIN history' /\ history'[n] = history[n]

LEMMA ServeRemembered ==
  ASSUME Remembered, NEW request, request.command \in Command \cup {None},
         request.device \in Device, Sendable(request), NEW sampled \in Nat,
         Serve(request, sampled)
  PROVE  Remembered'
<1> DEFINE now == ServerTime(sampled)
           c == request.command
<1>1. /\ Sane' /\ Sane
      /\ \A x \in DOMAIN receipts : x \in DOMAIN receipts' /\ receipts'[x] = receipts[x]
  BY ServeSane DEF Remembered, Final
<1>2. /\ lastTime \in Nat /\ Good(state, history, receipts, roots)
      /\ Partial(receipts, CommandId, Receipt) /\ Partial(receipts', CommandId, Receipt)
      /\ Good(state', history', receipts', roots') /\ state.snapshot.revision \in Nat
      /\ Good(artifact.state, artifact.history, artifact.receipts, roots) \/ artifact = None
  <2>1. IsState(state)
    BY <1>1 DEF Sane, Stored, Good, Sound
  <2> QED BY <1>1, <2>1 DEF Sane, Stored, TypeOK, IsDatabase, database, IsState, IsSnapshot, IsBody
<1>3. now \in Nat
  BY <1>2 DEF ServerTime
<1>4. /\ ExchangeError(request) = None
      /\ observed' = observed \cup {state'.snapshot}
      /\ sent' = IF c = None THEN sent ELSE sent \cup {request}
      /\ restores' = restores /\ UNCHANGED <<enrolled, artifact>>
      /\ \/ (c = None \/ c.id \in DOMAIN receipts) /\ UNCHANGED <<state, history, receipts>>
         \/ c # None /\ c.id \notin DOMAIN receipts /\ Execute(request.device, c, now)
  BY DEF Serve, Exchange
<1> HIDE DEF now, c
<1>5. /\ c = None \/ request.checkpoint # None
      /\ request.device \in DOMAIN enrolled
      /\ Retained(request.checkpoint) /\ Matches(request.device, c)
  BY <1>4, Unrefused DEF Holders, c
<1>6. c # None => Asked(request)
  BY <1>5 DEF Sendable, Remembered, Asked, Asks, c
<1>7. c # None /\ IsFocus(c) => Seen(c.guard.revision, history, observed)
  <2> SUFFICES ASSUME c # None, IsFocus(c) PROVE Seen(c.guard.revision, history, observed)
    OBVIOUS
  <2>1. PICK s \in observed : Asks(request, s)
    BY <1>6 DEF Asked
  <2>2. /\ c.guard.revision = s.revision /\ request.checkpoint.revision = s.revision
        /\ request.checkpoint.history = s.history /\ SameQueue(s, Last(s.history))
    BY <2>1, CheckpointParts DEF Asks, Remembered, Heard, c
  <2> QED BY <1>5, <2>2 DEF Retained, Seen
<1>8. /\ Lineage(state', history', receipts', observed') /\ Extends
      /\ c # None => /\ c.id \in DOMAIN receipts' /\ receipts'[c.id].device = request.device
                     /\ receipts'[c.id].command = c
  <2>0. Lineage(state, history, receipts, observed)
    BY DEF Remembered
  <2>1. CASE UNCHANGED <<state, history, receipts>> /\ (c = None \/ c.id \in DOMAIN receipts)
    <3>1. Lineage(state, history, receipts, observed')
      BY <1>2, <1>4, <2>0, LineageMore DEF Partial
    <3> QED BY <1>2, <1>5, <2>1, <3>1 DEF Extends, Matches
  <2>2. CASE c # None /\ c.id \notin DOMAIN receipts /\ Execute(request.device, c, now)
    <3> DEFINE outcome == Outcome(c, now)
               receipt == [device |-> request.device, command |-> c, outcome |-> outcome]
               revision == state.snapshot.revision + 1
    <3>1. /\ receipts' = [x \in DOMAIN receipts \cup {c.id} |->
                            IF x = c.id THEN receipt ELSE receipts[x]]
          /\ receipt.command = c /\ receipt.device = request.device
          /\ c \in Command
      BY <2>2 DEF Execute, c
    <3>2. outcome \in {Applied(revision), Rejected(Refusal(state, c, now))}
          /\ (outcome.status = "applied" => Refusal(state, c, now) = None
                                            /\ outcome.revision = revision)
      BY DEF Outcome, Applied, Rejected
    <3> HIDE DEF receipt
    <3>3. /\ c.id \in DOMAIN receipts' /\ receipts'[c.id] = receipt
      BY <3>1
    <3>4. CASE outcome.status = "applied"
      <4>1. /\ state' = Apply(state, c, now) /\ Refusal(state, c, now) = None
            /\ history' = [n \in DOMAIN history \cup {revision} |->
                 IF n = revision THEN Apply(state, c, now).snapshot.history ELSE history[n]]
        BY <2>2, <3>2, <3>4 DEF Execute
      <4> HIDE DEF outcome
      <4>2. observed \subseteq observed'
        BY <1>4
      <4>3. Lineage(state', history', receipts', observed')
        BY <1>2, <1>3, <1>7, <2>0, <2>2, <3>1, <4>1, <4>2, LineageExecute
      <4>4. /\ state'.snapshot.generation = state.snapshot.generation
            /\ state'.snapshot.revision = revision
        BY <1>2, <1>3, <3>1, <4>1, ApplySound DEF Good
      <4>5. Extends
        BY <1>2, <4>1, <4>4 DEF Extends
      <4> QED BY <3>1, <3>3, <4>3, <4>5
    <3>5. CASE outcome.status # "applied"
      <4>1. UNCHANGED <<state, history>>
        BY <2>2, <3>5 DEF Execute
      <4>2. Lineage(state, history, receipts', observed')
        BY <1>1, <1>2, <1>4, <2>0, LineageMore DEF Partial
      <4> QED BY <1>2, <3>1, <3>3, <4>1, <4>2 DEF Extends
    <3> QED BY <3>4, <3>5
  <2> QED BY <1>4, <2>1, <2>2
<1>9. artifact' # None =>
        Lineage(artifact'.state, artifact'.history, artifact'.receipts, observed')
  <2> SUFFICES ASSUME artifact # None
               PROVE  Lineage(artifact.state, artifact.history, artifact.receipts, observed')
    BY <1>4
  <2>1. Partial(artifact.receipts, CommandId, Receipt)
    BY <1>1 DEF Sane, Stored, TypeOK, IsDatabase
  <2> QED BY <1>2, <1>4, <2>1, LineageMore DEF Remembered, Partial
<1>10. Heard'
  <2>1. SameQueue(state'.snapshot, Last(state'.snapshot.history))
    BY <1>8 DEF Lineage
  <2> QED BY <1>4, <2>1 DEF Remembered, Heard
<1>11. \A r \in sent' : Asked(r)'
  BY <1>4, <1>6 DEF Remembered, Asked
<1>12. restores' = 0 => Answerable'
  <2> SUFFICES ASSUME restores = 0 PROVE Answerable'
    BY <1>4
  <2>1. Answerable
    BY DEF Remembered
  <2>2. ASSUME NEW s \in observed'
        PROVE  /\ s.generation = state'.snapshot.generation
               /\ s.revision \in DOMAIN history' /\ s.revision <= state'.snapshot.revision
               /\ history'[s.revision] = s.history
    <3>1. CASE s = state'.snapshot
      <4>1. s.revision \in DOMAIN history' /\ s.revision \in Nat
        <5>1. IsState(state')
          BY <1>2 DEF Good, Sound
        <5> QED BY <1>2, <3>1, <5>1 DEF Good, Ancestry, IsState, IsSnapshot, IsBody
      <4> QED BY <1>8, <3>1, <4>1 DEF Lineage
    <3>2. CASE s \in observed
      <4>1. /\ s.generation = state.snapshot.generation
            /\ s.revision \in DOMAIN history /\ s.revision <= state.snapshot.revision
            /\ history[s.revision] = s.history
        BY <2>1, <3>2 DEF Answerable
      <4>2. s.revision \in Nat /\ state'.snapshot.revision \in Nat
        <5>1. IsSnapshot(s) /\ IsState(state')
          BY <1>1, <1>2, <3>2 DEF Sane, Stored, TypeOK, Good, Sound
        <5> QED BY <5>1 DEF IsSnapshot, IsBody, IsState
      <4> QED BY <1>2, <1>8, <4>1, <4>2 DEF Extends
    <3> QED BY <1>4, <3>1, <3>2
  <2>3. ASSUME NEW r \in sent'
        PROVE  /\ r.device \in DOMAIN enrolled' /\ r.command.id \in DOMAIN receipts'
               /\ receipts'[r.command.id].device = r.device
               /\ receipts'[r.command.id].command = r.command
    <3>1. CASE r \in sent
      BY <1>1, <1>4, <2>1, <3>1 DEF Answerable
    <3>2. CASE c # None /\ r = request
      BY <1>4, <1>5, <1>8, <3>2 DEF c
    <3> QED BY <1>4, <3>1, <3>2
  <2> QED BY <2>2, <2>3 DEF Answerable
<1> QED BY <1>1, <1>8, <1>9, <1>10, <1>11, <1>12 DEF Remembered

LEMMA NextRemembered ==
  ASSUME Remembered, [Next]_vars
  PROVE  Remembered'
<1>1. Sane' /\ Sane
  BY NextSane DEF Remembered
<1>2. ASSUME NEW request, NEW now \in Nat, request.command \in Command \cup {None},
             request.device \in Device, Sendable(request), Serve(request, now)
      PROVE  Remembered'
  BY <1>2, ServeRemembered
<1>3. ASSUME UNCHANGED <<server, observed, sent, restores>>,
             artifact' = artifact \/ artifact' = database,
             DOMAIN enrolled \subseteq DOMAIN enrolled'
      PROVE  Remembered'
  <2>1. /\ UNCHANGED <<state, history, receipts, observed, sent, restores>>
        /\ database.state = state /\ database.history = history /\ database.receipts = receipts
    BY <1>3 DEF server, database
  <2>2. Lineage(state', history', receipts', observed')
    BY <2>1 DEF Remembered
  <2>3. artifact' # None =>
          Lineage(artifact'.state, artifact'.history, artifact'.receipts, observed')
    BY <1>3, <2>1 DEF Remembered
  <2>4. Heard' /\ \A r \in sent' : Asked(r)'
    BY <2>1 DEF Remembered, Heard, Asked
  <2>5. restores' = 0 => Answerable'
    BY <1>3, <2>1 DEF Remembered, Answerable
  <2> QED BY <1>1, <2>2, <2>3, <2>4, <2>5 DEF Remembered
<1>4. ASSUME Administer
      PROVE  Remembered'
  <2>1. UNCHANGED <<server, observed, sent, restores>>
        /\ (artifact' = artifact \/ artifact' = database)
    BY <1>4 DEF Administer, Enroll, Rotate, Issue, Revoke, Backup
  <2>2. DOMAIN enrolled \subseteq DOMAIN enrolled'
    BY <1>4 DEF Administer, Enroll, Rotate, Issue, Revoke, Backup
  <2> QED BY <1>3, <2>1, <2>2
<1>5. ASSUME Restore
      PROVE  Remembered'
  <2>1. /\ artifact # None /\ restores' = restores + 1 /\ UNCHANGED <<observed, sent, artifact>>
        /\ receipts' = artifact.receipts
        /\ Good(artifact.state, artifact.history, artifact.receipts, roots)
        /\ Partial(artifact.receipts, CommandId, Receipt)
        /\ Lineage(artifact.state, artifact.history, artifact.receipts, observed)
    BY <1>1, <1>5 DEF Restore, RawRestore, RestoreGeneration, Sane, Stored, TypeOK, IsDatabase, Remembered
  <2>2. restores' # 0
    BY <1>1, <2>1 DEF Sane, Stored, TypeOK
  <2>3. Lineage(state', history', receipts', observed')
    <3>1. CASE RawRestore
      BY <2>1, <3>1 DEF RawRestore
    <3>2. CASE RestoreGeneration
      <4> DEFINE g == FreshIn(Generation, roots)
      <4>1. g \in Generation
        BY <3>2, Drawing DEF RestoreGeneration
      <4>2. /\ state' = ResetGeneration(artifact.state, g)
            /\ history' = [r \in {state'.snapshot.revision} |-> state'.snapshot.history]
        BY <3>2 DEF RestoreGeneration
      <4> HIDE DEF g
      <4> QED BY <2>1, <4>1, <4>2, LineageReset
    <3> QED BY <1>5, <3>1, <3>2 DEF Restore
  <2>4. Heard' /\ \A r \in sent' : Asked(r)'
    BY <2>1 DEF Remembered, Heard, Asked
  <2> QED BY <1>1, <2>1, <2>2, <2>3, <2>4 DEF Remembered
<1>6. ASSUME UNCHANGED vars
      PROVE  Remembered'
  BY <1>3, <1>6 DEF vars, serverVars
<1> QED BY <1>1, <1>2, <1>4, <1>5, <1>6, NextKinds

(***************************************************************************)
(* Where a token comes from                                                *)
(***************************************************************************)
\* T[i] are the tokens of link i, each with the command that gave it third.
Given(T, c) ==
  /\ \A x \in T[1] : x[3] = c[1].by
  /\ \A i \in 2..Len(c) : \A x \in T[i] : x[3] = c[i].by \/ x \in T[i - 1]
\* A link gave x, which was never away between it and link m.
SinceGiven(T, c, m, x) == \E l \in 1..m : c[l].by = x[3] /\ \A p \in l..m : x \in T[p]

LEMMA GivenBy ==
  ASSUME NEW T, NEW c, Len(c) \in Nat, Given(T, c), NEW m \in 1..Len(c), NEW x \in T[m]
  PROVE  SinceGiven(T, c, m, x)
<1> USE DEF Given, SinceGiven
<1> DEFINE Since == {p \in 1..m : \A q \in p..m : x \in T[q]}
           l == Least(Since)
<1>1. m \in Since /\ Since \in SUBSET (1..m) /\ m \in Nat
  OBVIOUS
<1>2. l \in Since /\ \A p \in Since : l <= p
  BY <1>1, LeastExists
<1> HIDE DEF l
<1>3. l \in 1..m /\ \A q \in l..m : x \in T[q]
  BY <1>2
<1>4. CASE l = 1
  BY <1>3, <1>4
<1>5. CASE l # 1
  <2>1. l - 1 \in 1..m /\ l - 1 \notin Since /\ l \in 2..Len(c)
    BY <1>2, <1>3, <1>5
  <2>2. x \notin T[l - 1]
    <3>1. \A q \in (l - 1)..m : q = l - 1 \/ q \in l..m
      BY <1>3
    <3> QED BY <1>3, <2>1, <3>1
  <2> QED BY <1>3, <2>1, <2>2
<1> QED BY <1>4, <1>5

\* A field's token with what it is bound to.
Bound(snap) ==
  {<<t, f, snap.task[t].versions[f], Content(snap, t, f)>> : t \in Live(snap), f \in Fields}

LEMMA TokensThreaded ==
  ASSUME NEW s, NEW q, NEW by, Touched(s, q, by)
  PROVE  /\ \A x \in Tokens(q) : x[3] = by \/ x \in Tokens(s)
         /\ \A x \in Bound(q) : x[3] = by \/ x \in Bound(s)
<1>1. ASSUME NEW x \in Tokens(q) PROVE x[3] = by \/ x \in Tokens(s)
  <2>1. CASE \E t \in Live(q), f \in Fields : x = <<t, f, q.task[t].versions[f]>>
    <3>1. PICK t \in Live(q), f \in Fields : x = <<t, f, q.task[t].versions[f]>>
      BY <2>1
    <3>2. \/ q.task[t].versions[f] = by
          \/ t \in Live(s) /\ q.task[t].versions[f] = s.task[t].versions[f]
      BY DEF Touched, TasksTouched
    <3> QED BY <3>1, <3>2 DEF Tokens, Fields
  <2>2. CASE q.focus.session # None /\ x = <<"session", SessionTask(q), SessionId(q)>>
    BY <2>2 DEF Touched, FocusTouched, Tokens, SessionTask, SessionId
  <2>3. CASE x = <<"focus", "version", q.focus.version>>
    BY <2>3 DEF Touched, FocusTouched, Tokens
  <2> QED BY <2>1, <2>2, <2>3 DEF Tokens, Fields
<1>2. ASSUME NEW x \in Bound(q) PROVE x[3] = by \/ x \in Bound(s)
  <2>1. PICK t \in Live(q), f \in Fields :
          x = <<t, f, q.task[t].versions[f], Content(q, t, f)>>
    BY DEF Bound
  <2>2. \/ q.task[t].versions[f] = by
        \/ /\ t \in Live(s) /\ q.task[t].versions[f] = s.task[t].versions[f]
           /\ Content(q, t, f) = Content(s, t, f)
    BY DEF Touched, TasksTouched
  <2> QED BY <2>1, <2>2 DEF Bound
<1> QED BY <1>1, <1>2

\* A token and its field's content have one beginning and no return.
LEMMA TokensOfChain ==
  ASSUME NEW c, Len(c) \in Nat, Threaded(c), NEW m \in 1..Len(c)
  PROVE  LET T == [i \in 1..Len(c) |-> Tokens(c[i].result)]
             B == [i \in 1..Len(c) |-> Bound(c[i].result)]
         IN /\ \A x \in Tokens(c[m].result) : SinceGiven(T, c, m, x)
            /\ \A x \in Bound(c[m].result) : SinceGiven(B, c, m, x)
<1> DEFINE T == [i \in 1..Len(c) |-> Tokens(c[i].result)]
           B == [i \in 1..Len(c) |-> Bound(c[i].result)]
<1>1. \A i \in 2..Len(c) : i - 1 \in 1..Len(c)
  OBVIOUS
<1>2. \A x \in T[1] : x[3] = c[1].by
  BY DEF Threaded, Tokens
<1>3. B[1] = {}
  BY DEF Threaded, Bound
<1>4. Given(T, c) /\ Given(B, c)
  <2>1. ASSUME NEW i \in 2..Len(c)
        PROVE  /\ \A x \in T[i] : x[3] = c[i].by \/ x \in T[i - 1]
               /\ \A x \in B[i] : x[3] = c[i].by \/ x \in B[i - 1]
    <3>1. Touched(c[i - 1].result, c[i].result, c[i].by)
      BY DEF Threaded
    <3>2. /\ T[i] = Tokens(c[i].result) /\ T[i - 1] = Tokens(c[i - 1].result)
          /\ B[i] = Bound(c[i].result) /\ B[i - 1] = Bound(c[i - 1].result)
      BY <1>1
    <3> HIDE DEF T, B
    <3> QED BY <3>1, <3>2, TokensThreaded
  <2> HIDE DEF T, B
  <2> QED BY <1>2, <1>3, <2>1 DEF Given
<1>5. T[m] = Tokens(c[m].result) /\ B[m] = Bound(c[m].result)
  OBVIOUS
<1> HIDE DEF T, B
<1>6. \A x \in T[m] : SinceGiven(T, c, m, x)
  BY <1>4, GivenBy
<1>7. \A x \in B[m] : SinceGiven(B, c, m, x)
  BY <1>4, GivenBy
<1> QED BY <1>5, <1>6, <1>7 DEF T, B

(***************************************************************************)
(* What the history tells                                                  *)
(***************************************************************************)
LEMMA SpecRemembered == Spec => []Remembered
BY InitRemembered, NextRemembered, PTL DEF Spec

LEMMA ChainFacts ==
  ASSUME Remembered
  PROVE  /\ Len(chain) \in Nat /\ DOMAIN chain = 1..Len(chain)
         /\ \A i, j \in DOMAIN chain : chain[i].by = chain[j].by => i = j
         /\ Threaded(chain) /\ Numbered(chain, state.used, receipts)
         /\ Intended(chain, receipts, observed)
<1>1. IsChain(chain)
  BY SoundFacts DEF Remembered, Sane, Stored, Good, chain
<1>2. chain \in Seq({chain[i] : i \in DOMAIN chain})
  BY <1>1 DEF IsChain
<1> QED BY <1>2, LenProperties DEF Remembered, Sane, Stored, Good, OneEffect, Lineage, chain

\* A superseded token never names its field again: no command aimed at an earlier
\* incarnation of a task, a session or the focus is ever accepted for a later one.
THEOREM SpecTokensNeverReturn == Spec => []TokensNeverReturn
<1>1. Remembered => TokensNeverReturn
  <2> SUFFICES ASSUME Remembered, NEW i \in DOMAIN chain, NEW j \in DOMAIN chain,
                      NEW k \in DOMAIN chain, i < j, j < k,
                      NEW x \in Tokens(Snap(i)), x \in Tokens(Snap(k))
               PROVE  x \in Tokens(Snap(j))
    BY DEF TokensNeverReturn
  <2> DEFINE T == [p \in 1..Len(chain) |-> Tokens(chain[p].result)]
  <2>1. /\ Len(chain) \in Nat /\ DOMAIN chain = 1..Len(chain) /\ Threaded(chain)
        /\ \A p, q \in DOMAIN chain : chain[p].by = chain[q].by => p = q
    BY ChainFacts
  <2>2. SinceGiven(T, chain, i, x) /\ SinceGiven(T, chain, k, x)
    BY <2>1, TokensOfChain DEF Snap
  <2>3. T[j] = Tokens(Snap(j))
    BY <2>1 DEF Snap
  <2> HIDE DEF T
  <2>4. PICK l \in 1..i : chain[l].by = x[3]
    BY <2>2 DEF SinceGiven
  <2>5. PICK m \in 1..k : chain[m].by = x[3] /\ \A p \in m..k : x \in T[p]
    BY <2>2 DEF SinceGiven
  <2>6. l = m
    BY <2>1, <2>4, <2>5
  <2>7. j \in m..k
    BY <2>1, <2>4, <2>6
  <2> QED BY <2>3, <2>5, <2>7
<1> QED BY <1>1, SpecRemembered, PTL

\* What a token protects does not change under it: two queues of the history in which
\* a field has the same token have the same content there.
THEOREM SpecTokensBindContent == Spec => []TokensBindContent
<1>1. Remembered => TokensBindContent
  <2> SUFFICES ASSUME Remembered, NEW i \in DOMAIN chain, NEW j \in DOMAIN chain,
                      NEW t \in Live(Snap(i)) \cap Live(Snap(j)), NEW f \in Fields,
                      Snap(i).task[t].versions[f] = Snap(j).task[t].versions[f]
               PROVE  Content(Snap(i), t, f) = Content(Snap(j), t, f)
    BY DEF TokensBindContent, Fields
  <2> DEFINE B == [p \in 1..Len(chain) |-> Bound(chain[p].result)]
             x == <<t, f, Snap(i).task[t].versions[f], Content(Snap(i), t, f)>>
             y == <<t, f, Snap(j).task[t].versions[f], Content(Snap(j), t, f)>>
  <2>1. /\ Len(chain) \in Nat /\ DOMAIN chain = 1..Len(chain) /\ Threaded(chain)
        /\ \A p, q \in DOMAIN chain : chain[p].by = chain[q].by => p = q
    BY ChainFacts
  <2>2. x \in Bound(Snap(i)) /\ y \in Bound(Snap(j)) /\ x[3] = y[3]
    BY DEF Bound
  <2>3. \A l \in DOMAIN chain : B[l] = Bound(chain[l].result)
    BY <2>1
  <2> HIDE DEF x, y
  <2>4. SinceGiven(B, chain, i, x) /\ SinceGiven(B, chain, j, y)
    BY <2>1, <2>2, TokensOfChain DEF Snap
  <2> HIDE DEF B
  <2>5. PICK l \in 1..i : chain[l].by = x[3] /\ x \in B[l]
    BY <2>1, <2>4 DEF SinceGiven
  <2>6. PICK m \in 1..j : chain[m].by = y[3] /\ y \in B[m]
    BY <2>1, <2>4 DEF SinceGiven
  <2>7. l = m /\ l \in DOMAIN chain
    BY <2>1, <2>2, <2>5, <2>6
  <2>8. x \in Bound(chain[l].result) /\ y \in Bound(chain[l].result)
    BY <2>3, <2>5, <2>6, <2>7
  <2>9. x = y
    <3>1. PICK u \in Live(chain[l].result), g \in Fields :
            x = <<u, g, chain[l].result.task[u].versions[g], Content(chain[l].result, u, g)>>
      BY <2>8 DEF Bound
    <3>2. PICK v \in Live(chain[l].result), h \in Fields :
            y = <<v, h, chain[l].result.task[v].versions[h], Content(chain[l].result, v, h)>>
      BY <2>8 DEF Bound
    <3>3. u = t /\ g = f /\ v = t /\ h = f
      BY <3>1, <3>2 DEF x, y
    <3> QED BY <3>1, <3>2, <3>3
  <2> QED BY <2>9 DEF x, y
<1> QED BY <1>1, SpecRemembered, PTL

\* A task that left the queue is back only if an undo brought it back.
THEOREM SpecOnlyUndoResurrects == Spec => []OnlyUndoResurrects
<1>1. Remembered => OnlyUndoResurrects
  <2> SUFFICES ASSUME Remembered, NEW i \in DOMAIN chain, NEW k \in DOMAIN chain, i < k,
                      NEW t \in Live(Snap(i)) \cap Live(Snap(k)),
                      NEW j \in i..k, t \notin Live(Snap(j))
               PROVE  \E m \in (i + 1)..k : /\ chain[m].by \in DOMAIN receipts
                                           /\ IsUndo(receipts[chain[m].by].command)
    BY DEF OnlyUndoResurrects
  <2>1. /\ Len(chain) \in Nat /\ DOMAIN chain = 1..Len(chain)
        /\ Numbered(chain, state.used, receipts)
    BY ChainFacts
  <2> DEFINE Back == {p \in 1..k : j < p /\ t \in Live(Snap(p))}
             m == Least(Back)
  <2>2. j # i /\ j # k /\ i \in 1..Len(chain) /\ k \in 1..Len(chain) /\ j \in 1..Len(chain)
    BY <2>1
  <2>3. k \in Back /\ Back \in SUBSET (1..k) /\ k \in Nat
    BY <2>2
  <2>4. m \in Back /\ \A p \in Back : m <= p
    BY <2>3, LeastExists
  <2> HIDE DEF m
  <2>5. m \in 2..Len(chain) /\ m \in (i + 1)..k /\ i \in 1..(m - 1) /\ t \in Live(Snap(m))
    BY <2>2, <2>4
  <2>6. t \notin Live(Snap(m - 1))
    <3>1. m - 1 \notin Back
      BY <2>4, <2>5
    <3> QED BY <2>2, <2>4, <2>5, <3>1
  <2>7. Undoing(chain[m].by, receipts)
    BY <2>1, <2>5, <2>6 DEF Numbered, Snap
  <2> QED BY <2>5, <2>7 DEF Undoing
<1> QED BY <1>1, SpecRemembered, PTL

\* An accepted focus command acted on the queue its device was looking at, and only
\* the task it names may have left: a repeated Complete never takes the successor.
THEOREM SpecFocusActsOnWhatWasSeen == Spec => []FocusActsOnWhatWasSeen
<1>1. Remembered => FocusActsOnWhatWasSeen
  <2> SUFFICES ASSUME Remembered, NEW i \in DOMAIN chain, chain[i].by \in DOMAIN receipts,
                      IsFocus(receipts[chain[i].by].command)
               PROVE  LET c == receipts[chain[i].by].command
                          before == Snap(i - 1)
                      IN /\ \E s \in observed : /\ s.revision = c.guard.revision
                                               /\ Visible(s) = Visible(before)
                         /\ SessionTask(before) = c.guard.task
                         /\ Live(before) \ Live(Snap(i)) =
                              IF c.action.op \in {"Complete", "Remove"} THEN {c.guard.task} ELSE {}
    BY DEF FocusActsOnWhatWasSeen
  <2> DEFINE c == receipts[chain[i].by].command
  <2>1. Aimed(chain, i, c, observed)
    BY ChainFacts DEF Intended
  <2>2. PICK s \in observed : s.revision = c.guard.revision /\ SameQueue(s, Snap(i - 1))
    BY <2>1 DEF Aimed, Snap
  <2>3. Visible(s) = Visible(Snap(i - 1))
    BY <2>2, SameParts
  <2> QED BY <2>1, <2>2, <2>3 DEF Aimed, Leaves, Snap
<1> QED BY <1>1, SpecRemembered, PTL

\* An undo follows the completion it names and gives back what was to be seen before it.
THEOREM SpecUndoIsExact == Spec => []UndoIsExact
<1>1. Remembered => UndoIsExact
  BY ChainFacts DEF Intended, Exact, UndoIsExact, Snap
<1> QED BY <1>1, SpecRemembered, PTL

\* While no backup came back a repeated request of an unrevoked device is answered.
THEOREM SpecRetryAnswered == Spec => []RetryAnswered
<1>1. Remembered => RetryAnswered
  <2> SUFFICES ASSUME Remembered, restores = 0, NEW r \in sent, ~enrolled[r.device].revoked
               PROVE  ExchangeError([r EXCEPT !.token = enrolled[r.device].token]) = None
    BY DEF RetryAnswered
  <2> DEFINE q == [r EXCEPT !.token = enrolled[r.device].token]
  <2>1. q.device = r.device /\ q.command = r.command /\ q.checkpoint = r.checkpoint
    OBVIOUS
  <2>2. q.token = enrolled[r.device].token
    OBVIOUS
  <2> HIDE DEF q
  <2>3. Answerable /\ Asked(r)
    BY DEF Remembered
  <2>4. PICK s \in observed : r.checkpoint = Checkpoint(s)
    BY <2>3 DEF Asked, Asks
  <2>5. Retained(q.checkpoint)
    BY <2>1, <2>3, <2>4, CheckpointParts DEF Retained, Answerable
  <2>6. Matches(q.device, q.command) /\ q.device \in Holders(q.token)
    BY <2>1, <2>2, <2>3 DEF Matches, Holders, Answerable
  <2>7. q.checkpoint # None
    BY <2>1, <2>3 DEF Asked
  <2> QED BY <2>5, <2>6, <2>7, Unrefused DEF q
<1> QED BY <1>1, SpecRemembered, PTL
=============================================================================
