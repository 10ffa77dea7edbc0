----------------------------- MODULE SyncProofs -----------------------------
(***************************************************************************)
(* Sync as a whole: what devices promise and send, over a network that     *)
(* loses and repeats, disks that fail and backups that come back.          *)
(***************************************************************************)
EXTENDS QueueSync, ServerProofs

(***************************************************************************)
(* Chains that begin with other chains                                     *)
(***************************************************************************)
\* A beginning is a prefix, and as long as the whole it is the whole.
LEMMA BeginsWith ==
  ASSUME NEW g, IsChain(g), NEW h, IsChain(h), Begins(g, h)
  PROVE  /\ g = SubSeq(h, 1, Len(g)) /\ Sq!IsPrefix(g, h)
         /\ Len(g) = Len(h) => g = h
<1> DEFINE S == {h[i] : i \in DOMAIN h}
           part == SubSeq(h, 1, Len(g))
<1>1. /\ Len(g) \in Nat /\ DOMAIN g = 1..Len(g) /\ Len(h) \in Nat /\ DOMAIN h = 1..Len(h)
      /\ Len(g) <= Len(h) /\ \A i \in 1..Len(g) : g[i] = h[i] /\ h[i] \in S
  BY ChainLength DEF Begins
<1>2. h \in Seq(S)
  BY DEF IsChain
<1>3. g \in Seq(S)
  <2>1. g \in Seq({g[i] : i \in DOMAIN g})
    BY DEF IsChain
  <2>2. g \in [1..Len(g) -> {g[i] : i \in DOMAIN g}]
    BY <2>1, LenProperties
  <2>3. g \in [1..Len(g) -> S]
    BY <1>1, <2>2
  <2> QED BY <1>1, <2>3
<1> HIDE DEF S
<1>4. part \in Seq(S) /\ Len(part) = Len(g) /\ \A i \in 1..Len(g) : part[i] = h[i]
  <2>1. Len(g) \in Int /\ 1 \in Int /\ \A i \in 1..Len(g) : h[i] \in S
    BY <1>1
  <2> QED BY <1>1, <2>1, SubSeqProperties
<1>5. g = part
  BY <1>1, <1>3, <1>4, SeqEqual
<1>6. Len(g) = Len(h) => g = h
  BY <1>1, <1>2, <1>3, SeqEqual
<1>7. SubSeq(g, 1, Len(g)) = g
  BY <1>3, SubSeqFull
<1> QED BY <1>1, <1>5, <1>6, <1>7 DEF Sq!IsPrefix

(***************************************************************************)
(* The queue a device shows                                                *)
(***************************************************************************)
LEMMA Induction ==
  ASSUME NEW n \in Nat, NEW S, 0 \in S, \A i \in 1..n : i - 1 \in S => i \in S
  PROVE  \A i \in 0..n : i \in S
<1> DEFINE I == {i \in 1..n : i \notin S}
<1> SUFFICES I = {}
  OBVIOUS
<1> SUFFICES ASSUME I # {} PROVE FALSE
  OBVIOUS
<1>1. I \in SUBSET (1..n)
  OBVIOUS
<1>2. Least(I) \in I /\ \A j \in I : Least(I) <= j
  BY <1>1, LeastExists
<1> DEFINE m == Least(I)
<1>3. m \in 1..n /\ m \notin S
  BY <1>2
<1> HIDE DEF m
<1>4. m - 1 \notin I
  BY <1>2, <1>3 DEF m
<1>5. m - 1 \in S
  <2>1. m = 1 \/ m - 1 \in 1..n
    BY <1>3
  <2> QED BY <1>4, <2>1
<1> QED BY <1>3, <1>5

\* Where a forecast starts, and what it makes of one command.
Confirmed(e) ==
  [state |-> [snapshot |-> [e.confirmed EXCEPT !.undo = None],
              used |-> (DOMAIN e.handles \ Created(e.pending)) \cup Live(e.confirmed),
              undo |-> NoUndo],
   conflicts |-> {}]
Foreseen(time, view, command) ==
  IF IsFocus(command) THEN view
  ELSE IF Refusal(view.state, command, time) = None
  THEN [view EXCEPT !.state = Apply(@, command, time)]
  ELSE [view EXCEPT !.conflicts = @ \cup {command.id}]

\* The edits one after the other, at one time.
IsRun(first, time, commands, after) ==
  after = [n \in 0..Len(commands) |->
             IF n = 0 THEN first ELSE Foreseen(time, after[n - 1], commands[n])]

LEMMA Runs ==
  ASSUME NEW first, NEW time, NEW commands, Len(commands) \in Nat
  PROVE  \E after : IsRun(first, time, commands, after)
<1> DEFINE N == Len(commands)
           Upto(m, after) ==
             after = [n \in 0..m |->
                        IF n = 0 THEN first ELSE Foreseen(time, after[n - 1], commands[n])]
           S == {m \in 0..N : \E after : Upto(m, after)}
<1>1. 0 \in S
  <2> DEFINE after == [n \in 0..0 |-> first]
  <2>1. after = [n \in 0..0 |->
          IF n = 0 THEN first ELSE Foreseen(time, after[n - 1], commands[n])]
    OBVIOUS
  <2> HIDE DEF after
  <2> QED BY <2>1
<1>2. ASSUME NEW m \in 1..N, m - 1 \in S PROVE m \in S
  <2>1. PICK before : Upto(m - 1, before)
    BY <1>2
  <2> DEFINE after == [n \in 0..m |->
          IF n = m THEN Foreseen(time, before[m - 1], commands[m]) ELSE before[n]]
  <2>2. \A n \in 0..m : after[n] =
          IF n = 0 THEN first ELSE Foreseen(time, after[n - 1], commands[n])
    <3> SUFFICES ASSUME NEW n \in 0..m
                 PROVE  after[n] = IF n = 0 THEN first
                                   ELSE Foreseen(time, after[n - 1], commands[n])
      OBVIOUS
    <3>1. CASE n = m
      BY <3>1
    <3>2. CASE n # m
      <4>1. n \in 0..(m - 1) /\ after[n] = before[n] /\ (n # 0 => after[n - 1] = before[n - 1])
        BY <3>2
      <4>2. before[n] = IF n = 0 THEN first ELSE Foreseen(time, before[n - 1], commands[n])
        BY <2>1, <4>1
      <4> QED BY <4>1, <4>2
    <3> QED BY <3>1, <3>2
  <2>3. after = [n \in 0..m |-> after[n]]
    OBVIOUS
  <2> HIDE DEF after
  <2>4. Upto(m, after)
    BY <2>2, <2>3
  <2> QED BY <2>4
<1> HIDE DEF S
<1>3. N \in S
  <2>1. N \in Nat /\ N \in 0..N
    OBVIOUS
  <2>2. \A m \in 1..N : m - 1 \in S => m \in S
    BY <1>2
  <2> HIDE DEF N
  <2>3. \A m \in 0..N : m \in S
    BY <1>1, <2>1, <2>2, Induction
  <2> QED BY <2>1, <2>3
<1> QED BY <1>3 DEF S, IsRun

LEMMA RunSteps ==
  ASSUME NEW first, NEW time, NEW commands, Len(commands) \in Nat,
         NEW after, IsRun(first, time, commands, after)
  PROVE  /\ after[0] = first
         /\ \A n \in 1..Len(commands) : after[n] = Foreseen(time, after[n - 1], commands[n])
BY DEF IsRun

LEMMA ForecastRuns ==
  ASSUME NEW e, Len(e.pending) \in Nat
  PROVE  \E after : /\ IsRun(Confirmed(e), e.time, e.pending, after)
                    /\ Projection(e) = after[Len(e.pending)]
<1>1. \E after : IsRun(Confirmed(e), e.time, e.pending, after)
  BY Runs
<1> QED BY <1>1 DEF Projection, Forecasted, IsRun, Confirmed, Foreseen

(***************************************************************************)
(* Intents and envelopes                                                   *)
(***************************************************************************)
\* An intent that stands on `snap`: on an ancestor of it, and a focus command on `snap`
\* itself or on one that is gone.
Aimed(intent, snap) ==
  /\ Begins(intent.base, snap.history)
  /\ IsFocus(intent.command) =>
       \/ intent.base = snap.history /\ intent.command.guard.revision = snap.revision
       \/ intent.command.guard.revision < snap.revision

\* A command is what a user of device d asked.
Meant(made, d, command) ==
  /\ command.id \in DOMAIN made
  /\ made[command.id].device = d /\ made[command.id].command = command

IsMade(made) ==
  /\ DOMAIN made \subseteq CommandId \ {Founding.id}
  /\ \A c \in DOMAIN made :
       /\ made[c].device \in Device /\ made[c].command \in Command /\ made[c].command.id = c
       /\ made[c].command.action.op # "Initialize" /\ IsChain(made[c].base)

EnvelopeFields == {"device", "confirmed", "time", "pending", "handles", "nextHandle",
                   "recovery", "suspension", "settled"}

IsEnvelope(e) ==
  /\ DOMAIN e = EnvelopeFields
  /\ IsSnapshot(e.confirmed) /\ SnapshotValid(e.confirmed) /\ e.time \in Nat
  /\ DOMAIN e.handles \subseteq TaskId
  /\ e.pending \in Seq(Command)
  /\ \E S : e.recovery \in Seq(S)
  /\ \A i \in DOMAIN e.recovery : e.recovery[i].command \in Command

EnvelopeOK(made, d, e) ==
  /\ IsEnvelope(e) /\ e.device = d
  /\ \A i \in DOMAIN e.pending :
       /\ Meant(made, d, e.pending[i])
       /\ Aimed(made[e.pending[i].id], e.confirmed)
  /\ \A i, j \in DOMAIN e.pending : e.pending[i].id = e.pending[j].id => i = j

LEMMA CreatedTyped ==
  ASSUME NEW c \in Command
  PROVE  CreatedTask(c) \in TaskId \cup {None}
<1>1. c.action \in Queued \cup Seeding \cup Focused
  BY DEF Command
<1>2. c.action \in Seeding => c.action.op \notin {"Create", "CreateNow"}
  BY DEF Seeding
<1>3. c.action \in Queued /\ c.action.op \in {"Create", "CreateNow"} => c.action.task \in TaskId
  BY DEF Queued
<1>4. c.action \in Focused /\ c.action.op \in {"Create", "CreateNow"} => c.action.task \in TaskId
  BY DEF Focused
<1> QED BY <1>1, <1>2, <1>3, <1>4 DEF CreatedTask

\* The commands an envelope holds.
Held(e) == {e.recovery[i].command.id : i \in DOMAIN e.recovery}

LEMMA IntentsHeld ==
  ASSUME NEW e, IsEnvelope(e)
  PROVE  /\ Ids(Intents(e)) = Ids(e.pending) \cup Held(e)
         /\ \A i \in DOMAIN Intents(e) : Intents(e)[i] \in Command
<1> DEFINE kept == [i \in DOMAIN e.recovery |-> e.recovery[i].command]
           n == Len(e.pending)
           m == Len(e.recovery)
           all == e.pending \o kept
<1>1. DOMAIN e.recovery = 1..m /\ m \in Nat
  BY LenProperties DEF IsEnvelope
<1>2. kept \in [1..m -> Command]
  BY <1>1 DEF IsEnvelope
<1>3. kept \in Seq(Command) /\ Len(kept) = m
  BY <1>1, <1>2
<1>4. \A i \in 1..m : kept[i] = e.recovery[i].command
  BY <1>1
<1>5. n \in Nat /\ DOMAIN e.pending = 1..n /\ e.pending \in Seq(Command)
  BY LenProperties DEF IsEnvelope
<1> HIDE DEF kept, n, m
<1>6. /\ all \in Seq(Command) /\ Len(all) = n + m
      /\ \A i \in 1..(n + m) : all[i] = IF i <= n THEN e.pending[i] ELSE kept[i - n]
  <2>1. n = Len(e.pending)
    BY DEF n
  <2> QED BY <1>3, <1>5, <2>1, ConcatProperties
<1>7. DOMAIN all = 1..(n + m) /\ \A i \in 1..(n + m) : all[i] \in Command
  BY <1>6, LenProperties, ElementOfSeq
<1> HIDE DEF all
<1>8. Ids(all) \subseteq Ids(e.pending) \cup Held(e)
  <2> SUFFICES ASSUME NEW i \in 1..(n + m) PROVE all[i].id \in Ids(e.pending) \cup Held(e)
    BY <1>7 DEF Ids
  <2>1. CASE i <= n
    BY <1>5, <1>6, <2>1 DEF Ids
  <2>2. CASE ~(i <= n)
    <3>1. i - n \in 1..m
      BY <1>1, <1>5, <2>2
    <3>2. all[i] = e.recovery[i - n].command
      BY <1>4, <1>6, <2>2, <3>1
    <3> QED BY <1>1, <3>1, <3>2 DEF Held
  <2> QED BY <2>1, <2>2
<1>9. Ids(e.pending) \subseteq Ids(all)
  <2> SUFFICES ASSUME NEW i \in 1..n PROVE e.pending[i].id \in Ids(all)
    BY <1>5 DEF Ids
  <2>1. i \in 1..(n + m) /\ all[i] = e.pending[i]
    BY <1>1, <1>5, <1>6
  <2> QED BY <1>7, <2>1 DEF Ids
<1>10. Held(e) \subseteq Ids(all)
  <2> SUFFICES ASSUME NEW i \in 1..m PROVE e.recovery[i].command.id \in Ids(all)
    BY <1>1 DEF Held
  <2>1. n + i \in 1..(n + m) /\ all[n + i] = e.recovery[i].command
    BY <1>1, <1>4, <1>5, <1>6
  <2> QED BY <1>7, <2>1 DEF Ids
<1>11. Intents(e) = all
  BY DEF Intents, all, kept
<1> QED BY <1>7, <1>8, <1>9, <1>10, <1>11

LEMMA RequiredTyped ==
  ASSUME NEW e, IsEnvelope(e)
  PROVE  Required(e) \subseteq TaskId
<1>1. Live(e.confirmed) \subseteq TaskId /\ e.confirmed.undo \in Hint \cup {None}
  BY DEF IsEnvelope, IsSnapshot, IsBody, Partial, Live
<1>2. e.confirmed.undo # None => e.confirmed.undo.task \in TaskId
  BY <1>1 DEF Hint
<1>3. Created(Intents(e)) \subseteq TaskId
  BY IntentsHeld, CreatedTyped DEF Created
<1> QED BY <1>1, <1>2, <1>3 DEF Required

\* Handles are all that registering changes.
LEMMA RegisteredFacts ==
  ASSUME NEW e, IsEnvelope(e)
  PROVE  LET r == Registered(e)
         IN /\ IsEnvelope(r)
            /\ \A f \in EnvelopeFields \ {"handles", "nextHandle"} : r[f] = e[f]
<1> DEFINE r == Registered(e)
<1>1. /\ DOMAIN r = EnvelopeFields
      /\ \A f \in EnvelopeFields \ {"handles", "nextHandle"} : r[f] = e[f]
      /\ DOMAIN r.handles = DOMAIN e.handles \cup Required(e)
  <2>1. DOMAIN e = EnvelopeFields
    BY DEF IsEnvelope
  <2> QED BY <2>1 DEF Registered, EnvelopeFields
<1>2. DOMAIN r.handles \subseteq TaskId
  BY <1>1, RequiredTyped DEF IsEnvelope
<1> HIDE DEF r
<1>3. IsEnvelope(r)
  BY <1>1, <1>2 DEF IsEnvelope, EnvelopeFields
<1> QED BY <1>1, <1>3 DEF r

\* A queue being edited, with the edits refused so far.
IsView(v) == v \in [state : {v.state}, conflicts : {v.conflicts}] /\ Sound(v.state)

LEMMA ConfirmedSound ==
  ASSUME NEW e, IsEnvelope(e)
  PROVE  IsView(Confirmed(e))
<1> DEFINE first == Confirmed(e)
           s == [e.confirmed EXCEPT !.undo = None]
           st == first.state
<1>1. st = [snapshot |-> s, undo |-> NoUndo,
            used |-> (DOMAIN e.handles \ Created(e.pending)) \cup Live(e.confirmed)]
  BY DEF Confirmed
<1>2. IsBody(e.confirmed) /\ IsChain(e.confirmed.history) /\ SnapshotValid(e.confirmed)
  BY DEF IsEnvelope, IsSnapshot
<1>3. /\ s.undo = None /\ s.generation = e.confirmed.generation
      /\ s.revision = e.confirmed.revision /\ s.history = e.confirmed.history
      /\ s.initialized = e.confirmed.initialized /\ s.order = e.confirmed.order
      /\ s.task = e.confirmed.task /\ s.focus = e.confirmed.focus
      /\ DOMAIN s = DOMAIN e.confirmed
  BY <1>2 DEF IsBody
<1>4. IsBody(s)
  BY <1>2 DEF IsBody
<1> HIDE DEF s
<1>5. SnapshotValid(s) /\ Live(s) = Live(e.confirmed)
  BY <1>2, <1>3 DEF SnapshotValid, OrderedOnce, FocusIsNow, StartedOnce, Live, NowTasks, SessionTask
<1>6. st.used \subseteq TaskId /\ Live(s) \subseteq st.used
  BY <1>1, <1>2, <1>5 DEF IsEnvelope, IsBody, Partial, Live
<1>7. IsState(st) /\ st.undo = NoUndo /\ st.snapshot = s
  BY <1>1, <1>2, <1>3, <1>4, <1>6 DEF IsState, IsSnapshot
<1>8. Sound(st)
  BY <1>3, <1>5, <1>6, <1>7 DEF Sound, StateValid
<1>9. first \in [state : {first.state}, conflicts : {first.conflicts}]
  BY DEF Confirmed
<1> QED BY <1>8, <1>9 DEF IsView

\* An edit keeps a queue sound, accepted or refused.
LEMMA ForeseenSound ==
  ASSUME NEW v, IsView(v), NEW c \in Command, NEW time \in Nat
  PROVE  IsView(Foreseen(time, v, c))
<1> DEFINE next == Foreseen(time, v, c)
<1>1. Refusal(v.state, c, time) = None => Sound(Apply(v.state, c, time))
  BY ApplySound DEF IsView
<1>2. next \in [state : {next.state}, conflicts : {next.conflicts}] /\ Sound(next.state)
  BY <1>1 DEF Foreseen, IsView
<1> HIDE DEF next
<1> QED BY <1>2 DEF IsView, next

LEMMA RunSound ==
  ASSUME NEW first, IsView(first), NEW time \in Nat, NEW commands \in Seq(Command),
         NEW after, IsRun(first, time, commands, after)
  PROVE  \A n \in 0..Len(commands) : IsView(after[n])
<1> DEFINE N == Len(commands)
           S == {n \in 0..N : IsView(after[n])}
<1>1. N \in Nat /\ \A n \in 1..N : commands[n] \in Command
  BY LenProperties, ElementOfSeq
<1>2. /\ after[0] = first
      /\ \A n \in 1..N : after[n] = Foreseen(time, after[n - 1], commands[n])
  BY <1>1, RunSteps
<1> HIDE DEF N
<1>3. 0 \in S
  BY <1>1, <1>2
<1>4. ASSUME NEW n \in 1..N, n - 1 \in S PROVE n \in S
  BY <1>1, <1>2, <1>4, ForeseenSound
<1>5. \A n \in 1..N : n - 1 \in S => n \in S
  BY <1>4
<1> HIDE DEF S
<1>6. \A n \in 0..N : n \in S
  BY <1>1, <1>3, <1>5, Induction
<1> QED BY <1>6 DEF S, N

\* What is shown is a snapshot, whatever was edited.
LEMMA ShownTyped ==
  ASSUME NEW e, IsEnvelope(e)
  PROVE  IsSnapshot(Projection(e).state.snapshot)
<1> DEFINE N == Len(e.pending)
<1>1. N \in Nat /\ e.pending \in Seq(Command) /\ e.time \in Nat
  BY LenProperties DEF IsEnvelope
<1>2. PICK after : IsRun(Confirmed(e), e.time, e.pending, after) /\ Projection(e) = after[N]
  BY <1>1, ForecastRuns
<1>3. N \in 0..N
  BY <1>1
<1>4. IsView(after[N])
  BY <1>1, <1>2, <1>3, ConfirmedSound, RunSound
<1> QED BY <1>2, <1>4 DEF IsView, Sound, IsState

(***************************************************************************)
(* What the operations make of an envelope                                 *)
(***************************************************************************)
\* What users asked stays as they asked it.
Grows(made, more) ==
  DOMAIN made \subseteq DOMAIN more /\ \A c \in DOMAIN made : more[c] = made[c]

LEMMA EnvelopeStays ==
  ASSUME NEW made, NEW more, Grows(made, more), NEW d, NEW e, EnvelopeOK(made, d, e)
  PROVE  EnvelopeOK(more, d, e)
BY DEF Grows, EnvelopeOK, Meant

With(made, d, command, base) ==
  [c \in DOMAIN made \cup {command.id} |->
     IF c = command.id THEN [device |-> d, command |-> command, base |-> base] ELSE made[c]]

LEMMA MadeWith ==
  ASSUME NEW made, IsMade(made), NEW d \in Device, NEW command \in Command,
         command.action.op # "Initialize",
         command.id \notin DOMAIN made \cup {Founding.id}, NEW base, IsChain(base)
  PROVE  IsMade(With(made, d, command, base)) /\ Grows(made, With(made, d, command, base))
<1> DEFINE more == With(made, d, command, base)
<1>1. /\ DOMAIN more = DOMAIN made \cup {command.id}
      /\ more[command.id] = [device |-> d, command |-> command, base |-> base]
      /\ \A c \in DOMAIN made : more[c] = made[c]
  BY DEF With
<1> HIDE DEF more
<1>2. command.id \in CommandId
  BY CommandKinds
<1>3. IsMade(more)
  BY <1>1, <1>2 DEF IsMade
<1>4. Grows(made, more)
  BY <1>1 DEF Grows
<1> QED BY <1>3, <1>4 DEF more

LEMMA EnqueuedOK ==
  ASSUME NEW made, IsMade(made), NEW d \in Device, NEW e, EnvelopeOK(made, d, e),
         NEW command \in Command, command.action.op # "Initialize",
         command.id \notin DOMAIN made \cup {Founding.id},
         IsFocus(command) => command.guard.revision = e.confirmed.revision
  PROVE  LET r == Enqueued(e, command)
         IN /\ EnvelopeOK(With(made, d, command, e.confirmed.history), d, r)
            /\ r.pending = Append(e.pending, command)
            /\ r.confirmed = e.confirmed /\ r.recovery = e.recovery
<1> DEFINE more == With(made, d, command, e.confirmed.history)
           m == [e EXCEPT !.pending = Append(@, command)]
           r == Enqueued(e, command)
           n == Len(e.pending)
<1>1. IsEnvelope(e) /\ IsChain(e.confirmed.history) /\ e.pending \in Seq(Command)
  BY DEF EnvelopeOK, IsEnvelope, IsSnapshot
<1>2. /\ DOMAIN m = EnvelopeFields
      /\ \A f \in EnvelopeFields \ {"pending"} : m[f] = e[f]
      /\ m.pending = Append(e.pending, command)
  BY <1>1 DEF IsEnvelope, EnvelopeFields
<1>3. /\ m.pending \in Seq(Command) /\ n \in Nat /\ DOMAIN e.pending = 1..n
      /\ DOMAIN m.pending = 1..(n + 1)
      /\ \A i \in 1..n : m.pending[i] = e.pending[i]
      /\ m.pending[n + 1] = command
  BY <1>1, <1>2, LenProperties, AppendProperties
<1> HIDE DEF m
<1>4. IsEnvelope(m)
  BY <1>1, <1>2, <1>3 DEF IsEnvelope, EnvelopeFields
<1>5. IsEnvelope(r) /\ \A f \in EnvelopeFields \ {"handles", "nextHandle"} : r[f] = m[f]
  BY <1>4, RegisteredFacts DEF Enqueued, m
<1> HIDE DEF r
<1>6. /\ r.pending = m.pending /\ r.confirmed = e.confirmed /\ r.recovery = e.recovery
      /\ r.device = e.device
  BY <1>2, <1>5 DEF EnvelopeFields
<1>7. /\ more[command.id] = [device |-> d, command |-> command, base |-> e.confirmed.history]
      /\ command.id \in DOMAIN more /\ Grows(made, more)
  BY DEF With, Grows
<1> HIDE DEF more, n
<1>8. \A i \in DOMAIN r.pending :
        Meant(more, d, r.pending[i]) /\ Aimed(more[r.pending[i].id], r.confirmed)
  <2> SUFFICES ASSUME NEW i \in 1..(n + 1)
               PROVE  /\ Meant(more, d, m.pending[i])
                      /\ Aimed(more[m.pending[i].id], e.confirmed)
    BY <1>3, <1>6
  <2>1. CASE i \in 1..n
    BY <1>3, <1>7, <2>1 DEF EnvelopeOK, Meant, Grows
  <2>2. CASE i = n + 1
    BY <1>1, <1>3, <1>7, <2>2, BeginsItself DEF Meant, Aimed
  <2> QED BY <1>3, <2>1, <2>2
<1>9. \A i, j \in DOMAIN r.pending : r.pending[i].id = r.pending[j].id => i = j
  <2>1. \A i \in 1..n : e.pending[i].id # command.id
    BY <1>3 DEF EnvelopeOK, Meant
  <2>2. \A i, j \in 1..n : e.pending[i].id = e.pending[j].id => i = j
    BY <1>3 DEF EnvelopeOK
  <2> SUFFICES ASSUME NEW i \in 1..(n + 1), NEW j \in 1..(n + 1),
                      m.pending[i].id = m.pending[j].id
               PROVE  i = j
    BY <1>3, <1>6
  <2>3. CASE i \in 1..n /\ j \in 1..n
    BY <1>3, <2>2, <2>3
  <2>4. CASE i = n + 1 \/ j = n + 1
    <3>1. i \in 1..n => m.pending[i].id # command.id
      BY <1>3, <2>1
    <3>2. j \in 1..n => m.pending[j].id # command.id
      BY <1>3, <2>1
    <3> QED BY <1>3, <2>4, <3>1, <3>2
  <2> QED BY <1>3, <2>3, <2>4
<1>10. EnvelopeOK(more, d, r)
  BY <1>5, <1>6, <1>8, <1>9 DEF EnvelopeOK
<1> QED BY <1>2, <1>6, <1>10 DEF r, more

\* An envelope whose intents, queue and handles are the old ones.
LEMMA RefiledOK ==
  ASSUME NEW made, NEW d, NEW e, EnvelopeOK(made, d, e), NEW r, DOMAIN r = EnvelopeFields,
         \A f \in EnvelopeFields \ {"recovery", "suspension"} : r[f] = e[f],
         \E S : r.recovery \in Seq(S),
         \A i \in DOMAIN r.recovery : r.recovery[i].command \in Command
  PROVE  EnvelopeOK(made, d, r) /\ r.pending = e.pending /\ r.confirmed = e.confirmed
<1>1. /\ r.device = e.device /\ r.confirmed = e.confirmed /\ r.time = e.time
      /\ r.pending = e.pending /\ r.handles = e.handles
  BY DEF EnvelopeFields
<1> QED BY <1>1 DEF EnvelopeOK, IsEnvelope

LEMMA SuspensionOK ==
  ASSUME NEW made, NEW d, NEW e, EnvelopeOK(made, d, e), NEW s
  PROVE  LET r == [e EXCEPT !.suspension = s]
         IN /\ EnvelopeOK(made, d, r) /\ r.pending = e.pending
            /\ r.confirmed = e.confirmed /\ r.recovery = e.recovery
<1> DEFINE r == [e EXCEPT !.suspension = s]
<1>1. DOMAIN e = EnvelopeFields
  BY DEF EnvelopeOK, IsEnvelope
<1>2. /\ DOMAIN r = EnvelopeFields /\ r.recovery = e.recovery
      /\ \A f \in EnvelopeFields \ {"recovery", "suspension"} : r[f] = e[f]
  BY <1>1 DEF EnvelopeFields
<1> HIDE DEF r
<1>3. (\E S : r.recovery \in Seq(S)) /\ \A i \in DOMAIN r.recovery : r.recovery[i].command \in Command
  BY <1>2 DEF EnvelopeOK, IsEnvelope
<1>4. EnvelopeOK(made, d, r) /\ r.pending = e.pending /\ r.confirmed = e.confirmed
  BY <1>2, <1>3, RefiledOK
<1> QED BY <1>2, <1>4 DEF r

\* One item less: the identities of the others stay.
LEMMA DismissedOK ==
  ASSUME NEW made, NEW d, NEW e, EnvelopeOK(made, d, e), NEW k \in DOMAIN e.recovery
  PROVE  LET r == [e EXCEPT !.recovery = RemoveAt(@, k)]
         IN /\ EnvelopeOK(made, d, r) /\ r.pending = e.pending /\ r.confirmed = e.confirmed
            /\ Held(e) \subseteq Held(r) \cup {e.recovery[k].command.id}
<1> DEFINE n == Len(e.recovery)
           left == RemoveAt(e.recovery, k)
           r == [e EXCEPT !.recovery = left]
<1>1. DOMAIN e = EnvelopeFields
  BY DEF EnvelopeOK, IsEnvelope
<1>2. /\ DOMAIN r = EnvelopeFields /\ r.recovery = left
      /\ \A f \in EnvelopeFields \ {"recovery", "suspension"} : r[f] = e[f]
  BY <1>1 DEF EnvelopeFields
<1> HIDE DEF r
<1>3. PICK S : e.recovery \in Seq(S)
  BY DEF EnvelopeOK, IsEnvelope
<1>4. /\ n \in Nat /\ DOMAIN e.recovery = 1..n /\ \A i \in 1..n : e.recovery[i] \in S
  BY <1>3, LenProperties, ElementOfSeq
<1>5. left = [j \in 1..(n - 1) |-> e.recovery[IF j < k THEN j ELSE j + 1]]
  BY DEF RemoveAt
<1>6. \A j \in 1..(n - 1) : (IF j < k THEN j ELSE j + 1) \in 1..n
  BY <1>4
<1>7. left \in [1..(n - 1) -> S] /\ n - 1 \in Nat
  BY <1>4, <1>5, <1>6
<1>8. left \in Seq(S) /\ DOMAIN left = 1..(n - 1)
  BY <1>7
<1>9. \A j \in DOMAIN left : left[j].command \in Command
  <2>1. \A i \in 1..n : e.recovery[i].command \in Command
    BY <1>4 DEF EnvelopeOK, IsEnvelope
  <2> QED BY <1>5, <1>6, <1>8, <2>1
<1>10. Held(e) \subseteq Held(r) \cup {e.recovery[k].command.id}
  <2>1. ASSUME NEW i \in 1..n, i # k
        PROVE  \E j \in 1..(n - 1) : left[j] = e.recovery[i]
    <3> DEFINE j == IF i < k THEN i ELSE i - 1
    <3>1. j \in 1..(n - 1) /\ (IF j < k THEN j ELSE j + 1) = i
      BY <1>4, <2>1
    <3> QED BY <1>5, <3>1
  <2>2. ASSUME NEW i \in 1..n, i # k PROVE e.recovery[i].command.id \in Held(r)
    <3>1. PICK j \in 1..(n - 1) : left[j] = e.recovery[i]
      BY <2>1, <2>2
    <3> QED BY <1>2, <1>8, <3>1 DEF Held
  <2> QED BY <1>4, <2>2 DEF Held
<1>11. EnvelopeOK(made, d, r) /\ r.pending = e.pending /\ r.confirmed = e.confirmed
  <2>1. (\E T : r.recovery \in Seq(T)) /\ \A i \in DOMAIN r.recovery : r.recovery[i].command \in Command
    BY <1>2, <1>8, <1>9
  <2> QED BY <1>2, <2>1, RefiledOK
<1> QED BY <1>10, <1>11 DEF r, left

(***************************************************************************)
(* Requests and their answers                                              *)
(***************************************************************************)
RequestOK(made, r) ==
  /\ r.device \in Device /\ r.command \in Command \cup {None}
  /\ IsChain(r.checkpoint.history)
  /\ r.command # None => /\ Meant(made, r.device, r.command)
                         /\ Aimed(made[r.command.id], r.checkpoint)

\* What is answered goes on from what the device had, with the effect of its command.
ResponseOK(r, p) ==
  /\ IsSnapshot(p.snapshot) /\ p.time \in Nat
  /\ r.checkpoint # None => Begins(r.checkpoint.history, p.snapshot.history)
  /\ r.command # None /\ p.receipt.outcome.status = "applied" =>
       r.command.id \in Applies(p.snapshot)

LEMMA RequestStays ==
  ASSUME NEW made, NEW more, Grows(made, more), NEW r, RequestOK(made, r)
  PROVE  RequestOK(more, r)
BY DEF Grows, RequestOK, Meant

LEMMA NextRequestOK ==
  ASSUME NEW made, NEW d \in Device, NEW c, EnvelopeOK(made, d, Envelope(c)), NEW token
  PROVE  LET r == NextRequest(c, token)
         IN /\ RequestOK(made, r) /\ r.device = d
            /\ r.command # None => r.command.id \in Ids(Envelope(c).pending)
<1> DEFINE e == Envelope(c)
           r == NextRequest(c, token)
<1>1. IsChain(e.confirmed.history) /\ e.pending \in Seq(Command) /\ e.device = d
  BY DEF EnvelopeOK, IsEnvelope, IsSnapshot
<1>2. /\ r.device = d /\ r.checkpoint.history = e.confirmed.history
      /\ r.checkpoint.revision = e.confirmed.revision
      /\ r.command = IF e.pending = <<>> THEN None ELSE Head(e.pending)
  BY <1>1 DEF NextRequest, Checkpoint
<1> HIDE DEF r, e
<1>3. CASE e.pending = <<>>
  BY <1>1, <1>2, <1>3 DEF RequestOK, r, e
<1>4. CASE e.pending # <<>>
  <2>1. 1 \in DOMAIN e.pending /\ r.command = e.pending[1] /\ r.command \in Command
    BY <1>1, <1>2, <1>4, EmptySeq, LenProperties, HeadTailProperties
  <2>2. Meant(made, d, r.command) /\ Aimed(made[r.command.id], e.confirmed)
    BY <2>1 DEF EnvelopeOK, e
  <2>3. Aimed(made[r.command.id], r.checkpoint)
    BY <1>2, <2>2 DEF Aimed
  <2>4. r.command.id \in Ids(e.pending)
    BY <2>1 DEF Ids
  <2> QED BY <1>1, <1>2, <2>1, <2>2, <2>3, <2>4 DEF RequestOK, r, e
<1> QED BY <1>3, <1>4

\* An intent goes on standing on what its ground becomes.
LEMMA AimedLater ==
  ASSUME NEW intent, IsChain(intent.base), NEW s, IsSnapshot(s), NEW q, IsSnapshot(q),
         Aimed(intent, s), Begins(s.history, q.history), s.revision <= q.revision,
         s.revision = q.revision => s = q,
         IsFocus(intent.command) => intent.command.guard.revision \in Nat
  PROVE  Aimed(intent, q)
<1>1. IsChain(s.history) /\ IsChain(q.history) /\ s.revision \in Nat /\ q.revision \in Nat
  BY DEF IsSnapshot, IsBody
<1>2. Begins(intent.base, q.history)
  BY <1>1, BeginsThrough DEF Aimed
<1>3. CASE s.revision = q.revision
  BY <1>3
<1>4. CASE s.revision # q.revision
  BY <1>1, <1>2, <1>4 DEF Aimed
<1> QED BY <1>3, <1>4

LEMMA AppliesAre ==
  ASSUME NEW s
  PROVE  Applies(s) = {s.history[i].by : i \in DOMAIN s.history}
BY DEF Applies, Chain, Fn!Range

LEMMA AppliesLater ==
  ASSUME NEW s, IsSnapshot(s), NEW q, IsSnapshot(q), Begins(s.history, q.history)
  PROVE  Applies(s) \subseteq Applies(q)
<1>1. /\ Len(s.history) \in Nat /\ DOMAIN s.history = 1..Len(s.history)
      /\ Len(q.history) \in Nat /\ DOMAIN q.history = 1..Len(q.history)
  BY ChainLength DEF IsSnapshot
<1>2. \A i \in DOMAIN s.history : i \in DOMAIN q.history /\ s.history[i] = q.history[i]
  BY <1>1 DEF Begins
<1> QED BY <1>2, AppliesAre

\* What accounts for a command in an envelope.
LEMMA AccountedFor ==
  ASSUME NEW e, IsEnvelope(e), NEW c
  PROVE  Accounted(e, c) <=> c \in Ids(e.pending) \cup Held(e) \cup Applies(e.confirmed)
BY IntentsHeld DEF Accounted

\* The answer to a device's own request, reconciled: what it settles is in the
\* adopted queue or kept for the user.
LEMMA ReconciledOK ==
  ASSUME NEW made, IsMade(made), NEW d \in Device, NEW e, EnvelopeOK(made, d, e),
         NEW q, NEW p, RequestOK(made, q), ResponseOK(q, p),
         Answers(e, q, p), Extends(e, p)
  PROVE  LET r == Reconciled(e, q, p)
         IN /\ EnvelopeOK(made, d, r)
            /\ r.confirmed = p.snapshot /\ Begins(e.confirmed.history, r.confirmed.history)
            /\ \/ p.receipt = None /\ q.command = None /\ r.pending = e.pending
               \/ /\ q.command # None /\ p.receipt # None
                  /\ e.pending # <<>> /\ Head(e.pending) = q.command
                  /\ r.pending = Tail(e.pending)
            /\ \A c : Accounted(e, c) => Accounted(r, c)
<1> DEFINE r == Reconciled(e, q, p)
           receipt == p.receipt
           command == Head(e.pending)
           adopted == [e EXCEPT !.confirmed = p.snapshot, !.time = p.time]
           item == [command |-> command, reason |-> receipt.outcome.reason]
           settled == [adopted EXCEPT
             !.pending = Tail(@),
             !.settled = IF IsFocus(command) THEN receipt ELSE @,
             !.recovery = IF receipt.outcome.status = "applied" THEN @ ELSE Append(@, item)]
           m == IF receipt = None THEN adopted ELSE settled
<1>1. r = Registered(m)
  BY DEF Reconciled
<1>2. /\ IsEnvelope(e) /\ IsSnapshot(e.confirmed) /\ e.pending \in Seq(Command)
      /\ IsSnapshot(p.snapshot) /\ SnapshotValid(p.snapshot) /\ p.time \in Nat
      /\ DOMAIN e = EnvelopeFields
      /\ Begins(e.confirmed.history, p.snapshot.history)
      /\ e.confirmed.revision <= p.snapshot.revision
      /\ e.confirmed.revision = p.snapshot.revision => e.confirmed = p.snapshot
  <2>1. /\ q.checkpoint # None /\ q.checkpoint.history = e.confirmed.history
        /\ p.snapshot.revision >= e.confirmed.revision
    BY DEF Answers, Extends, Checkpoint
  <2>2. e.confirmed.revision \in Nat /\ p.snapshot.revision \in Nat
    BY DEF EnvelopeOK, IsEnvelope, IsSnapshot, IsBody, ResponseOK
  <2> QED BY <2>1, <2>2 DEF EnvelopeOK, IsEnvelope, ResponseOK, Extends
<1>3. \/ q.command = None /\ receipt = None
      \/ /\ q.command # None /\ receipt # None
         /\ e.pending # <<>> /\ Head(e.pending) = q.command
  BY DEF Answers
<1>4. /\ DOMAIN adopted = EnvelopeFields
      /\ \A f \in EnvelopeFields \ {"confirmed", "time"} : adopted[f] = e[f]
      /\ adopted.confirmed = p.snapshot /\ adopted.time = p.time
  BY <1>2 DEF EnvelopeFields
<1> HIDE DEF adopted
<1>5. /\ DOMAIN settled = EnvelopeFields
      /\ \A f \in EnvelopeFields \ {"pending", "settled", "recovery"} : settled[f] = adopted[f]
      /\ settled.pending = Tail(e.pending)
      /\ settled.recovery = IF receipt.outcome.status = "applied" THEN e.recovery
                            ELSE Append(e.recovery, item)
  BY <1>4 DEF EnvelopeFields
<1> HIDE DEF settled, item, command, receipt
<1>6. /\ DOMAIN m = EnvelopeFields /\ m.device = e.device /\ m.handles = e.handles
      /\ m.confirmed = p.snapshot /\ m.time = p.time
      /\ m.pending = IF receipt = None THEN e.pending ELSE Tail(e.pending)
      /\ m.recovery = IF receipt = None \/ receipt.outcome.status = "applied" THEN e.recovery
                      ELSE Append(e.recovery, item)
  BY <1>4, <1>5 DEF EnvelopeFields
<1> HIDE DEF m
\* The rest of the pending commands are pending commands, in their order.
<1> DEFINE n == Len(e.pending)
           skipped == IF receipt = None THEN 0 ELSE 1
<1>7. /\ n \in Nat /\ DOMAIN e.pending = 1..n
      /\ m.pending \in Seq(Command) /\ DOMAIN m.pending = 1..(n - skipped)
      /\ \A i \in 1..(n - skipped) : m.pending[i] = e.pending[i + skipped]
      /\ receipt # None => 1 \in 1..n /\ command = e.pending[1]
  <2>1. n \in Nat /\ DOMAIN e.pending = 1..n
    BY <1>2, LenProperties
  <2>2. CASE receipt = None
    BY <1>2, <1>6, <2>1, <2>2
  <2>3. CASE receipt # None
    <3>1. /\ Tail(e.pending) \in Seq(Command) /\ Len(Tail(e.pending)) = n - 1
          /\ \A i \in 1..(n - 1) : Tail(e.pending)[i] = e.pending[i + 1]
      BY <1>2, <1>3, <2>3, HeadTailProperties
    <3>2. DOMAIN Tail(e.pending) = 1..(n - 1)
      BY <3>1, LenProperties
    <3>3. 1 \in 1..n /\ command = e.pending[1]
      BY <1>2, <1>3, <2>1, <2>3, EmptySeq DEF command
    <3> QED BY <1>6, <2>1, <2>3, <3>1, <3>2, <3>3
  <2> QED BY <2>2, <2>3
\* A refused command is kept.
<1>8. /\ \E S : m.recovery \in Seq(S)
      /\ \A i \in DOMAIN m.recovery : m.recovery[i].command \in Command
      /\ Held(m) = Held(e) \cup IF receipt = None \/ receipt.outcome.status = "applied" THEN {}
                                ELSE {command.id}
  <2>1. PICK S : e.recovery \in Seq(S)
    BY <1>2 DEF IsEnvelope
  <2>2. CASE receipt = None \/ receipt.outcome.status = "applied"
    BY <1>2, <1>6, <2>1, <2>2 DEF IsEnvelope, Held
  <2>3. CASE ~(receipt = None \/ receipt.outcome.status = "applied")
    <3> DEFINE k == Len(e.recovery)
               T == S \cup {item}
    <3>1. e.recovery \in Seq(T)
      BY <2>1, SeqMonotonic
    <3>2. k \in Nat /\ DOMAIN e.recovery = 1..k
      BY <2>1, LenProperties
    <3>3. /\ m.recovery \in Seq(T) /\ Len(m.recovery) = k + 1
          /\ \A i \in 1..k : m.recovery[i] = e.recovery[i]
          /\ m.recovery[k + 1] = item
      BY <1>6, <2>3, <3>1, AppendProperties
    <3>4. DOMAIN m.recovery = 1..(k + 1)
      BY <3>3, LenProperties
    <3>5. item.command = command /\ command \in Command
      BY <1>7, <2>3, ElementOfSeq, <1>2 DEF item
    <3> HIDE DEF T, k
    <3>6. \A i \in DOMAIN m.recovery : m.recovery[i].command \in Command
      BY <1>2, <3>2, <3>3, <3>4, <3>5 DEF IsEnvelope
    <3>7. Held(m) = Held(e) \cup {command.id}
      <4>1. Held(m) \subseteq Held(e) \cup {command.id}
        BY <3>2, <3>3, <3>4, <3>5 DEF Held
      <4>2. Held(e) \subseteq Held(m)
        BY <3>2, <3>3, <3>4 DEF Held
      <4>3. command.id \in Held(m)
        <5>1. k + 1 \in DOMAIN m.recovery
          BY <3>2, <3>4
        <5> QED BY <3>3, <3>5, <5>1 DEF Held
      <4> QED BY <4>1, <4>2, <4>3
    <3> QED BY <2>3, <3>3, <3>6, <3>7
  <2> QED BY <2>2, <2>3
<1>9. IsEnvelope(m)
  BY <1>2, <1>6, <1>7, <1>8 DEF IsEnvelope
<1>10. /\ IsEnvelope(r) /\ r.device = d /\ r.confirmed = p.snapshot
       /\ r.pending = m.pending /\ r.recovery = m.recovery
  <2>1. \A f \in EnvelopeFields \ {"handles", "nextHandle"} : r[f] = m[f]
    BY <1>1, <1>9, RegisteredFacts
  <2>2. e.device = d
    BY DEF EnvelopeOK
  <2> QED BY <1>1, <1>6, <1>9, <2>1, <2>2, RegisteredFacts DEF EnvelopeFields
<1> HIDE DEF r
<1>11. \A i \in DOMAIN r.pending :
         Meant(made, d, r.pending[i]) /\ Aimed(made[r.pending[i].id], r.confirmed)
  <2> SUFFICES ASSUME NEW i \in 1..(n - skipped)
               PROVE  Meant(made, d, m.pending[i]) /\ Aimed(made[m.pending[i].id], p.snapshot)
    BY <1>7, <1>10
  <2> DEFINE x == m.pending[i]
  <2>1. x = e.pending[i + skipped] /\ i + skipped \in DOMAIN e.pending
    BY <1>7
  <2>2. Meant(made, d, x) /\ Aimed(made[x.id], e.confirmed)
    BY <2>1 DEF EnvelopeOK
  <2> HIDE DEF x
  <2>3. /\ IsChain(made[x.id].base)
        /\ IsFocus(made[x.id].command) => made[x.id].command.guard.revision \in Nat
    <3>1. x.id \in DOMAIN made /\ made[x.id].command \in Command /\ IsChain(made[x.id].base)
      BY <2>2 DEF Meant, IsMade
    <3> QED BY <3>1 DEF IsFocus, Command, Guard
  <2>4. Aimed(made[x.id], p.snapshot)
    BY <1>2, <2>2, <2>3, AimedLater
  <2> QED BY <2>2, <2>4 DEF x
<1>12. \A i, j \in DOMAIN r.pending : r.pending[i].id = r.pending[j].id => i = j
  <2> SUFFICES ASSUME NEW i \in 1..(n - skipped), NEW j \in 1..(n - skipped),
                      m.pending[i].id = m.pending[j].id
               PROVE  i = j
    BY <1>7, <1>10
  <2>1. /\ i + skipped \in DOMAIN e.pending /\ j + skipped \in DOMAIN e.pending
        /\ e.pending[i + skipped].id = e.pending[j + skipped].id
    BY <1>7
  <2>2. i + skipped = j + skipped
    BY <2>1 DEF EnvelopeOK
  <2> QED BY <2>2
<1>13. EnvelopeOK(made, d, r)
  BY <1>10, <1>11, <1>12 DEF EnvelopeOK
<1>14. ASSUME NEW c, Accounted(e, c) PROVE Accounted(r, c)
  <2>1. c \in Ids(e.pending) \cup Held(e) \cup Applies(e.confirmed)
    BY <1>2, <1>14, AccountedFor
  <2>2. Held(r) = Held(m)
    BY <1>10 DEF Held
  <2>3. CASE c \in Held(e)
    BY <1>8, <1>10, <2>2, <2>3, AccountedFor
  <2>4. CASE c \in Applies(e.confirmed)
    BY <1>2, <1>10, <2>4, AppliesLater, AccountedFor
  <2>5. CASE c \in Ids(e.pending)
    <3>1. PICK i \in 1..n : c = e.pending[i].id
      BY <1>7, <2>5 DEF Ids
    <3>2. CASE receipt = None \/ i # 1
      <4>1. i - skipped \in 1..(n - skipped) /\ m.pending[i - skipped] = e.pending[i]
        BY <1>7, <3>1, <3>2
      <4>2. c \in Ids(r.pending)
        BY <1>7, <1>10, <3>1, <4>1 DEF Ids
      <4> QED BY <1>10, <4>2, AccountedFor
    <3>3. CASE receipt # None /\ i = 1
      <4>1. c = command.id /\ command = q.command /\ q.command # None
        BY <1>3, <1>7, <3>1, <3>3 DEF command
      <4>2. CASE receipt.outcome.status = "applied"
        <5>1. c \in Applies(p.snapshot)
          BY <4>1, <4>2 DEF ResponseOK, receipt
        <5> QED BY <1>10, <5>1, AccountedFor
      <4>3. CASE receipt.outcome.status # "applied"
        <5>1. c \in Held(r)
          BY <1>8, <2>2, <3>3, <4>1, <4>3
        <5> QED BY <1>10, <5>1, AccountedFor
      <4> QED BY <4>2, <4>3
    <3> QED BY <3>2, <3>3
  <2> QED BY <2>1, <2>3, <2>4, <2>5
<1> QED BY <1>2, <1>3, <1>6, <1>10, <1>13, <1>14 DEF r, receipt

(***************************************************************************)
(* A journal and what the operations make of it                            *)
(***************************************************************************)
\* The envelopes a power failure could bring back: at least one.
IsLog(log) == (\E S : log \in Seq(S)) /\ log # <<>>
Entries(log) == {log[i] : i \in DOMAIN log}

LEMMA LogFacts ==
  ASSUME NEW log, IsLog(log)
  PROVE  /\ Len(log) \in Nat \ {0} /\ DOMAIN log = 1..Len(log)
         /\ log[Len(log)] \in Entries(log) /\ log[1] \in Entries(log)
<1>1. PICK S : log \in Seq(S)
  BY DEF IsLog
<1>2. Len(log) \in Nat \ {0} /\ DOMAIN log = 1..Len(log)
  BY <1>1, EmptySeq, LenProperties DEF IsLog
<1> QED BY <1>2 DEF Entries

LEMMA OneLog ==
  ASSUME NEW e
  PROVE  IsLog(<<e>>) /\ Entries(<<e>>) = {e} /\ Len(<<e>>) = 1 /\ <<e>>[1] = e
<1>1. <<e>> \in Seq({e}) /\ <<e>> # <<>> /\ Len(<<e>>) = 1 /\ DOMAIN <<e>> = 1..1 /\ <<e>>[1] = e
  OBVIOUS
<1>2. IsLog(<<e>>)
  BY <1>1 DEF IsLog
<1> QED BY <1>1, <1>2 DEF Entries

LEMMA MoreLog ==
  ASSUME NEW log, IsLog(log), NEW e
  PROVE  LET more == Append(log, e)
         IN /\ IsLog(more) /\ Entries(more) = Entries(log) \cup {e}
            /\ more[Len(more)] = e /\ more[1] = log[1]
<1> DEFINE more == Append(log, e)
<1>1. PICK S : log \in Seq(S)
  BY DEF IsLog
<1>2. log \in Seq(S \cup {e})
  BY <1>1, SeqMonotonic
<1>3. /\ more \in Seq(S \cup {e}) /\ more # <<>> /\ Len(more) = Len(log) + 1
      /\ \A i \in 1..Len(log) : more[i] = log[i]
      /\ more[Len(log) + 1] = e
  BY <1>2, AppendProperties
<1>4. DOMAIN more = 1..(Len(log) + 1) /\ DOMAIN log = 1..Len(log) /\ Len(log) \in Nat \ {0}
  BY <1>2, <1>3, LenProperties, LogFacts
<1> HIDE DEF more
<1>5. Entries(more) = Entries(log) \cup {e}
  BY <1>3, <1>4 DEF Entries
<1> QED BY <1>3, <1>4, <1>5 DEF IsLog, more

\* What is not warned of is durable, and alone.
IsClient(c) ==
  /\ DOMAIN c = {"disk", "warned", "seen"}
  /\ IsLog(c.disk) /\ c.warned \in BOOLEAN /\ c.seen \in Nat \cup {None}
  /\ ~c.warned => Len(c.disk) = 1

\* What an operation that would save e does: nothing, make an envelope that is there the
\* only one, or save e, durably or not.
Becomes(c, c2, e) ==
  /\ IsClient(c2)
  /\ \/ c2.disk = c.disk
     \/ \E x \in Entries(c.disk) : c2.disk = <<x>>
     \/ c2.disk = <<e>>
     \/ c2.disk = Append(c.disk, e)

LEMMA BecomesFacts ==
  ASSUME NEW c, IsClient(c), NEW c2, NEW e, Becomes(c, c2, e)
  PROVE  /\ \A x \in Entries(c2.disk) : x \in Entries(c.disk) \/ x = e
         /\ Envelope(c2) \in Entries(c2.disk) /\ c2.disk[1] \in Entries(c2.disk)
         /\ ~c2.warned => \A x \in Entries(c2.disk) : x = Envelope(c2)
<1>0. /\ Entries(Append(c.disk, e)) = Entries(c.disk) \cup {e}
      /\ \A x : Entries(<<x>>) = {x}
  BY OneLog, MoreLog DEF IsClient
<1>1. \A x \in Entries(c2.disk) : x \in Entries(c.disk) \/ x = e
  <2>1. ASSUME NEW y, c2.disk = <<y>> PROVE Entries(c2.disk) = {y}
    BY <1>0, <2>1
  <2>2. c2.disk = Append(c.disk, e) => Entries(c2.disk) = Entries(c.disk) \cup {e}
    BY <1>0
  <2> HIDE DEF Entries
  <2> QED BY <2>1, <2>2 DEF Becomes
<1>2. IsLog(c2.disk) /\ (~c2.warned => Len(c2.disk) = 1)
  BY DEF Becomes, IsClient
<1>3. ~c2.warned => \A x \in Entries(c2.disk) : x = Envelope(c2)
  BY <1>2, LogFacts DEF Envelope, Entries
<1> QED BY <1>1, <1>2, <1>3, LogFacts DEF Envelope

LEMMA SaveMove ==
  ASSUME NEW c, IsClient(c), NEW e, NEW result \in {"ok", "after", "before"}
  PROVE  Becomes(c, Save(c, e, result), e) /\ Becomes(c, Install(c, e, result), e)
<1>1. Becomes(c, c, e)
  BY DEF Becomes
<1>2. Becomes(c, Save(c, e, result), e)
  <2>1. CASE result = "ok"
    <3> DEFINE c2 == [c EXCEPT !.disk = <<e>>, !.warned = FALSE]
    <3>1. Save(c, e, result) = c2
      BY <2>1 DEF Save
    <3>2. /\ DOMAIN c2 = {"disk", "warned", "seen"}
          /\ c2.disk = <<e>> /\ c2.warned = FALSE /\ c2.seen = c.seen
      BY DEF IsClient
    <3> HIDE DEF c2
    <3> QED BY <3>1, <3>2, OneLog DEF Becomes, IsClient
  <2>2. CASE result = "after"
    <3> DEFINE c2 == [c EXCEPT !.disk = Append(@, e), !.warned = TRUE]
    <3>1. Save(c, e, result) = c2
      BY <2>2 DEF Save
    <3>2. /\ DOMAIN c2 = {"disk", "warned", "seen"}
          /\ c2.disk = Append(c.disk, e) /\ c2.warned = TRUE /\ c2.seen = c.seen
      BY DEF IsClient
    <3> HIDE DEF c2
    <3>3. IsLog(Append(c.disk, e))
      BY MoreLog DEF IsClient
    <3> QED BY <3>1, <3>2, <3>3 DEF Becomes, IsClient
  <2>3. CASE result = "before"
    BY <1>1, <2>3 DEF Save
  <2> QED BY <2>1, <2>2, <2>3
<1> QED BY <1>1, <1>2 DEF Install

\* NetworkFailed: only the observation is forgotten.
LEMMA ForgetMove ==
  ASSUME NEW c, IsClient(c)
  PROVE  /\ IsClient(NetworkFailed(c)) /\ NetworkFailed(c).disk = c.disk
         /\ Envelope(NetworkFailed(c)) = Envelope(c) /\ NetworkFailed(c).warned = c.warned
         /\ \A e : Becomes(c, NetworkFailed(c), e)
<1>1. /\ DOMAIN NetworkFailed(c) = {"disk", "warned", "seen"}
      /\ NetworkFailed(c).disk = c.disk /\ NetworkFailed(c).warned = c.warned
      /\ NetworkFailed(c).seen = None
  BY DEF NetworkFailed, IsClient
<1>2. IsClient(NetworkFailed(c))
  BY <1>1 DEF IsClient
<1> QED BY <1>1, <1>2 DEF Becomes, Envelope

\* Making a doubtful save durable picks the latest envelope.
LEMMA ResyncMove ==
  ASSUME NEW c, IsClient(c), NEW c2, NEW e, Becomes(c, c2, e), NEW synced \in BOOLEAN
  PROVE  /\ Becomes(c, Resync(c2, synced), e)
         /\ Envelope(Resync(c2, synced)) = Envelope(c2)
<1> DEFINE c3 == [c2 EXCEPT !.disk = <<Envelope(c2)>>, !.warned = FALSE]
<1>1. CASE ~(c2.warned /\ synced)
  BY <1>1 DEF Resync
<1>2. CASE c2.warned /\ synced
  <2>1. Resync(c2, synced) = c3
    BY <1>2 DEF Resync
  <2>2. /\ DOMAIN c3 = {"disk", "warned", "seen"} /\ c3.disk = <<Envelope(c2)>>
        /\ c3.warned = FALSE /\ c3.seen = c2.seen
    BY DEF Becomes, IsClient
  <2> HIDE DEF c3
  <2>3. IsClient(c3) /\ Envelope(c3) = Envelope(c2)
    BY <2>2, OneLog DEF Becomes, IsClient, Envelope
  <2>4. Envelope(c2) \in Entries(c.disk) \/ Envelope(c2) = e
    BY BecomesFacts
  <2> QED BY <2>1, <2>2, <2>3, <2>4 DEF Becomes
<1> QED BY <1>1, <1>2

\* Opening what a power failure left.
LEMMA OpenMove ==
  ASSUME NEW c, IsClient(c), NEW left \in {c} \cup {[c EXCEPT !.disk = <<@[i]>>] : i \in DOMAIN c.disk},
         NEW synced \in BOOLEAN
  PROVE  \A e : Becomes(c, Open(left, synced), e)
<1> DEFINE c2 == Open(left, synced)
<1>1. left.disk = c.disk \/ \E x \in Entries(c.disk) : left.disk = <<x>>
  <2>1. CASE left = c
    BY <2>1
  <2>2. ASSUME NEW i \in DOMAIN c.disk, left = [c EXCEPT !.disk = <<@[i]>>]
        PROVE  \E x \in Entries(c.disk) : left.disk = <<x>>
    BY <2>2 DEF Entries, IsClient
  <2> QED BY <2>1, <2>2
<1>2. IsLog(left.disk) /\ Envelope(left) \in Entries(c.disk)
  <2>1. CASE left.disk = c.disk
    BY <2>1, LogFacts DEF IsClient, Envelope
  <2>2. ASSUME NEW x \in Entries(c.disk), left.disk = <<x>>
        PROVE  IsLog(left.disk) /\ Envelope(left) \in Entries(c.disk)
    BY <2>2, OneLog DEF Envelope
  <2> QED BY <1>1, <2>1, <2>2
<1>3. /\ DOMAIN c2 = {"disk", "warned", "seen"} /\ c2.warned = ~synced /\ c2.seen = None
      /\ c2.disk = IF synced THEN <<Envelope(left)>> ELSE left.disk
  BY DEF Open
<1> HIDE DEF c2
<1>4. IsClient(c2)
  BY <1>2, <1>3, OneLog DEF IsClient
<1>5. c2.disk = c.disk \/ \E x \in Entries(c.disk) : c2.disk = <<x>>
  BY <1>1, <1>2, <1>3
<1> QED BY <1>4, <1>5 DEF Becomes, c2

\* Accepting an answer saves the reconciled envelope.
LEMMA AcceptMove ==
  ASSUME NEW c, IsClient(c), NEW q, NEW p, p.time \in Nat, NEW result \in {"ok", "after", "before"}
  PROVE  Becomes(c, Accept(c, q, p, result), Reconciled(Envelope(c), q, p))
<1> DEFINE e == Reconciled(Envelope(c), q, p)
           saved == Save(c, e, result)
           c2 == [saved EXCEPT !.seen = IF result = "before" \/ saved.warned THEN None ELSE p.time]
<1>1. Becomes(c, saved, e)
  BY SaveMove
<1>2. Accept(c, q, p, result) = c2
  BY DEF Accept
<1> HIDE DEF saved, e
<1>3. /\ DOMAIN c2 = {"disk", "warned", "seen"} /\ c2.disk = saved.disk
      /\ c2.warned = saved.warned /\ c2.seen \in Nat \cup {None}
  BY <1>1 DEF Becomes, IsClient
<1> HIDE DEF c2
<1>4. IsClient(c2)
  BY <1>1, <1>3 DEF Becomes, IsClient
<1>5. Becomes(c, c2, e)
  BY <1>1, <1>3, <1>4 DEF Becomes
<1> QED BY <1>2, <1>5 DEF e

(***************************************************************************)
(* What a device holds after an operation                                  *)
(***************************************************************************)
ClientOK(made, d, c) == IsClient(c) /\ \A x \in Entries(c.disk) : EnvelopeOK(made, d, x)

\* Every envelope a power failure could bring back accounts for the command.
Covered(c, id) == \A x \in Entries(c.disk) : Accounted(x, id)

\* What one envelope or journal accounts for, the next does, but for what the user let go.
Carries(e, x, gone) == \A id : id \notin gone /\ Accounted(e, id) => Accounted(x, id)
StaysCovered(c, c2, gone) == \A id : id \notin gone /\ Covered(c, id) => Covered(c2, id)

\* A new envelope keeps the queue and the intents, or takes in an answer.
Refiles(made, d, e, x, gone) ==
  /\ EnvelopeOK(made, d, x) /\ x.pending = e.pending /\ x.confirmed = e.confirmed
  /\ Carries(e, x, gone)
Reconciles(made, d, e, x, q, p) ==
  /\ EnvelopeOK(made, d, x)
  /\ x.confirmed = p.snapshot /\ Begins(e.confirmed.history, x.confirmed.history)
  /\ \/ p.receipt = None /\ q.command = None /\ x.pending = e.pending
     \/ /\ q.command # None /\ p.receipt # None
        /\ e.pending # <<>> /\ Head(e.pending) = q.command /\ x.pending = Tail(e.pending)
  /\ Carries(e, x, {})

LEMMA LatestOK ==
  ASSUME NEW made, NEW d, NEW c, ClientOK(made, d, c)
  PROVE  /\ EnvelopeOK(made, d, Envelope(c)) /\ Envelope(c) \in Entries(c.disk)
         /\ EnvelopeOK(made, d, c.disk[1]) /\ c.disk[1] \in Entries(c.disk)
BY LogFacts DEF ClientOK, IsClient, Envelope

LEMMA ClientStays ==
  ASSUME NEW made, NEW more, Grows(made, more), NEW d, NEW c, ClientOK(made, d, c)
  PROVE  ClientOK(more, d, c)
BY EnvelopeStays DEF ClientOK

\* The journal stays in order, and covers what it covered.
LEMMA BecomesOK ==
  ASSUME NEW made, NEW more, Grows(made, more), NEW d, NEW c, ClientOK(made, d, c), NEW gone,
         NEW x, EnvelopeOK(more, d, x),
         Carries(Envelope(c), x, gone), NEW c2, Becomes(c, c2, x)
  PROVE  ClientOK(more, d, c2) /\ StaysCovered(c, c2, gone)
<1>1. IsClient(c2) /\ \A y \in Entries(c2.disk) : y \in Entries(c.disk) \/ y = x
  BY BecomesFacts DEF ClientOK, Becomes
<1>2. ClientOK(more, d, c2)
  BY <1>1, ClientStays DEF ClientOK
<1>3. Envelope(c) \in Entries(c.disk)
  BY LatestOK
<1> QED BY <1>1, <1>2, <1>3 DEF Covered, Carries, StaysCovered

LEMMA RefiledSame ==
  ASSUME NEW made, NEW d, NEW e, EnvelopeOK(made, d, e), NEW x, EnvelopeOK(made, d, x), NEW gone,
         x.pending = e.pending, x.confirmed = e.confirmed, Held(e) \subseteq Held(x) \cup gone
  PROVE  Refiles(made, d, e, x, gone)
<1>1. IsEnvelope(e) /\ IsEnvelope(x)
  BY DEF EnvelopeOK
<1> QED BY <1>1, AccountedFor DEF Refiles, Carries

LEMMA SuspensionRefiles ==
  ASSUME NEW made, NEW d, NEW e, EnvelopeOK(made, d, e), NEW s
  PROVE  Refiles(made, d, e, [e EXCEPT !.suspension = s], {})
<1> DEFINE x == [e EXCEPT !.suspension = s]
<1>1. /\ EnvelopeOK(made, d, x) /\ x.pending = e.pending
      /\ x.confirmed = e.confirmed /\ x.recovery = e.recovery
  BY SuspensionOK
<1> HIDE DEF x
<1>2. Held(x) = Held(e)
  BY <1>1 DEF Held
<1>3. Refiles(made, d, e, x, {})
  BY <1>1, <1>2, RefiledSame
<1> QED BY <1>3 DEF x

LEMMA SameRefiles ==
  ASSUME NEW made, NEW d, NEW e, EnvelopeOK(made, d, e), NEW gone
  PROVE  Refiles(made, d, e, e, gone)
BY DEF Refiles, Carries

\* Stopping, with a message or for good, and going on again.
LEMMA SuspendMove ==
  ASSUME NEW made, NEW d, NEW c, ClientOK(made, d, c), NEW quarantine,
         NEW result \in {"ok", "after", "before"}
  PROVE  \E x : Refiles(made, d, Envelope(c), x, {}) /\ Becomes(c, Suspend(c, quarantine, result), x)
<1> DEFINE e == Envelope(c)
           f == NetworkFailed(c)
           s == IF quarantine \/ e.suspension = "recovery" THEN "recovery" ELSE "attention"
           x == [e EXCEPT !.suspension = s]
<1>1. /\ IsClient(c) /\ EnvelopeOK(made, d, e) /\ IsClient(f) /\ f.disk = c.disk
  BY LatestOK, ForgetMove DEF ClientOK
<1>2. Suspend(c, quarantine, result) = Install(f, x, result)
  <2>1. "suspension" \in DOMAIN e
    BY <1>1 DEF EnvelopeOK, IsEnvelope, EnvelopeFields
  <2>2. x = [e EXCEPT !.suspension = IF quarantine \/ @ = "recovery" THEN "recovery" ELSE "attention"]
    BY <2>1
  <2> QED BY <2>2 DEF Suspend
<1>3. Refiles(made, d, e, x, {})
  BY <1>1, SuspensionRefiles
<1> HIDE DEF x, e, f
<1>4. Becomes(f, Install(f, x, result), x)
  BY <1>1, SaveMove
<1>5. Becomes(c, Install(f, x, result), x)
  BY <1>1, <1>4 DEF Becomes
<1> QED BY <1>2, <1>3, <1>5 DEF e

LEMMA ResumeMove ==
  ASSUME NEW made, NEW d, NEW c, ClientOK(made, d, c), NEW result \in {"ok", "after", "before"}
  PROVE  \E x : Refiles(made, d, Envelope(c), x, {}) /\ Becomes(c, Resume(c, result), x)
<1> DEFINE x == [Envelope(c) EXCEPT !.suspension = None]
<1>1. IsClient(c) /\ Refiles(made, d, Envelope(c), x, {})
  BY LatestOK, SuspensionRefiles DEF ClientOK
<1>2. Becomes(c, Install(c, x, result), x)
  BY <1>1, SaveMove
<1> QED BY <1>1, <1>2 DEF Resume

\* The user lets go of a refused command, and of nothing else.
LEMMA DismissMove ==
  ASSUME NEW made, NEW d, NEW c, ClientOK(made, d, c), NEW result \in {"ok", "after", "before"},
         NEW k \in DOMAIN Envelope(c).recovery
  PROVE  LET id == Envelope(c).recovery[k].command.id
         IN \E x : /\ Refiles(made, d, Envelope(c), x, {id})
                   /\ Becomes(c, DismissRecovery(c, id, result), x)
<1> DEFINE e == Envelope(c)
           id == e.recovery[k].command.id
           i == CHOOSE j \in DOMAIN e.recovery : e.recovery[j].command.id = id
           x == [e EXCEPT !.recovery = RemoveAt(@, i)]
<1>1. IsClient(c) /\ EnvelopeOK(made, d, e)
  BY LatestOK DEF ClientOK
<1>2. i \in DOMAIN e.recovery /\ e.recovery[i].command.id = id
  OBVIOUS
<1>3. DismissRecovery(c, id, result) = Install(c, x, result)
  BY DEF DismissRecovery
<1> HIDE DEF i, id, e
<1>4. /\ EnvelopeOK(made, d, x) /\ x.pending = e.pending /\ x.confirmed = e.confirmed
      /\ Held(e) \subseteq Held(x) \cup {id}
  BY <1>1, <1>2, DismissedOK
<1> HIDE DEF x
<1>5. Refiles(made, d, e, x, {id})
  BY <1>1, <1>4, RefiledSame
<1>6. Becomes(c, Install(c, x, result), x)
  BY <1>1, SaveMove
<1> QED BY <1>3, <1>5, <1>6 DEF e, id

(***************************************************************************)
(* The worker                                                              *)
(***************************************************************************)
WorkerOK(made, d, w) ==
  /\ DOMAIN w = {"request", "result", "halted", "discard"}
  /\ w.request = None => w.result = None
  /\ w.request # None => RequestOK(made, w.request) /\ w.request.device = d
  /\ w.result # None /\ w.result.reason = None => ResponseOK(w.request, w.result.response)

\* The worker's own result, when it is an answer that is still wanted.
Answer(w) == w.request # None /\ w.result # None /\ ~w.discard /\ w.result.reason = None

\* The worker keeps its request, or asks nothing; no answer becomes wanted.
Quiet(w, w2) ==
  \/ w2.request = None
  \/ w2.request = w.request /\ (Answer(w2) => Answer(w) /\ w2.result = w.result)

LEMMA WorkerStays ==
  ASSUME NEW made, NEW more, Grows(made, more), NEW d, NEW w, WorkerOK(made, d, w)
  PROVE  WorkerOK(more, d, w)
BY RequestStays DEF WorkerOK

LEMMA TakenMove ==
  ASSUME NEW made, IsMade(made), NEW d \in Device, NEW c, ClientOK(made, d, c),
         NEW w, WorkerOK(made, d, w), NEW saved \in {"ok", "after", "before"}
  PROVE  LET t == Taken(c, w, saved)
         IN /\ \E x : /\ Becomes(c, t.client, x)
                      /\ \/ Refiles(made, d, Envelope(c), x, {})
                         \/ /\ Answer(w)
                            /\ Reconciles(made, d, Envelope(c), x, w.request, w.result.response)
            /\ WorkerOK(made, d, t.worker)
            /\ t.worker = w \/ t.worker.request = None
            /\ t.return \in BOOLEAN
<1> DEFINE e == Envelope(c)
           t == Taken(c, w, saved)
           q == w.request
           p == w.result.response
           idle == Idle(w)
           halted == [idle EXCEPT !.halted = TRUE]
           Kind(x) == \/ Refiles(made, d, e, x, {})
                      \/ Answer(w) /\ Reconciles(made, d, e, x, q, p)
           Goal == /\ \E x : Becomes(c, t.client, x) /\ Kind(x)
                   /\ WorkerOK(made, d, t.worker)
                   /\ t.worker = w \/ t.worker.request = None
                   /\ t.return \in BOOLEAN
<1> SUFFICES Goal
  OBVIOUS
<1>0. \A x : Refiles(made, d, e, x, {}) => Kind(x)
  OBVIOUS
<1>1. IsClient(c) /\ EnvelopeOK(made, d, e) /\ Refiles(made, d, e, e, {})
  BY LatestOK, SameRefiles DEF ClientOK
<1>2. /\ WorkerOK(made, d, idle) /\ idle.request = None
      /\ WorkerOK(made, d, halted) /\ halted.request = None
  BY DEF WorkerOK, Idle
<1>3. CASE q = None \/ w.result = None
  <2>1. t.client = c /\ t.worker = w /\ t.return = FALSE
    BY <1>3 DEF Taken
  <2>2. Becomes(c, c, e)
    BY <1>1 DEF Becomes
  <2> HIDE DEF t, Kind
  <2> QED BY <1>0, <1>1, <2>1, <2>2
<1>4. CASE q # None /\ w.result # None /\ w.discard
  <2>1. t.client = NetworkFailed(c) /\ t.worker = idle /\ t.return = TRUE
    BY <1>4 DEF Taken
  <2>2. Becomes(c, NetworkFailed(c), e)
    BY <1>1, ForgetMove
  <2> HIDE DEF t, idle, Kind
  <2> QED BY <1>0, <1>1, <1>2, <2>1, <2>2
<1>5. CASE q # None /\ w.result # None /\ ~w.discard /\ w.result.reason = "Network"
  <2>1. t.client = NetworkFailed(c) /\ t.worker = idle /\ t.return = FALSE
    BY <1>5 DEF Taken
  <2>2. Becomes(c, NetworkFailed(c), e)
    BY <1>1, ForgetMove
  <2> HIDE DEF t, idle, Kind
  <2> QED BY <1>0, <1>1, <1>2, <2>1, <2>2
<1>6. CASE /\ q # None /\ w.result # None /\ ~w.discard /\ w.result.reason # "Network"
           /\ w.result.reason # None \/ ~CanAccept(c, q, p)
  <2> DEFINE fatal == IF w.result.reason # None
                      THEN w.result.reason \in {"WrongDataset", "HistoryMismatch"} ELSE FALSE
  <2>1. t.client = Suspend(c, fatal, saved) /\ t.worker = halted /\ t.return = FALSE
    BY <1>6 DEF Taken
  <2>2. PICK x : Refiles(made, d, e, x, {}) /\ Becomes(c, Suspend(c, fatal, saved), x)
    BY SuspendMove
  <2> HIDE DEF t, halted, fatal, Kind
  <2> QED BY <1>0, <1>2, <2>1, <2>2
<1>7. CASE /\ q # None /\ w.result # None /\ ~w.discard /\ w.result.reason = None
           /\ w.result.reason # "Network" /\ CanAccept(c, q, p)
  <2>1. t.client = Accept(c, q, p, saved) /\ t.worker = idle /\ t.return = FALSE
    BY <1>7 DEF Taken
  <2>2. RequestOK(made, q) /\ ResponseOK(q, p) /\ Answer(w)
    BY <1>7 DEF WorkerOK, Answer
  <2>3. Answers(e, q, p) /\ Extends(e, p)
    BY <1>7 DEF CanAccept
  <2> DEFINE x == Reconciled(e, q, p)
  <2> HIDE DEF t, idle, e, q, p
  <2>4. Reconciles(made, d, e, x, q, p)
    BY <1>1, <2>2, <2>3, ReconciledOK DEF Reconciles, Carries
  <2>5. p.time \in Nat
    BY <2>2 DEF ResponseOK
  <2>6. Becomes(c, Accept(c, q, p, saved), x)
    BY <1>1, <2>5, AcceptMove DEF e
  <2>7. Kind(x)
    BY <2>2, <2>4
  <2> HIDE DEF x, Kind
  <2> QED BY <1>2, <2>1, <2>6, <2>7
<1> QED BY <1>3, <1>4, <1>5, <1>6, <1>7

\* A tick: the result is taken, a doubtful save made durable, a request sent.
LEMMA TickMove ==
  ASSUME IsMade(composed), NEW d \in Device, ClientOK(composed, d, client[d]),
         WorkerOK(composed, d, worker[d]), NEW saved \in {"ok", "after", "before"},
         NEW synced \in BOOLEAN, NEW due \in BOOLEAN, TickWith(d, saved, synced, due)
  PROVE  \E c2, w2, x :
           /\ client' = [client EXCEPT ![d] = c2] /\ worker' = [worker EXCEPT ![d] = w2]
           /\ Becomes(client[d], c2, x)
           /\ \/ Refiles(composed, d, Envelope(client[d]), x, {})
              \/ /\ Answer(worker[d])
                 /\ Reconciles(composed, d, Envelope(client[d]), x,
                               worker[d].request, worker[d].result.response)
           /\ WorkerOK(composed, d, w2)
           /\ \/ (w2 = worker[d] \/ w2.request = None) /\ sent' = sent
              \/ /\ ~c2.warned /\ w2.request = NextRequest(c2, TokenOf(d)) /\ w2.result = None
                 /\ RequestOK(composed, w2.request) /\ w2.request.device = d
                 /\ sent' \in {sent, sent \cup {w2.request}}
                 /\ w2.request.command # None =>
                      w2.request.command.id \in Ids(Envelope(c2).pending)
                 /\ sent' # sent => w2.request.command # None
<1> DEFINE c == client[d]
           w == worker[d]
           e == Envelope(c)
           t == Taken(c, w, saved)
           ready == IF t.return THEN t.client ELSE Resync(t.client, synced)
           request == NextRequest(ready, TokenOf(d))
           sends == /\ due /\ ~t.return /\ ~t.worker.halted
                    /\ t.worker.request = None /\ CanRequest(ready)
           w2 == IF sends THEN [t.worker EXCEPT !.request = request] ELSE t.worker
           Kind(x) == \/ Refiles(composed, d, e, x, {})
                      \/ Answer(w) /\ Reconciles(composed, d, e, x, w.request, w.result.response)
<1>1. /\ client' = [client EXCEPT ![d] = ready] /\ worker' = [worker EXCEPT ![d] = w2]
      /\ sent' = IF sends /\ "late" \in Failure /\ request.command # None
                 THEN sent \cup {request} ELSE sent
  BY DEF TickWith
<1>2. /\ \E x : Becomes(c, t.client, x) /\ Kind(x)
      /\ WorkerOK(composed, d, t.worker)
      /\ t.worker = w \/ t.worker.request = None
      /\ t.return \in BOOLEAN
  <2>1. ClientOK(composed, d, c) /\ WorkerOK(composed, d, w)
    OBVIOUS
  <2> HIDE DEF c, w
  <2> QED BY <2>1, TakenMove
<1> HIDE DEF t
<1>3. PICK x : Becomes(c, t.client, x) /\ Kind(x)
  BY <1>2
<1>4. IsClient(c)
  BY DEF ClientOK
<1>5. Becomes(c, ready, x)
  <2> HIDE DEF c
  <2> QED BY <1>2, <1>3, <1>4, ResyncMove
<1>6. ClientOK(composed, d, ready)
  <2>1. EnvelopeOK(composed, d, x) /\ Carries(e, x, {})
    BY <1>3 DEF Refiles, Reconciles
  <2>2. Grows(composed, composed)
    BY DEF Grows
  <2> HIDE DEF ready, c
  <2> QED BY <1>5, <2>1, <2>2, BecomesOK DEF c
<1> HIDE DEF ready, c, w, e, Kind
<1>7. CASE ~sends
  <2>1. w2 = t.worker /\ sent' = sent
    BY <1>1, <1>7
  <2> HIDE DEF w2
  <2>2. WorkerOK(composed, d, w2) /\ (w2 = w \/ w2.request = None)
    BY <1>2, <2>1
  <2> QED BY <1>1, <1>3, <1>5, <2>1, <2>2 DEF c, w, e, Kind
<1>8. CASE sends
  <2>1. /\ t.worker.request = None /\ ~ready.warned
        /\ w2 = [t.worker EXCEPT !.request = request]
        /\ sent' \in {sent, sent \cup {request}}
        /\ sent' # sent => request.command # None
    BY <1>1, <1>8 DEF CanRequest
  <2>2. /\ RequestOK(composed, request) /\ request.device = d
        /\ request.command # None => request.command.id \in Ids(Envelope(ready).pending)
    BY <1>6, LatestOK, NextRequestOK
  <2>3. /\ DOMAIN t.worker = {"request", "result", "halted", "discard"}
        /\ t.worker.result = None
    BY <1>2, <2>1 DEF WorkerOK
  <2> HIDE DEF request
  <2>4. /\ DOMAIN w2 = {"request", "result", "halted", "discard"}
        /\ w2.request = request /\ w2.result = None
    BY <2>1, <2>3
  <2> HIDE DEF w2
  <2>5. WorkerOK(composed, d, w2)
    BY <2>2, <2>4 DEF WorkerOK
  <2> QED BY <1>1, <1>3, <1>5, <2>1, <2>2, <2>4, <2>5 DEF c, w, e, Kind, request
<1> QED BY <1>7, <1>8

(***************************************************************************)
(* The server: what it executed was asked on the branch it serves          *)
(***************************************************************************)
\* An executed intent was composed on an ancestor, a focus command on the parent itself.
Branch(made, s) ==
  \A i \in DOMAIN s.history :
    LET c == s.history[i].by
    IN c \in DOMAIN made =>
         /\ Begins(made[c].base, s.history)
         /\ IsFocus(made[c].command) => Len(made[c].base) = i - 1

Asked(made, rc) == DOMAIN rc \subseteq DOMAIN made \cup {Founding.id}

\* What is asked now is not in the history yet.
LEMMA BranchStays ==
  ASSUME NEW made, NEW more, IsMade(more), Grows(made, more),
         NEW st, NEW rc, NEW drawn, OneEffect(st, rc, drawn), Asked(made, rc),
         Branch(made, st.snapshot)
  PROVE  Branch(more, st.snapshot) /\ Asked(more, rc)
<1> DEFINE h == st.snapshot.history
<1>1. ASSUME NEW i \in DOMAIN h, h[i].by \in DOMAIN more PROVE h[i].by \in DOMAIN made
  <2>1. h[i].by \in CommandId /\ h[i].by # Founding.id
    BY <1>1 DEF IsMade
  <2>2. h[i].by \in DOMAIN rc
    BY <2>1 DEF OneEffect
  <2> QED BY <2>1, <2>2 DEF Asked
<1>2. \A c \in DOMAIN made : more[c] = made[c]
  BY DEF Grows
<1>3. Branch(more, st.snapshot)
  BY <1>1, <1>2 DEF Branch
<1> QED BY <1>3 DEF Grows, Asked

\* One link more, by a command whose intent stands where the chain was, or by nobody's.
LEMMA BranchLonger ==
  ASSUME NEW made, IsMade(made), NEW s, IsChain(s.history), Branch(made, s),
         NEW q, IsChain(q.history), NEW l, q.history = Append(s.history, l),
         Len(q.history) = Len(s.history) + 1,
         \A i \in DOMAIN s.history : q.history[i] = s.history[i],
         q.history[Len(s.history) + 1] = l,
         l.by \in DOMAIN made =>
           /\ Begins(made[l.by].base, s.history)
           /\ IsFocus(made[l.by].command) => Len(made[l.by].base) = Len(s.history)
  PROVE  Branch(made, q) /\ Begins(s.history, q.history)
<1> DEFINE h == s.history
           g == q.history
<1>1. Len(h) \in Nat /\ DOMAIN h = 1..Len(h) /\ DOMAIN g = 1..(Len(h) + 1)
  BY ChainLength
<1>2. Begins(h, g)
  BY <1>1 DEF Begins
<1>3. \A c \in DOMAIN made : Begins(made[c].base, h) => Begins(made[c].base, g)
  BY <1>2, BeginsThrough DEF IsMade
<1>4. ASSUME NEW i \in DOMAIN g, g[i].by \in DOMAIN made
      PROVE  /\ Begins(made[g[i].by].base, g)
             /\ IsFocus(made[g[i].by].command) => Len(made[g[i].by].base) = i - 1
  <2>1. CASE i \in DOMAIN h
    BY <1>3, <1>4, <2>1 DEF Branch
  <2>2. CASE i = Len(h) + 1
    BY <1>1, <1>3, <1>4, <2>2
  <2> QED BY <1>1, <2>1, <2>2
<1> QED BY <1>2, <1>4 DEF Branch

\* What the server makes of a request that stands on what it was sent from.
LEMMA ExchangeServes ==
  ASSUME Stored, IsMade(composed), Branch(composed, state.snapshot), Asked(composed, receipts),
         NEW request, RequestOK(composed, request), NEW sampled \in Nat,
         Exchange(request, sampled)
  PROVE  /\ Branch(composed, state'.snapshot) /\ Asked(composed, receipts')
         /\ Begins(state.snapshot.history, state'.snapshot.history)
         /\ ResponseOK(request, Response(request))
<1> DEFINE c == request.command
           h == state.snapshot.history
           g == state'.snapshot.history
           now == ServerTime(sampled)
           cp == request.checkpoint
<1>1. /\ Stored' /\ Final
      /\ c \in Command \cup {None} /\ request.device \in Device
  <2>1. c \in Command \cup {None} /\ request.device \in Device
    BY DEF RequestOK
  <2> QED BY <2>1, ExchangeKeeps
<1>2. /\ Sound(state) /\ Ancestry(state, history) /\ OneEffect(state, receipts, roots)
      /\ Sound(state') /\ Ancestry(state', history') /\ OneEffect(state', receipts', roots')
      /\ IsSnapshot(state.snapshot) /\ IsSnapshot(state'.snapshot)
      /\ IsChain(h) /\ IsChain(g) /\ lastTime \in Nat /\ lastTime' \in Nat
      /\ \A r \in DOMAIN history' : IsChain(history'[r])
      /\ \A r \in DOMAIN history : r \in Nat
  BY <1>1 DEF Stored, Good, IsDatabase, database, IsState, IsSnapshot
<1>3. /\ CheckpointRefusal(cp) = None /\ (c # None => cp # None) /\ now \in Nat
  <2>1. ExchangeError(request) = None
    BY DEF Exchange
  <2>2. CheckpointRefusal(cp) # None => ExchangeError(request) # None
    BY DEF ExchangeError, ??
  <2>3. ~(c = None \/ cp # None) => ExchangeError(request) # None
    <3>1. "Invalid" # None
      BY DistinctValues DEF Reason
    <3> QED BY <3>1 DEF ExchangeError, ??, Require
  <2> QED BY <1>2, <2>1, <2>2, <2>3 DEF ServerTime
<1>4. cp # None =>
        /\ cp.revision \in DOMAIN history /\ cp.revision <= state.snapshot.revision
        /\ history[cp.revision] = cp.history
  <2>1. "WrongDataset" # None /\ "HistoryMismatch" # None
    BY DistinctValues, ServerConstants DEF Reason
  <2> QED BY <1>3, <2>1 DEF CheckpointRefusal, ??, Require
<1> HIDE DEF now, c, cp
<1>5. /\ DOMAIN receipts' = DOMAIN receipts \cup (IF c = None THEN {} ELSE {c.id})
  <2>1. CASE c = None \/ c.id \in DOMAIN receipts
    BY <2>1 DEF Exchange, c
  <2>2. CASE ~(c = None \/ c.id \in DOMAIN receipts)
    BY <2>2 DEF Exchange, Execute, c
  <2> QED BY <2>1, <2>2
<1>6. Asked(composed, receipts')
  <2>1. c # None => c.id \in DOMAIN composed
    BY DEF RequestOK, Meant, c
  <2> QED BY <1>5, <2>1 DEF Asked
<1>7. \/ UNCHANGED <<state, history>>
      \/ /\ c # None /\ c.id \notin DOMAIN receipts /\ Refusal(state, c, now) = None
         /\ state' = Apply(state, c, now)
         /\ \A r \in DOMAIN history : r # state.snapshot.revision + 1 =>
              r \in DOMAIN history' /\ history'[r] = history[r]
  <2>1. CASE c = None \/ c.id \in DOMAIN receipts
    BY <2>1 DEF Exchange, c
  <2>2. CASE ~(c = None \/ c.id \in DOMAIN receipts)
    <3> DEFINE outcome == Outcome(c, now)
    <3>1. Execute(request.device, c, now)
      BY <2>2 DEF Exchange, c, now
    <3>2. CASE outcome.status = "applied"
      <4>1. Refusal(state, c, now) = None /\ outcome.revision = state.snapshot.revision + 1
        BY <3>2 DEF Outcome, Rejected, Applied
      <4>2. /\ state' = Apply(state, c, now)
            /\ history' = [r \in DOMAIN history \cup {outcome.revision} |->
                  IF r = outcome.revision THEN Apply(state, c, now).snapshot.history
                  ELSE history[r]]
        BY <3>1, <3>2 DEF Execute
      <4> HIDE DEF outcome
      <4> QED BY <2>2, <4>1, <4>2
    <3>3. CASE outcome.status # "applied"
      BY <3>1, <3>3 DEF Execute
    <3> QED BY <3>2, <3>3
  <2> QED BY <2>1, <2>2
<1>8. Branch(composed, state'.snapshot) /\ Begins(h, g)
  <2>1. CASE UNCHANGED <<state, history>>
    BY <1>2, <2>1, BeginsItself
  <2>2. CASE /\ c # None /\ c.id \notin DOMAIN receipts /\ Refusal(state, c, now) = None
             /\ state' = Apply(state, c, now)
    <3> DEFINE l == Link(c.id, state'.snapshot)
    <3>1. c \in Command /\ g = Append(h, l) /\ c.id \in Token
      BY <1>1, <1>2, <1>3, <2>2, ApplySound, CommandKinds DEF c
    <3>2. IsBody(state'.snapshot)
      BY <1>2 DEF IsSnapshot
    <3>3. /\ Len(g) = Len(h) + 1 /\ g[Len(h) + 1] = l /\ Len(h) \in Nat
          /\ \A i \in DOMAIN h : g[i] = h[i]
      BY <1>2, <3>1, <3>2, Linked
    <3>4. l.by = c.id
      BY DEF Link
    <3> HIDE DEF l
    <3>5. cp # None /\ Aimed(composed[c.id], cp) /\ composed[c.id].command = c
      BY <1>3, <2>2 DEF RequestOK, Meant, c, cp
    <3>6. IsChain(cp.history) /\ IsChain(composed[c.id].base)
      BY <2>2 DEF RequestOK, IsMade, Meant, cp, c
    <3>7. Begins(cp.history, h)
      BY <1>2, <1>4, <3>5, <3>6, RowBegins
    <3>8. Begins(composed[c.id].base, h)
      BY <1>2, <3>5, <3>6, <3>7, BeginsThrough DEF Aimed
    <3>9. IsFocus(c) => Len(composed[c.id].base) = Len(h)
      <4> SUFFICES ASSUME IsFocus(c) PROVE composed[c.id].base = h
        OBVIOUS
      <4>1. c.guard.revision = state.snapshot.revision
        <5>1. GuardRefusal(state.snapshot, c.guard, now) = None
          <6>1. c.action.op # "Initialize"
            BY <3>1, DistinctValues DEF IsFocus, Command, Focused
          <6>2. \A x, y : (x ?? y) = None => x = None /\ y = None
            BY DEF ??
          <6> QED BY <2>2, <6>1, <6>2 DEF Refusal
        <5>2. \A x, y : (x ?? y) = None => y = None
          BY DEF ??
        <5>3. "Conflict" # None
          BY DistinctValues DEF Reason
        <5> QED BY <5>1, <5>2, <5>3 DEF GuardRefusal, Require
      <4>2. state.snapshot.revision \in Nat /\ cp.revision \in Nat
        BY <1>2, <1>4, <3>5 DEF IsSnapshot, IsBody
      <4>3. composed[c.id].base = cp.history /\ c.guard.revision = cp.revision
        BY <1>4, <3>5, <4>1, <4>2 DEF Aimed
      <4>4. history[state.snapshot.revision] = h
        BY <1>2 DEF Ancestry
      <4> QED BY <1>4, <3>5, <4>1, <4>3, <4>4
    <3>10. l.by \in DOMAIN composed =>
             /\ Begins(composed[l.by].base, h)
             /\ IsFocus(composed[l.by].command) => Len(composed[l.by].base) = Len(h)
      BY <3>4, <3>5, <3>8, <3>9
    <3>11. Branch(composed, state'.snapshot) /\ Begins(h, g)
      BY <1>2, <3>1, <3>3, <3>10, BranchLonger
    <3> QED BY <3>11
  <2> QED BY <1>7, <2>1, <2>2
<1>9. ResponseOK(request, Response(request))
  <2> DEFINE p == Response(request)
  <2>1. /\ p.snapshot = state'.snapshot /\ p.time = lastTime'
        /\ c # None => p.receipt.outcome = receipts'[c.id].outcome
    BY DEF Response, c
  <2> HIDE DEF p
  <2>2. ASSUME cp # None PROVE Begins(cp.history, g)
    <3>1. IsChain(cp.history)
      BY DEF RequestOK, cp
    <3>2. Begins(cp.history, h)
      BY <1>2, <1>4, <2>2, <3>1, RowBegins
    <3> QED BY <1>2, <1>8, <3>1, <3>2, BeginsThrough
  <2>3. ASSUME c # None, receipts'[c.id].outcome.status = "applied"
        PROVE  c.id \in Applies(state'.snapshot)
    <3>1. c.id \in DOMAIN receipts'
      BY <1>5, <2>3
    <3>2. \E i \in DOMAIN g : g[i].by = c.id
      BY <1>2, <2>3, <3>1 DEF OneEffect
    <3> QED BY <3>2, AppliesAre
  <2> QED BY <1>2, <2>1, <2>2, <2>3 DEF ResponseOK, p, c, cp
<1> QED BY <1>6, <1>8, <1>9

\* A backup that comes back holds what was asked on its own branch.
LEMMA RestoreServes ==
  ASSUME Stored, IsMade(composed), artifact # None => Branch(composed, artifact.state.snapshot),
         RawRestore \/ RestoreGeneration
  PROVE  Branch(composed, state'.snapshot)
<1>1. artifact # None /\ Stored'
  BY RestoreKeeps
<1>2. CASE RawRestore
  BY <1>1, <1>2 DEF RawRestore
<1>3. CASE RestoreGeneration
  <2> DEFINE g == FreshIn(Generation, roots)
             s == artifact.state.snapshot
             q == state'.snapshot
             l == Link(g, q)
  <2>1. g \in Generation /\ g \in Token /\ g \notin CommandId
    BY <1>3, Drawing, DistinctValues DEF RestoreGeneration, Token
  <2>2. state' = ResetGeneration(artifact.state, g)
    BY <1>3 DEF RestoreGeneration
  <2> HIDE DEF g
  <2>3. Sound(artifact.state) /\ IsChain(s.history)
    BY <1>1, SoundFacts DEF Stored, Good
  <2>4. Sound(state') /\ q.history = Append(s.history, l)
    BY <2>1, <2>2, <2>3, ResetGenerationSound
  <2>5. IsBody(q) /\ IsChain(q.history)
    BY <2>4 DEF Sound, IsState, IsSnapshot
  <2>6. /\ Len(q.history) = Len(s.history) + 1 /\ q.history[Len(s.history) + 1] = l
        /\ \A i \in DOMAIN s.history : q.history[i] = s.history[i]
    BY <2>1, <2>3, <2>4, <2>5, Linked
  <2>7. l.by \notin DOMAIN composed
    BY <2>1 DEF Link, IsMade
  <2> HIDE DEF l, q, s
  <2>8. Branch(composed, s)
    BY <1>1 DEF s
  <2>9. Branch(composed, q)
    BY <2>3, <2>4, <2>5, <2>6, <2>7, <2>8, BranchLonger
  <2> QED BY <2>9 DEF q
<1> QED BY <1>2, <1>3

(***************************************************************************)
(* The inductive invariant                                                 *)
(***************************************************************************)
SyncInv ==
  /\ Stored /\ IsMade(composed)
  /\ Asked(composed, receipts) /\ Branch(composed, state.snapshot)
  /\ artifact # None =>
       Asked(composed, artifact.receipts) /\ Branch(composed, artifact.state.snapshot)
  /\ client = [d \in Device |-> client[d]] /\ worker = [d \in Device |-> worker[d]]
  /\ \A d \in Device : ClientOK(composed, d, client[d]) /\ WorkerOK(composed, d, worker[d])
  /\ \A r \in sent : RequestOK(composed, r)
  /\ \A id \in promised \ dismissed :
       id \in DOMAIN composed /\ Covered(client[composed[id].device], id)

\* f is v at d and else as it was.
Only(d, f, g, v) ==
  g = [x \in Device |-> g[x]] /\ g[d] = v /\ \A x \in Device \ {d} : g[x] = f[x]

LEMMA OnlyOne ==
  ASSUME NEW f, f = [x \in Device |-> f[x]], NEW d \in Device
  PROVE  Only(d, f, f, f[d]) /\ \A v : Only(d, f, [f EXCEPT ![d] = v], v)
BY DEF Only

\* What a journal without a warning reports saved is covered by it.
Reported(c) == IF c.warned THEN {} ELSE Ids(Envelope(c).pending)

LEMMA PendingCovered ==
  ASSUME NEW made, NEW d, NEW c, ClientOK(made, d, c), NEW id \in Reported(c)
  PROVE  id \in DOMAIN made /\ made[id].device = d /\ Covered(c, id)
<1> DEFINE e == Envelope(c)
<1>0. ~c.warned /\ id \in Ids(e.pending)
  BY DEF Reported
<1>1. EnvelopeOK(made, d, e) /\ IsEnvelope(e)
  BY LatestOK DEF EnvelopeOK
<1>2. id \in DOMAIN made /\ made[id].device = d
  BY <1>0, <1>1 DEF EnvelopeOK, Ids, Meant
<1>3. Accounted(e, id)
  BY <1>0, <1>1, AccountedFor
<1>4. \A x \in Entries(c.disk) : x = e
  BY <1>0, LogFacts DEF ClientOK, IsClient, Entries, Envelope
<1> QED BY <1>2, <1>3, <1>4 DEF Covered

\* A device does something to its journal and its worker.
LEMMA DeviceStep ==
  ASSUME SyncInv, UNCHANGED serverVars, NEW d \in Device, IsMade(composed'),
         Grows(composed, composed'), NEW c2, NEW w2,
         Only(d, client, client', c2), Only(d, worker, worker', w2),
         ClientOK(composed', d, c2), WorkerOK(composed', d, w2),
         \A r \in sent' : r \in sent \/ RequestOK(composed', r),
         NEW gone, dismissed' = dismissed \cup gone, StaysCovered(client[d], c2, gone),
         promised' \subseteq promised \cup Reported(c2)
  PROVE  SyncInv'
<1>1. /\ UNCHANGED <<state, history, receipts, artifact>>
      /\ Stored'
  BY DEF SyncInv, serverVars, server, Stored, database
<1>2. /\ Branch(composed', state.snapshot) /\ Asked(composed', receipts)
      /\ artifact # None =>
           Branch(composed', artifact.state.snapshot) /\ Asked(composed', artifact.receipts)
  BY BranchStays DEF SyncInv, Stored, Good
<1>3. \A e \in Device : ClientOK(composed', e, client'[e]) /\ WorkerOK(composed', e, worker'[e])
  BY ClientStays, WorkerStays DEF SyncInv, Only
<1>4. \A r \in sent' : RequestOK(composed', r)
  BY RequestStays DEF SyncInv
<1>5. ASSUME NEW id \in promised' \ dismissed'
      PROVE  id \in DOMAIN composed' /\ Covered(client'[composed'[id].device], id)
  <2>1. CASE id \in promised
    <3>1. /\ id \in DOMAIN composed /\ id \notin gone
          /\ Covered(client[composed[id].device], id)
          /\ id \in DOMAIN composed' /\ composed'[id] = composed[id]
          /\ composed[id].device \in Device
      BY <2>1 DEF SyncInv, Grows, IsMade
    <3>2. Covered(client[composed[id].device], id) => Covered(c2, id) \/ composed[id].device # d
      BY <3>1 DEF StaysCovered
    <3> QED BY <3>1, <3>2 DEF Only
  <2>2. CASE id \notin promised
    <3>1. id \in Reported(c2)
      BY <2>2
    <3>2. id \in DOMAIN composed' /\ composed'[id].device = d /\ Covered(c2, id)
      BY <3>1, PendingCovered
    <3> QED BY <3>2 DEF Only
  <2> QED BY <2>1, <2>2
<1> QED BY <1>1, <1>2, <1>3, <1>4, <1>5 DEF SyncInv, Only

\* The network or the server hands a worker its result.
LEMMA ResultStep ==
  ASSUME SyncInv, NEW d \in Device, NEW result, Waiting(d), Answered(d, result),
         result # None /\ result.reason = None => ResponseOK(worker[d].request, result.response),
         UNCHANGED <<client, composed, promised, dismissed, sent>>,
         Stored', Asked(composed, receipts'), Branch(composed, state'.snapshot), artifact' = artifact
  PROVE  SyncInv'
<1> DEFINE w == worker[d]
           w2 == [w EXCEPT !.result = result]
<1>1. worker' = [worker EXCEPT ![d] = w2]
  <2>1. worker' = [worker EXCEPT ![d].result = result]
    BY DEF Answered
  <2>2. worker = [x \in Device |-> worker[x]]
    BY DEF SyncInv
  <2> QED BY <2>1, <2>2
<1>2. WorkerOK(composed, d, w) /\ w.request # None
  BY DEF SyncInv, Waiting
<1>3. /\ DOMAIN w2 = {"request", "result", "halted", "discard"}
      /\ w2.request = w.request /\ w2.result = result
  BY <1>2 DEF WorkerOK
<1> HIDE DEF w2
<1>4. WorkerOK(composed, d, w2)
  BY <1>2, <1>3 DEF WorkerOK
<1>5. Only(d, worker, worker', w2)
  BY <1>1, OnlyOne DEF SyncInv
<1>6. /\ worker' = [x \in Device |-> worker'[x]]
      /\ \A x \in Device : WorkerOK(composed, x, worker'[x])
  BY <1>4, <1>5 DEF Only, SyncInv
<1> QED BY <1>6 DEF SyncInv

(***************************************************************************)
(* The actions                                                             *)
(***************************************************************************)
LEMMA FreshCommand ==
  ASSUME IsMade(composed), CommandsLeft
  PROVE  /\ NewCommand \in CommandId /\ NewCommand \notin DOMAIN composed \cup {Founding.id}
         /\ Founding.id \in CommandId
<1>1. Founding.id \in CommandId
  BY Drawing, SyncConstants DEF Founding
<1>2. DOMAIN composed \cup {Founding.id} \subseteq CommandId
  BY <1>1 DEF IsMade
<1>3. CommandId \ (DOMAIN composed \cup {Founding.id}) # {}
  BY <1>2 DEF CommandsLeft
<1> QED BY <1>1, <1>3, Drawing DEF NewCommand

\* A user gives a command, and the journal takes it.
LEMMA EnqueueMove ==
  ASSUME SyncInv, NEW d \in Device, NEW command \in Command, command.action.op # "Initialize",
         command.id \notin DOMAIN composed \cup {Founding.id},
         IsFocus(command) => command.guard.revision = env(d).confirmed.revision,
         NEW saved \in SaveResult, Enqueue(d, command, saved)
  PROVE  \E c2 :
           LET e == env(d)
               x == Enqueued(e, command)
           IN /\ client' = [client EXCEPT ![d] = c2] /\ Becomes(client[d], c2, x)
              /\ composed' = With(composed, d, command, e.confirmed.history)
              /\ IsMade(composed') /\ Grows(composed, composed') /\ EnvelopeOK(composed', d, x)
              /\ x.pending = Append(e.pending, command)
              /\ x.confirmed = e.confirmed /\ x.recovery = e.recovery
<1> DEFINE c == client[d]
           e == env(d)
           x == Enqueued(e, command)
           more == With(composed, d, command, e.confirmed.history)
           c2 == Install(c, x, saved)
<1>1. client' = [client EXCEPT ![d] = c2]
  <2>1. client' = [client EXCEPT ![d] = Install(@, Enqueued(Envelope(@), command), saved)]
    BY DEF Enqueue
  <2>2. client = [k \in Device |-> client[k]]
    BY DEF SyncInv
  <2> QED BY <2>1, <2>2 DEF env
<1>2. composed' = more
  BY DEF Enqueue, With
<1>3. IsMade(composed) /\ ClientOK(composed, d, c)
  BY DEF SyncInv
<1>4. EnvelopeOK(composed, d, e) /\ IsChain(e.confirmed.history)
  BY <1>3, LatestOK DEF env, EnvelopeOK, IsEnvelope, IsSnapshot
<1> HIDE DEF e
<1>5. IsMade(more) /\ Grows(composed, more)
  BY <1>3, <1>4, MadeWith
<1>6. /\ EnvelopeOK(more, d, x) /\ x.pending = Append(e.pending, command)
      /\ x.confirmed = e.confirmed /\ x.recovery = e.recovery
  BY <1>3, <1>4, EnqueuedOK DEF e
<1> HIDE DEF x
<1>7. Becomes(c, c2, x)
  BY <1>3, SaveMove DEF ClientOK, SaveResult
<1> HIDE DEF c2, c, more
<1> QED BY <1>1, <1>2, <1>5, <1>6, <1>7 DEF e, x, c, more

LEMMA EnqueueOK ==
  ASSUME SyncInv, NEW d \in Device, NEW command \in Command, command.action.op # "Initialize",
         command.id \notin DOMAIN composed \cup {Founding.id},
         IsFocus(command) => command.guard.revision = env(d).confirmed.revision,
         NEW saved \in SaveResult, Enqueue(d, command, saved)
  PROVE  SyncInv'
<1> DEFINE e == env(d)
           x == Enqueued(e, command)
<1>1. PICK c2 :
        /\ client' = [client EXCEPT ![d] = c2] /\ Becomes(client[d], c2, x)
        /\ IsMade(composed') /\ Grows(composed, composed') /\ EnvelopeOK(composed', d, x)
        /\ x.pending = Append(e.pending, command)
        /\ x.confirmed = e.confirmed /\ x.recovery = e.recovery
  BY EnqueueMove
<1> HIDE DEF x
<1>2. ClientOK(composed, d, client[d]) /\ WorkerOK(composed, d, worker[d])
  BY DEF SyncInv
<1>3. EnvelopeOK(composed, d, e) /\ e = Envelope(client[d])
  BY <1>2, LatestOK DEF env
<1> HIDE DEF e
<1>4. Carries(e, x, {})
  <2>1. e.pending \in Seq(Command) /\ IsEnvelope(e) /\ IsEnvelope(x)
    BY <1>1, <1>3 DEF EnvelopeOK, IsEnvelope
  <2>2. \A i \in DOMAIN e.pending : i \in DOMAIN x.pending /\ x.pending[i] = e.pending[i]
    <3>1. /\ DOMAIN e.pending = 1..Len(e.pending) /\ Len(e.pending) \in Nat
      BY <2>1, LenProperties
    <3>2. /\ Append(e.pending, command) \in Seq(Command)
          /\ Len(Append(e.pending, command)) = Len(e.pending) + 1
          /\ \A i \in 1..Len(e.pending) : Append(e.pending, command)[i] = e.pending[i]
      BY <2>1, AppendProperties
    <3>3. DOMAIN x.pending = 1..(Len(e.pending) + 1)
      BY <1>1, <3>2, LenProperties
    <3> QED BY <1>1, <3>1, <3>2, <3>3
  <2>3. Ids(e.pending) \subseteq Ids(x.pending) /\ Held(e) = Held(x)
    BY <1>1, <2>2 DEF Ids, Held
  <2> QED BY <1>1, <2>1, <2>3, AccountedFor DEF Carries
<1>5. ClientOK(composed', d, c2) /\ StaysCovered(client[d], c2, {})
  BY <1>1, <1>2, <1>3, <1>4, BecomesOK
<1>6. Only(d, client, client', c2) /\ Only(d, worker, worker', worker[d])
  <2>1. worker' = worker
    BY DEF Enqueue
  <2> QED BY <1>1, <2>1, OnlyOne DEF SyncInv
<1>7. WorkerOK(composed', d, worker[d])
  BY <1>1, <1>2, WorkerStays
<1>8. /\ UNCHANGED serverVars /\ sent' = sent /\ dismissed' = dismissed \cup {}
      /\ promised' \subseteq promised \cup Reported(c2)
  <2>1. /\ UNCHANGED serverVars /\ sent' = sent /\ dismissed' = dismissed /\ Promises(d)
    BY DEF Enqueue
  <2>2. client'[d] = c2
    BY <1>6 DEF Only
  <2> QED BY <2>1, <2>2 DEF Promises, Reported
<1> QED BY <1>1, <1>5, <1>6, <1>7, <1>8, DeviceStep

\* What users ask is a new command, a task they create has a new identity, and a focus
\* command carries the guard of what is shown.
Asks(d, command, saved) ==
  /\ command \in Command /\ saved \in SaveResult
  /\ CreatedTask(command) # None => CreatedTask(command) \notin TasksDrawn
  /\ command.action.op # "Initialize" /\ command.id \notin DOMAIN composed \cup {Founding.id}
  /\ IsFocus(command) => command.guard.revision = env(d).confirmed.revision
  /\ Enqueue(d, command, saved) /\ EnvelopeValid(Enqueued(env(d), command))

LEMMA DrawableNew ==
  ASSUME NEW command, Drawable(command.action), CreatedTask(command) # None
  PROVE  CreatedTask(command) \notin TasksDrawn
<1>1. /\ command.action.op \in {"Create", "CreateNow"}
      /\ CreatedTask(command) = command.action.task
  BY DEF CreatedTask
<1>2. ~(TaskId \subseteq TasksDrawn) /\ CreatedTask(command) = FreshIn(TaskId, TasksDrawn)
  BY <1>1 DEF Drawable
<1> HIDE DEF TasksDrawn
<1> QED BY <1>2, Drawing

LEMMA EditAsks ==
  ASSUME SyncInv, NEW d \in Device, Edit(d)
  PROVE  \E command, saved : Asks(d, command, saved)
<1> DEFINE e == env(d)
           shown == Projection(e).state.snapshot
<1>1. PICK a \in QueuedActions(shown), saved \in SaveResult :
        LET command == [id |-> NewCommand, generation |-> e.confirmed.generation,
                        guard |-> None, action |-> a]
        IN /\ Enqueue(d, command, saved) /\ EnvelopeValid(Enqueued(e, command))
           /\ Drawable(a)
  BY DEF Edit, CanEnqueueQueued, env
<1> DEFINE command == [id |-> NewCommand, generation |-> e.confirmed.generation,
                       guard |-> None, action |-> a]
<1>2. IsEnvelope(e)
  BY LatestOK DEF SyncInv, env, EnvelopeOK
<1>3. a \in Queued /\ e.confirmed.generation \in Generation
  <2>1. IsSnapshot(shown)
    BY <1>2, ShownTyped
  <2>2. QueuedActions(shown) \subseteq Queued
    BY <2>1, IntentsTyped
  <2> QED BY <1>2, <2>2 DEF IsEnvelope, IsSnapshot, IsBody
<1>4. /\ NewCommand \in CommandId /\ NewCommand \notin DOMAIN composed \cup {Founding.id}
  BY FreshCommand DEF SyncInv, Edit
<1>5. command \in Command /\ ~IsFocus(command) /\ command.id = NewCommand
  BY <1>3, <1>4 DEF Command, IsFocus
<1>6. command.action.op # "Initialize"
  BY <1>3 DEF Queued
<1>7. Enqueue(d, command, saved) /\ EnvelopeValid(Enqueued(e, command))
  BY <1>1
<1>8. CreatedTask(command) # None => CreatedTask(command) \notin TasksDrawn
  <2>1. Drawable(command.action)
    BY <1>1
  <2> HIDE DEF command
  <2> QED BY <2>1, DrawableNew
<1> HIDE DEF command
<1> QED BY <1>4, <1>5, <1>6, <1>7, <1>8 DEF Asks

LEMMA FocusAsks ==
  ASSUME SyncInv, NEW d \in Device, Focus(d)
  PROVE  \E command, saved : Asks(d, command, saved)
<1> DEFINE e == env(d)
           shown == e.confirmed
           guard == ObservedGuard(shown, client[d].seen)
<1>1. PICK a \in FocusActions(shown), saved \in SaveResult :
        LET command == [id |-> NewCommand, generation |-> shown.generation,
                        guard |-> guard, action |-> a]
        IN /\ Enqueue(d, command, saved) /\ EnvelopeValid(Enqueued(e, command))
           /\ Drawable(a)
  BY DEF Focus, CanEnqueueFocus, env
<1> DEFINE command == [id |-> NewCommand, generation |-> shown.generation,
                       guard |-> guard, action |-> a]
<1>2. IsEnvelope(e) /\ client[d].seen \in Nat
  <2>1. ClientOK(composed, d, client[d]) /\ client[d].seen # None
    BY DEF SyncInv, Focus
  <2>2. EnvelopeOK(composed, d, Envelope(client[d])) /\ client[d].seen \in Nat \cup {None}
    BY <2>1, LatestOK DEF ClientOK, IsClient
  <2> QED BY <2>1, <2>2 DEF env, EnvelopeOK
<1>3. a \in Focused /\ shown.generation \in Generation /\ guard \in Guard
  <2>1. IsSnapshot(shown)
    BY <1>2 DEF IsEnvelope
  <2>2. FocusActions(shown) \subseteq Focused /\ guard \in Guard
    BY <1>2, <2>1, IntentsTyped, GuardTyped
  <2> QED BY <2>1, <2>2 DEF IsSnapshot, IsBody
<1>4. /\ NewCommand \in CommandId /\ NewCommand \notin DOMAIN composed \cup {Founding.id}
  BY FreshCommand DEF SyncInv, Focus
<1>5. guard.revision = shown.revision
  BY DEF ObservedGuard
<1> HIDE DEF guard
<1>6. command \in Command /\ command.id = NewCommand /\ command.guard.revision = shown.revision
  BY <1>3, <1>4, <1>5 DEF Command
<1>7. command.action.op # "Initialize"
  BY <1>3 DEF Focused
<1>8. Enqueue(d, command, saved) /\ EnvelopeValid(Enqueued(e, command))
  BY <1>1
<1>9. CreatedTask(command) # None => CreatedTask(command) \notin TasksDrawn
  <2>1. Drawable(command.action)
    BY <1>1
  <2> HIDE DEF command
  <2> QED BY <2>1, DrawableNew
<1> HIDE DEF command
<1> QED BY <1>4, <1>6, <1>7, <1>8, <1>9 DEF Asks

\* A step of device d that leaves pending what is pending: the journal would save x, which
\* lets go of `gone`, and the worker takes up nothing.
Turns(d, c2, w2, x, gone) ==
  /\ client' = [client EXCEPT ![d] = c2] /\ worker' = [worker EXCEPT ![d] = w2]
  /\ Becomes(client[d], c2, x) /\ Refiles(composed, d, Envelope(client[d]), x, gone)
  /\ WorkerOK(composed, d, w2) /\ Quiet(worker[d], w2)
  /\ UNCHANGED <<serverVars, sent, composed, restores>>
  /\ dismissed' = dismissed \cup gone /\ promised' \subseteq promised \cup Reported(c2)

LEMMA DismissTurns ==
  ASSUME SyncInv, NEW d \in Device, Dismiss(d)
  PROVE  \E c2, w2, x, gone : Turns(d, c2, w2, x, gone)
<1> DEFINE c == client[d]
<1>1. PICK k \in DOMAIN env(d).recovery, saved \in SaveResult :
        LET id == env(d).recovery[k].command.id
        IN /\ client' = [client EXCEPT ![d] = DismissRecovery(@, id, saved)]
           /\ dismissed' = dismissed \cup {id}
           /\ UNCHANGED <<serverVars, worker, sent, composed, promised, restores>>
  BY DEF Dismiss
<1> DEFINE id == env(d).recovery[k].command.id
           c2 == DismissRecovery(c, id, saved)
<1>2. ClientOK(composed, d, c) /\ IsMade(composed) /\ WorkerOK(composed, d, worker[d])
  BY DEF SyncInv
<1>3. PICK x : Refiles(composed, d, Envelope(c), x, {id}) /\ Becomes(c, c2, x)
  <2>1. saved \in {"ok", "after", "before"} /\ k \in DOMAIN Envelope(c).recovery
    BY DEF SaveResult, env
  <2> HIDE DEF c
  <2> QED BY <1>2, <2>1, DismissMove DEF env, c
<1>4. Quiet(worker[d], worker[d])
  BY DEF Quiet
<1>5. client' = [client EXCEPT ![d] = c2] /\ worker' = [worker EXCEPT ![d] = worker[d]]
  BY <1>1 DEF SyncInv
<1> HIDE DEF c2, id
<1>6. /\ UNCHANGED <<serverVars, sent, composed, restores>>
      /\ dismissed' = dismissed \cup {id} /\ promised' \subseteq promised \cup Reported(c2)
  BY <1>1 DEF id
<1> QED BY <1>2, <1>3, <1>4, <1>5, <1>6 DEF Turns

\* What a device reports it reports of the journal it has then.
LEMMA PromisesThat ==
  ASSUME NEW d \in Device, client = [x \in Device |-> client[x]], NEW c2,
         client' = [client EXCEPT ![d] = c2], Promises(d)
  PROVE  promised' \subseteq promised \cup Reported(c2)
<1>1. client'[d] = c2
  OBVIOUS
<1> QED BY <1>1 DEF Promises, Reported

\* Such a step keeps what is asked and promised.
LEMMA TurnsOK ==
  ASSUME SyncInv, NEW d \in Device, NEW c2, NEW w2, NEW x, NEW gone, Turns(d, c2, w2, x, gone)
  PROVE  SyncInv'
<1>1. ClientOK(composed, d, client[d]) /\ IsMade(composed) /\ Grows(composed, composed)
  BY DEF SyncInv, Grows
<1>2. ClientOK(composed, d, c2) /\ StaysCovered(client[d], c2, gone)
  BY <1>1, BecomesOK DEF Turns, Refiles
<1>3. Only(d, client, client', c2) /\ Only(d, worker, worker', w2)
  BY OnlyOne DEF SyncInv, Turns
<1>4. /\ UNCHANGED serverVars /\ sent' = sent /\ composed' = composed
      /\ dismissed' = dismissed \cup gone /\ promised' \subseteq promised \cup Reported(c2)
      /\ WorkerOK(composed, d, w2)
  BY DEF Turns
<1> QED BY <1>1, <1>2, <1>3, <1>4, DeviceStep

LEMMA RetryTurns ==
  ASSUME SyncInv, NEW d \in Device, Retry(d)
  PROVE  \E c2, w2, x, gone : Turns(d, c2, w2, x, gone)
<1> DEFINE c == client[d]
           w == worker[d]
           w2 == [w EXCEPT !.halted = FALSE]
<1>1. PICK saved \in SaveResult :
        /\ client' = [client EXCEPT ![d] = Resume(@, saved)]
        /\ worker' = [worker EXCEPT ![d].halted = FALSE]
        /\ Promises(d) /\ UNCHANGED <<serverVars, sent, composed, dismissed, restores>>
  BY DEF Retry
<1>2. ClientOK(composed, d, c) /\ WorkerOK(composed, d, w)
  BY DEF SyncInv
<1>3. PICK x : Refiles(composed, d, Envelope(c), x, {}) /\ Becomes(c, Resume(c, saved), x)
  <2>1. saved \in {"ok", "after", "before"}
    BY DEF SaveResult
  <2> HIDE DEF c
  <2> QED BY <1>2, <2>1, ResumeMove
<1>4. WorkerOK(composed, d, w2) /\ Quiet(w, w2)
  BY <1>2 DEF WorkerOK, Quiet, Answer
<1> DEFINE c2 == Resume(c, saved)
<1>5. client' = [client EXCEPT ![d] = c2] /\ worker' = [worker EXCEPT ![d] = w2]
  BY <1>1 DEF SyncInv
<1> HIDE DEF w2, c2
<1>6. promised' \subseteq promised \cup Reported(c2)
  BY <1>1, <1>5, PromisesThat DEF SyncInv
<1>7. dismissed' = dismissed \cup {}
  BY <1>1
<1> QED BY <1>1, <1>3, <1>4, <1>5, <1>6, <1>7 DEF Turns, c2

LEMMA TickOK ==
  ASSUME SyncInv, NEW d \in Device, Tick(d)
  PROVE  SyncInv'
<1>1. PICK saved \in SaveResult, synced \in BOOLEAN, due \in BOOLEAN :
        TickWith(d, saved, synced, due)
  BY DEF Tick
<1>2. /\ IsMade(composed) /\ ClientOK(composed, d, client[d])
      /\ WorkerOK(composed, d, worker[d]) /\ saved \in {"ok", "after", "before"}
  BY DEF SyncInv, SaveResult
<1>3. PICK c2, w2, x :
        /\ client' = [client EXCEPT ![d] = c2] /\ worker' = [worker EXCEPT ![d] = w2]
        /\ Becomes(client[d], c2, x)
        /\ EnvelopeOK(composed, d, x) /\ Carries(Envelope(client[d]), x, {})
        /\ WorkerOK(composed, d, w2)
        /\ \A r \in sent' : r \in sent \/ RequestOK(composed, r)
  BY <1>1, <1>2, TickMove DEF Refiles, Reconciles
<1>4. UNCHANGED <<serverVars, composed, dismissed>> /\ Promises(d)
  BY <1>1 DEF TickWith
<1>5. Grows(composed, composed)
  BY DEF Grows
<1>6. ClientOK(composed, d, c2) /\ StaysCovered(client[d], c2, {})
  BY <1>2, <1>3, <1>5, BecomesOK
<1>7. Only(d, client, client', c2) /\ Only(d, worker, worker', w2)
  BY <1>3, OnlyOne DEF SyncInv
<1>8. promised' \subseteq promised \cup Reported(c2)
  BY <1>3, <1>4, PromisesThat DEF SyncInv
<1>9. composed' = composed /\ dismissed' = dismissed \cup {}
  BY <1>4
<1> QED BY <1>2, <1>3, <1>4, <1>5, <1>6, <1>7, <1>8, <1>9, DeviceStep

LEMMA CrashTurns ==
  ASSUME SyncInv, NEW d \in Device, Crash(d)
  PROVE  \E c2, w2, x, gone : Turns(d, c2, w2, x, gone)
<1> DEFINE c == client[d]
<1>1. PICK left \in Survivors(c), synced \in BOOLEAN :
        /\ client' = [client EXCEPT ![d] = Open(left, synced)]
        /\ worker' = [worker EXCEPT ![d] = NewWorker]
        /\ Promises(d) /\ UNCHANGED <<serverVars, sent, composed, dismissed, restores>>
  BY DEF Crash
<1>2. ClientOK(composed, d, c)
  BY DEF SyncInv
<1> HIDE DEF c
<1>3. Becomes(c, Open(left, synced), Envelope(c))
  <2>1. left \in {c} \cup {[c EXCEPT !.disk = <<@[i]>>] : i \in DOMAIN c.disk}
    BY DEF Survivors
  <2> QED BY <1>2, <2>1, OpenMove DEF ClientOK
<1>4. Refiles(composed, d, Envelope(c), Envelope(c), {})
  BY <1>2, LatestOK, SameRefiles
<1>5. WorkerOK(composed, d, NewWorker) /\ Quiet(worker[d], NewWorker)
  BY DEF WorkerOK, NewWorker, Quiet
<1> DEFINE c2 == Open(left, synced)
<1>6. client' = [client EXCEPT ![d] = c2]
  BY <1>1
<1> HIDE DEF c2
<1>7. promised' \subseteq promised \cup Reported(c2)
  BY <1>1, <1>6, PromisesThat DEF SyncInv
<1>8. dismissed' = dismissed \cup {}
  BY <1>1
<1> QED BY <1>1, <1>3, <1>4, <1>5, <1>6, <1>7, <1>8 DEF Turns, c, c2

LEMMA ReopenTurns ==
  ASSUME SyncInv, NEW d \in Device, Reopen(d)
  PROVE  \E c2, w2, x, gone : Turns(d, c2, w2, x, gone)
<1> DEFINE c == client[d]
           w == worker[d]
           w2 == [w EXCEPT !.discard = w.request # None]
<1>1. PICK synced \in BOOLEAN :
        /\ client' = [client EXCEPT ![d] = Open(@, synced)]
        /\ worker' = [worker EXCEPT ![d].discard = worker[d].request # None]
        /\ Promises(d) /\ UNCHANGED <<serverVars, sent, composed, dismissed, restores>>
  BY DEF Reopen
<1>2. ClientOK(composed, d, c) /\ WorkerOK(composed, d, w)
  BY DEF SyncInv
<1>3. WorkerOK(composed, d, w2) /\ Quiet(w, w2)
  BY <1>2 DEF WorkerOK, Quiet, Answer
<1> DEFINE c2 == Open(c, synced)
<1>4. client' = [client EXCEPT ![d] = c2] /\ worker' = [worker EXCEPT ![d] = w2]
  BY <1>1 DEF SyncInv
<1> HIDE DEF c, w2
<1>5. Becomes(c, c2, Envelope(c))
  BY <1>2, OpenMove DEF ClientOK
<1>6. Refiles(composed, d, Envelope(c), Envelope(c), {})
  BY <1>2, LatestOK, SameRefiles
<1> HIDE DEF c2
<1>7. promised' \subseteq promised \cup Reported(c2)
  BY <1>1, <1>4, PromisesThat DEF SyncInv
<1>8. dismissed' = dismissed \cup {}
  BY <1>1
<1> QED BY <1>1, <1>3, <1>4, <1>5, <1>6, <1>7, <1>8 DEF Turns, c, w

\* What a request of a device makes of the server.
LEMMA HandledOK ==
  ASSUME SyncInv, NEW request, RequestOK(composed, request), NEW now \in 0..MaxTime,
         Exchange(request, now)
  PROVE  /\ Stored' /\ Asked(composed, receipts') /\ Branch(composed, state'.snapshot)
         /\ artifact' = artifact /\ ResponseOK(request, Response(request))
<1>1. now \in Nat
  BY SyncConstants
<1>2. request.command \in Command \cup {None} /\ request.device \in Device
  BY DEF RequestOK
<1>3. Stored' /\ artifact' = artifact
  BY <1>1, <1>2, ExchangeKeeps DEF SyncInv
<1> QED BY <1>1, <1>3, ExchangeServes DEF SyncInv

LEMMA ServeOK ==
  ASSUME SyncInv, NEW d \in Device, NEW now \in 0..MaxTime, Serve(d, now) \/ ServeUnheard(d, now)
  PROVE  SyncInv'
<1> DEFINE request == worker[d].request
<1>1. /\ Waiting(d) /\ Exchange(request, now)
      /\ UNCHANGED <<client, composed, promised, dismissed, sent>>
  BY DEF Serve, ServeUnheard, Handled
<1>2. RequestOK(composed, request)
  BY <1>1 DEF SyncInv, WorkerOK, Waiting
<1> HIDE DEF request
<1>3. /\ Stored' /\ Asked(composed, receipts') /\ Branch(composed, state'.snapshot)
      /\ artifact' = artifact /\ ResponseOK(request, Response(request))
  BY <1>1, <1>2, HandledOK
<1>4. CASE Serve(d, now)
  <2> DEFINE result == [reason |-> None, response |-> Response(request)]
  <2>1. Answered(d, result)
    BY <1>4 DEF Serve, request
  <2>2. result.response = Response(request)
    OBVIOUS
  <2> HIDE DEF result
  <2>3. ResponseOK(worker[d].request, result.response)
    BY <1>3, <2>2 DEF request
  <2> QED BY <1>1, <1>3, <2>1, <2>3, ResultStep
<1>5. CASE ServeUnheard(d, now)
  <2>1. Answered(d, Lost) /\ Lost.reason # None
    BY <1>5, SyncConstants DEF ServeUnheard, Lost
  <2> QED BY <1>1, <1>3, <2>1, ResultStep
<1> QED BY <1>4, <1>5

LEMMA UnservedOK ==
  ASSUME SyncInv, NEW d \in Device, Refuse(d) \/ Lose(d)
  PROVE  SyncInv'
<1>1. PICK result : /\ Answered(d, result) /\ result.reason # None
                    /\ Waiting(d) /\ UNCHANGED serverVars
                    /\ UNCHANGED <<client, composed, promised, dismissed, sent>>
  <2>1. CASE Refuse(d)
    <3> DEFINE result == [reason |-> ExchangeError(worker[d].request), response |-> None]
    <3>1. Answered(d, result) /\ result.reason # None
      BY <2>1 DEF Refuse
    <3> HIDE DEF result
    <3> QED BY <2>1, <3>1 DEF Refuse
  <2>2. CASE Lose(d)
    BY <2>2, SyncConstants DEF Lose, Lost
  <2> QED BY <2>1, <2>2
<1>2. Stored' /\ UNCHANGED <<state, receipts, artifact>>
  BY <1>1 DEF SyncInv, serverVars, server, Stored, database
<1> QED BY <1>1, <1>2, ResultStep DEF SyncInv

LEMMA ArriveOK ==
  ASSUME SyncInv, NEW now \in 0..MaxTime, Arrive(now)
  PROVE  SyncInv'
<1>1. PICK request \in sent : Exchange(request, now) /\ UNCHANGED <<devices, sent>>
  BY DEF Arrive
<1>2. RequestOK(composed, request)
  BY DEF SyncInv
<1>3. /\ Stored' /\ Asked(composed, receipts') /\ Branch(composed, state'.snapshot)
      /\ artifact' = artifact
  BY <1>1, <1>2, HandledOK
<1> QED BY <1>1, <1>3 DEF SyncInv, devices

LEMMA OperateOK ==
  ASSUME SyncInv, Operate
  PROVE  SyncInv'
<1>1. UNCHANGED <<devices, sent>>
  BY DEF Operate
<1>2. /\ Stored' /\ Asked(composed, receipts') /\ Branch(composed, state'.snapshot)
      /\ artifact' # None =>
           Asked(composed, artifact'.receipts) /\ Branch(composed, artifact'.state.snapshot)
  <2>1. CASE (\E d \in Device : Revoke(d)) \/ Backup
    <3>1. Stored' /\ UNCHANGED server /\ artifact' \in {artifact, database}
      BY <2>1, OperatorKeeps DEF SyncInv
    <3>2. database.state = state /\ database.receipts = receipts
      BY DEF database
    <3> QED BY <3>1, <3>2 DEF SyncInv, server
  <2>2. CASE RawRestore \/ RestoreGeneration
    <3>1. Stored' /\ artifact # None /\ artifact' = artifact
      BY <2>2, RestoreKeeps DEF SyncInv
    <3>2. Branch(composed, state'.snapshot)
      BY <2>2, RestoreServes DEF SyncInv
    <3>3. receipts' = artifact.receipts
      BY <2>2 DEF RawRestore, RestoreGeneration
    <3> QED BY <3>1, <3>2, <3>3 DEF SyncInv
  <2> QED BY <2>1, <2>2 DEF Operate
<1> QED BY <1>1, <1>2 DEF SyncInv, devices

LEMMA TokenTyped ==
  ASSUME NEW d \in Device
  PROVE  TokenOf(d) \in Nat
<1> DEFINE size == Cardinality(Device)
           seq == Sq!SetToSeq(Device)
<1>1. size \in Nat /\ ExistsBijection(1..size, Device)
  BY SyncConstants, FS_CardinalityType
<1>2. \E f \in [1..size -> Device] : Sq!IsInjective(f)
  BY <1>1 DEF ExistsBijection, Bijection, Injection, IsInjective, Sq!IsInjective
<1>3. seq \in [1..size -> Device] /\ Sq!IsInjective(seq)
  BY <1>2 DEF Sq!SetToSeq, Sq!Cardinality, Cardinality
<1>4. IsFiniteSet(1..size) /\ Cardinality(1..size) = size
  BY <1>1, FS_Interval
<1> HIDE DEF size, seq
<1>5. seq \in Injection(1..size, Device)
  BY <1>3 DEF Injection, IsInjective, Sq!IsInjective
<1>6. seq \in Surjection(1..size, Device)
  BY <1>4, <1>5, SyncConstants, FS_Injection DEF size
<1>7. \E i \in DOMAIN seq : seq[i] = d
  BY <1>3, <1>6 DEF Surjection
<1>8. TokenOf(d) \in 1..size
  BY <1>3, <1>7 DEF TokenOf, seq
<1> QED BY <1>1, <1>8

\* Setup starts from the empty queue of a generation, which is no command's.
LEMMA Foundation ==
  LET g == FreshIn(Generation, {})
  IN /\ g \in Generation /\ g \notin CommandId /\ Founding \in Command /\ Founding.id \in CommandId
     /\ Founder \in Device /\ Empty = NewState(g) /\ Sound(Empty)
     /\ Empty.snapshot.revision = 0 /\ Empty.snapshot.history = <<Link(g, Empty.snapshot)>>
<1> DEFINE g == FreshIn(Generation, {})
<1>1. /\ g \in Generation /\ Empty = NewState(g) /\ Founder \in Device
  BY Drawing, ServerConstants, SyncConstants DEF Founder, Empty
<1>2. Founding \in Command /\ Founding.id \in CommandId
  <2>1. FreshIn(CommandId, {}) \in CommandId
    BY Drawing, SyncConstants
  <2>2. [op |-> "Initialize", seeds |-> Seeds, timer |-> SeedTimer] \in Seeding
    BY SyncConstants DEF Seeding
  <2> QED BY <1>1, <2>1, <2>2 DEF Founding, Command
<1> HIDE DEF g
<1>3. g \notin CommandId
  BY <1>1, DistinctValues
<1>4. /\ Sound(Empty) /\ Empty.snapshot.revision = 0
      /\ Empty.snapshot.history = <<Link(g, Empty.snapshot)>>
  BY <1>1, NewStateSound
<1> QED BY <1>1, <1>2, <1>3, <1>4 DEF g

\* An envelope made from a snapshot.
LEMMA NewEnvelopeOK ==
  ASSUME NEW d, NEW snap, IsSnapshot(snap), SnapshotValid(snap), NEW made
  PROVE  LET e == NewEnvelope(d, snap, 0)
         IN EnvelopeOK(made, d, e) /\ e.pending = <<>> /\ e.confirmed = snap
<1> DEFINE e == NewEnvelope(d, snap, 0)
           b == [device |-> d, confirmed |-> snap, time |-> 0, pending |-> <<>>,
                 handles |-> <<>>, nextHandle |-> 1, recovery |-> <<>>,
                 suspension |-> None, settled |-> None]
<1>1. IsEnvelope(b) /\ b.pending = <<>> /\ b.device = d /\ b.confirmed = snap
  <2>1. <<>> \in Seq(Command) /\ <<>> \in Seq({}) /\ DOMAIN b.handles = {} /\ 0 \in Nat
    OBVIOUS
  <2>2. DOMAIN b = EnvelopeFields
    BY DEF EnvelopeFields
  <2> QED BY <2>1, <2>2 DEF IsEnvelope
<1>2. e = Registered(b)
  BY DEF NewEnvelope
<1> HIDE DEF b, e
<1>3. IsEnvelope(e) /\ e.pending = <<>> /\ e.device = d /\ e.confirmed = snap
  BY <1>1, <1>2, RegisteredFacts DEF EnvelopeFields
<1> QED BY <1>3 DEF EnvelopeOK, e

LEMMA InitOK == Init => SyncInv
<1> SUFFICES ASSUME Init PROVE SyncInv
  OBVIOUS
<1> DEFINE g == FreshIn(Generation, {})
           first == [n \in {0} |-> Empty.snapshot.history]
<1>1. /\ g \in Generation /\ roots = {g} /\ Empty = NewState(g)
      /\ Founder \in Device
  BY Foundation DEF Init
<1>2. Founding \in Command /\ Founding.id \in CommandId
  BY Foundation
<1> HIDE DEF g
<1>3. /\ Sound(Empty) /\ Empty.snapshot.revision = 0 /\ Good(Empty, first, <<>>, {g})
  <2>1. Good(NewState(g), [n \in {0} |-> NewState(g).snapshot.history], <<>>, {g})
    BY <1>1, NewGood
  <2> QED BY <1>1, <2>1, NewStateSound
<1>4. /\ Sound(state) /\ state.snapshot.revision = 1 /\ state = Apply(Empty, Founding, 0)
  <2>1. state = Apply(Empty, Founding, 0)
    BY DEF Init
  <2> QED BY <1>2, <1>3, <2>1, ApplySound, FoundingTaken
<1>5. Good(state, history, receipts, roots)
  <2>1. Partial(<<>>, CommandId, Receipt)
    BY DEF Partial
  <2>2. Good(state,
             [n \in DOMAIN first \cup {1} |->
                IF n = 1 THEN state.snapshot.history ELSE first[n]],
             [x \in DOMAIN <<>> \cup {Founding.id} |->
                IF x = Founding.id
                THEN [device |-> Founder, command |-> Founding, outcome |-> Applied(1)]
                ELSE <<>>[x]], {g})
    <3>1. Empty.snapshot.revision + 1 = 1 /\ Founding.id \notin DOMAIN <<>> /\ 0 \in Nat
      BY <1>3
    <3> DEFINE none == <<>>
    <3> HIDE DEF first, none
    <3>2. Partial(none, CommandId, Receipt) /\ Good(Empty, first, none, {g})
          /\ Founding.id \notin DOMAIN none
      BY <1>3, <2>1, <3>1 DEF none
    <3>3. LET r == Apply(Empty, Founding, 0)
              revision == Empty.snapshot.revision + 1
          IN Good(r,
                  [n \in DOMAIN first \cup {revision} |->
                     IF n = revision THEN r.snapshot.history ELSE first[n]],
                  [x \in DOMAIN none \cup {Founding.id} |->
                     IF x = Founding.id
                     THEN [device |-> Founder, command |-> Founding, outcome |-> Applied(revision)]
                     ELSE none[x]], {g})
      BY <1>1, <1>2, <3>1, <3>2, ExecuteGood, FoundingTaken
    <3> QED BY <1>4, <3>1, <3>3 DEF none
  <2>3. history = [n \in DOMAIN first \cup {1} |->
                     IF n = 1 THEN state.snapshot.history ELSE first[n]]
    BY DEF Init
  <2>4. receipts = [x \in DOMAIN <<>> \cup {Founding.id} |->
                IF x = Founding.id
                THEN [device |-> Founder, command |-> Founding, outcome |-> Applied(1)]
                ELSE <<>>[x]]
    BY DEF Init
  <2> HIDE DEF first
  <2> QED BY <1>1, <2>2, <2>3, <2>4
<1>6. /\ IsSnapshot(state.snapshot) /\ IsChain(state.snapshot.history) /\ SnapshotValid(state.snapshot)
      /\ IsChain(Empty.snapshot.history)
  BY <1>3, <1>4 DEF Sound, StateValid, IsState, IsSnapshot
<1>7. Stored
  <2>1. DOMAIN history = {0, 1} /\ \A r \in DOMAIN history : IsChain(history[r])
    BY <1>6 DEF Init
  <2>2. Partial(receipts, CommandId, Receipt)
    <3>1. Applied(1) \in ReceiptOutcome
      BY DEF Applied, ReceiptOutcome
    <3>2. /\ receipts = [c \in {Founding.id} |-> receipts[c]]
          /\ receipts[Founding.id] = [device |-> Founder, command |-> Founding, outcome |-> Applied(1)]
      BY DEF Init
    <3>3. receipts[Founding.id] \in Receipt
      BY <1>1, <1>2, <3>1, <3>2 DEF Receipt
    <3> QED BY <1>2, <3>2, <3>3 DEF Partial
  <2>3. Partial(enrolled, Device, [token : Nat, revoked : BOOLEAN])
    BY TokenTyped DEF Init, Partial
  <2>4. minted \in Nat /\ lastTime \in Nat /\ artifact = None
    BY SyncConstants, FS_CardinalityType DEF Init
  <2> QED BY <1>1, <1>4, <1>5, <2>1, <2>2, <2>3, <2>4 DEF Stored, IsDatabase, database, Sound
<1>8. composed = <<>> /\ IsMade(composed)
  BY DEF Init, IsMade
<1>9. Asked(composed, receipts) /\ Branch(composed, state.snapshot)
  BY <1>8 DEF Init, Asked, Branch
<1>10. ASSUME NEW d \in Device
       PROVE  ClientOK(composed, d, client[d]) /\ WorkerOK(composed, d, worker[d])
  <2> DEFINE e == NewEnvelope(d, state.snapshot, 0)
  <2>4. EnvelopeOK(composed, d, e)
    BY <1>6, NewEnvelopeOK
  <2> HIDE DEF e
  <2>5. client[d] = [disk |-> <<e>>, warned |-> FALSE, seen |-> None] /\ worker[d] = NewWorker
    BY DEF Init, e
  <2>6. IsClient(client[d]) /\ Entries(client[d].disk) = {e}
    BY <2>5, OneLog DEF IsClient
  <2>7. WorkerOK(composed, d, NewWorker)
    BY DEF WorkerOK, NewWorker
  <2> QED BY <2>4, <2>5, <2>6, <2>7 DEF ClientOK
<1>11. /\ client = [d \in Device |-> client[d]] /\ worker = [d \in Device |-> worker[d]]
       /\ sent = {} /\ promised = {} /\ artifact = None
  BY DEF Init
<1> QED BY <1>7, <1>8, <1>9, <1>10, <1>11 DEF SyncInv

LEMMA NextOK == SyncInv /\ [Next]_vars => SyncInv'
<1> SUFFICES ASSUME SyncInv, [Next]_vars PROVE SyncInv'
  OBVIOUS
<1>1. ASSUME NEW d \in Device, Edit(d) PROVE SyncInv'
  BY <1>1, EditAsks, EnqueueOK DEF Asks
<1>2. ASSUME NEW d \in Device, Focus(d) PROVE SyncInv'
  BY <1>2, FocusAsks, EnqueueOK DEF Asks
<1>3. ASSUME NEW d \in Device, Dismiss(d) PROVE SyncInv'
  BY <1>3, DismissTurns, TurnsOK
<1>4. ASSUME NEW d \in Device, Retry(d) PROVE SyncInv'
  BY <1>4, RetryTurns, TurnsOK
<1>5. ASSUME NEW d \in Device, Tick(d) PROVE SyncInv'
  BY <1>5, TickOK
<1>6. ASSUME NEW d \in Device, Refuse(d) \/ Lose(d) PROVE SyncInv'
  BY <1>6, UnservedOK
<1>7. ASSUME NEW d \in Device, Crash(d) PROVE SyncInv'
  BY <1>7, CrashTurns, TurnsOK
<1>8. ASSUME NEW d \in Device, Reopen(d) PROVE SyncInv'
  BY <1>8, ReopenTurns, TurnsOK
<1>9. ASSUME NEW d \in Device, NEW now \in 0..MaxTime, Serve(d, now) \/ ServeUnheard(d, now)
      PROVE SyncInv'
  BY <1>9, ServeOK
<1>10. ASSUME NEW now \in 0..MaxTime, Arrive(now) PROVE SyncInv'
  BY <1>10, ArriveOK
<1>11. CASE Operate
  BY <1>11, OperateOK
<1>12. CASE UNCHANGED vars
  <2>1. UNCHANGED <<state, history, receipts, artifact>> /\ UNCHANGED <<devices, sent>>
    BY <1>12 DEF vars, serverVars, server
  <2>2. Stored'
    BY <1>12 DEF SyncInv, vars, serverVars, server, Stored, database
  <2> QED BY <2>1, <2>2 DEF SyncInv, devices
<1> QED BY <1>1, <1>2, <1>3, <1>4, <1>5, <1>6, <1>7, <1>8, <1>9, <1>10, <1>11, <1>12 DEF Next

(***************************************************************************)
(* The theorems                                                            *)
(***************************************************************************)
\* Whatever devices, networks, disks and operators do, each envelope that could come back
\* and each request under way is what its user asked on the branch it stands on.
THEOREM SpecSyncInv == Spec => []SyncInv
<1>1. Init => SyncInv
  BY InitOK
<1>2. SyncInv /\ [Next]_vars => SyncInv'
  BY NextOK
<1> QED BY <1>1, <1>2, PTL DEF Spec

\* An intent that was reported saved is, in every envelope a power failure could bring back,
\* pending, kept as refused or applied, until its user lets go of it.
THEOREM SpecNoIntentLost == Spec => []NoIntentLost
<1>1. SyncInv => NoIntentLost
  <2> SUFFICES ASSUME SyncInv, NEW c \in promised \ dismissed,
                      NEW i \in DOMAIN client[composed[c].device].disk
               PROVE  Accounted(client[composed[c].device].disk[i], c)
    BY DEF NoIntentLost
  <2>1. Covered(client[composed[c].device], c)
    BY DEF SyncInv
  <2> QED BY <2>1 DEF Covered, Entries
<1> QED BY <1>1, SpecSyncInv, PTL

\* No executed intent was composed on a branch other than the one it is executed on,
\* whatever backups came back in between.
THEOREM SpecIntentsStayOnTheirBranch == Spec => []IntentsStayOnTheirBranch
<1>1. SyncInv => IntentsStayOnTheirBranch
  <2> SUFFICES ASSUME SyncInv, NEW i \in DOMAIN state.snapshot.history,
                      state.snapshot.history[i].by \in DOMAIN composed
               PROVE  Sq!IsPrefix(composed[state.snapshot.history[i].by].base,
                                  state.snapshot.history)
    BY DEF IntentsStayOnTheirBranch
  <2> DEFINE b == composed[state.snapshot.history[i].by].base
             h == state.snapshot.history
  <2>1. IsChain(b) /\ IsChain(h) /\ Begins(b, h)
    BY SoundFacts DEF SyncInv, IsMade, Branch, Stored, Good
  <2> HIDE DEF b, h
  <2>2. Sq!IsPrefix(b, h)
    BY <2>1, BeginsWith
  <2> QED BY <2>2 DEF b, h
<1> QED BY <1>1, SpecSyncInv, PTL

\* A focus command takes effect on exactly the queue its user saw.
THEOREM SpecFocusActsOnTheShownQueue == Spec => []FocusActsOnTheShownQueue
<1>1. SyncInv => FocusActsOnTheShownQueue
  <2> SUFFICES ASSUME SyncInv, NEW i \in DOMAIN state.snapshot.history,
                      state.snapshot.history[i].by \in DOMAIN composed,
                      IsFocus(composed[state.snapshot.history[i].by].command)
               PROVE  composed[state.snapshot.history[i].by].base
                        = SubSeq(state.snapshot.history, 1, i - 1)
    BY DEF FocusActsOnTheShownQueue
  <2> DEFINE b == composed[state.snapshot.history[i].by].base
             h == state.snapshot.history
  <2>1. IsChain(b) /\ IsChain(h) /\ Begins(b, h) /\ Len(b) = i - 1
    BY SoundFacts DEF SyncInv, IsMade, Branch, Stored, Good
  <2> HIDE DEF b, h
  <2>2. b = SubSeq(h, 1, Len(b))
    BY <2>1, BeginsWith
  <2> QED BY <2>1, <2>2 DEF b, h
<1> QED BY <1>1, SpecSyncInv, PTL

(***************************************************************************)
(* The ledger                                                              *)
(***************************************************************************)
\* The queue an envelope has confirmed is a beginning of the server's; of what is pending
\* only the head can have been decided, and nothing has its effect there.
Known(rc, h, e) ==
  /\ Begins(e.confirmed.history, h) /\ Len(e.confirmed.history) >= 2
  /\ \A i \in DOMAIN e.pending : e.pending[i].id \in DOMAIN rc => i = 1
  /\ \A c \in Ids(e.pending) : c \notin Applies(e.confirmed)

\* An envelope takes up nothing that was decided, and has let go only of what was, with
\* the effect in sight.
Succeeds(rc, o, e) ==
  /\ Begins(o.confirmed.history, e.confirmed.history)
  /\ \A c \in Ids(e.pending) : c \in DOMAIN rc => c \in Ids(o.pending)
  /\ \A c \in Ids(o.pending) : c \notin Ids(e.pending) =>
       /\ c \in DOMAIN rc
       /\ rc[c].outcome.status = "applied" => c \in Applies(e.confirmed)

JournalOK(rc, h, c) ==
  \A e \in Entries(c.disk) : Known(rc, h, e) /\ Succeeds(rc, c.disk[1], e)

LEMMA JournalBecomes ==
  ASSUME NEW made, NEW d, NEW c, ClientOK(made, d, c), NEW rc, NEW h, JournalOK(rc, h, c),
         NEW x, IsEnvelope(x), Known(rc, h, x), Succeeds(rc, c.disk[1], x),
         NEW c2, Becomes(c, c2, x)
  PROVE  /\ JournalOK(rc, h, c2)
         /\ Known(rc, h, c2.disk[1]) /\ Succeeds(rc, c.disk[1], c2.disk[1])
<1>1. \A y \in Entries(c.disk) : Known(rc, h, y) /\ Succeeds(rc, c.disk[1], y) /\ IsEnvelope(y)
  BY DEF JournalOK, ClientOK, EnvelopeOK
<1>2. \A y : IsEnvelope(y) => Succeeds(rc, y, y)
  BY BeginsItself DEF Succeeds, IsEnvelope, IsSnapshot
<1>3. c.disk[1] \in Entries(c.disk) /\ IsLog(c.disk)
  BY LatestOK DEF ClientOK, IsClient
<1>4. CASE c2.disk = c.disk
  BY <1>1, <1>3, <1>4 DEF JournalOK
<1>5. ASSUME NEW y, y \in Entries(c.disk) \/ y = x, c2.disk = <<y>>
      PROVE  /\ JournalOK(rc, h, c2)
             /\ Known(rc, h, c2.disk[1]) /\ Succeeds(rc, c.disk[1], c2.disk[1])
  <2>1. Entries(c2.disk) = {y} /\ c2.disk[1] = y
    BY <1>5, OneLog
  <2> QED BY <1>1, <1>2, <1>5, <2>1 DEF JournalOK
<1>6. CASE c2.disk = Append(c.disk, x)
  <2>1. Entries(c2.disk) = Entries(c.disk) \cup {x} /\ c2.disk[1] = c.disk[1]
    BY <1>3, <1>6, MoreLog
  <2> QED BY <1>1, <1>3, <2>1 DEF JournalOK
<1> QED BY <1>4, <1>5, <1>6 DEF Becomes

LEMMA RefiledKnown ==
  ASSUME NEW made, NEW d, NEW c, ClientOK(made, d, c), NEW rc, NEW h, JournalOK(rc, h, c),
         NEW x, x.pending = Envelope(c).pending, x.confirmed = Envelope(c).confirmed
  PROVE  Known(rc, h, x) /\ Succeeds(rc, c.disk[1], x)
<1>1. Known(rc, h, Envelope(c)) /\ Succeeds(rc, c.disk[1], Envelope(c))
  BY LatestOK DEF JournalOK
<1> QED BY <1>1 DEF Known, Succeeds

\* Whatever has its effect on the server was decided there.
Decided(rc, h) == \A i \in DOMAIN h : h[i].by \in CommandId => h[i].by \in DOMAIN rc

LEMMA AppliedDecided ==
  ASSUME NEW h, IsChain(h), NEW rc, Decided(rc, h), NEW s, IsSnapshot(s), Begins(s.history, h),
         NEW c \in CommandId, c \in Applies(s)
  PROVE  c \in DOMAIN rc
<1>1. PICK i \in DOMAIN s.history : s.history[i].by = c
  BY AppliesAre
<1>2. IsChain(s.history)
  BY DEF IsSnapshot
<1>3. i \in DOMAIN h /\ h[i] = s.history[i]
  BY <1>1, <1>2, ChainLength DEF Begins
<1> QED BY <1>1, <1>3 DEF Decided

LEMMA EnqueuedKnown ==
  ASSUME NEW made, NEW d, NEW c, ClientOK(made, d, c), NEW rc, NEW h, JournalOK(rc, h, c),
         IsChain(h), Decided(rc, h), NEW command, command.id \in CommandId \ DOMAIN rc,
         NEW x, x.pending = Append(Envelope(c).pending, command),
         x.confirmed = Envelope(c).confirmed
  PROVE  /\ Known(rc, h, x) /\ Succeeds(rc, c.disk[1], x)
         /\ Ids(x.pending) = Ids(Envelope(c).pending) \cup {command.id}
         /\ Envelope(c).pending # <<>> => x.pending # <<>> /\ Head(x.pending) = Head(Envelope(c).pending)
<1> DEFINE e == Envelope(c)
           n == Len(e.pending)
<1>1. /\ Known(rc, h, e) /\ Succeeds(rc, c.disk[1], e)
      /\ IsEnvelope(e) /\ e.pending \in Seq(Command)
  BY LatestOK DEF JournalOK, EnvelopeOK, IsEnvelope
<1> HIDE DEF e
<1>2. n \in Nat /\ DOMAIN e.pending = 1..n
  BY <1>1, LenProperties
<1>3. /\ DOMAIN x.pending = 1..(n + 1) /\ x.pending[n + 1] = command
      /\ \A i \in 1..n : x.pending[i] = e.pending[i]
  <2> DEFINE S == Command \cup {command}
  <2>1. e.pending \in Seq(S) /\ command \in S
    BY <1>1
  <2> HIDE DEF S
  <2> QED BY <1>2, <2>1, AppendProperties, LenProperties DEF e
<1>4. Ids(x.pending) = Ids(e.pending) \cup {command.id}
  <2>1. Ids(x.pending) \subseteq Ids(e.pending) \cup {command.id}
    <3> SUFFICES ASSUME NEW i \in 1..(n + 1) PROVE x.pending[i].id \in Ids(e.pending) \cup {command.id}
      BY <1>3 DEF Ids
    <3>1. i \in 1..n \/ i = n + 1
      BY <1>2
    <3> QED BY <1>2, <1>3, <3>1 DEF Ids
  <2>2. Ids(e.pending) \subseteq Ids(x.pending)
    <3>1. \A i \in 1..n : i \in 1..(n + 1)
      BY <1>2
    <3> QED BY <1>2, <1>3, <3>1 DEF Ids
  <2>3. command.id \in Ids(x.pending)
    <3>1. n + 1 \in 1..(n + 1)
      BY <1>2
    <3> QED BY <1>3, <3>1 DEF Ids
  <2> QED BY <2>1, <2>2, <2>3
<1>5. command.id \notin Applies(e.confirmed)
  BY <1>1, AppliedDecided DEF Known, IsEnvelope
<1>6. Known(rc, h, x)
  <2>1. \A i \in DOMAIN x.pending : x.pending[i].id \in DOMAIN rc => i = 1
    <3> SUFFICES ASSUME NEW i \in 1..(n + 1), x.pending[i].id \in DOMAIN rc PROVE i = 1
      BY <1>3
    <3>1. i \in 1..n
      BY <1>2, <1>3
    <3> QED BY <1>1, <1>2, <1>3, <3>1 DEF Known
  <2> QED BY <1>1, <1>4, <1>5, <2>1 DEF Known, e
<1>7. Succeeds(rc, c.disk[1], x)
  BY <1>1, <1>4 DEF Succeeds, e
<1>8. e.pending # <<>> => x.pending # <<>> /\ Head(x.pending) = Head(e.pending)
  <2> SUFFICES ASSUME e.pending # <<>> PROVE x.pending # <<>> /\ Head(x.pending) = Head(e.pending)
    OBVIOUS
  <2>1. 1 \in 1..n /\ 1 \in 1..(n + 1)
    BY <1>1, <1>2, EmptySeq
  <2>2. x.pending # <<>>
    BY <1>3, <2>1
  <2> QED BY <1>3, <2>1, <2>2 DEF Head
<1> QED BY <1>4, <1>6, <1>7, <1>8 DEF e

LEMMA ReconciledKnown ==
  ASSUME NEW made, NEW d, NEW c, ClientOK(made, d, c), NEW rc, NEW h, JournalOK(rc, h, c),
         IsChain(h), Decided(rc, h), NEW q, NEW p, ResponseOK(q, p),
         NEW x, Reconciles(made, d, Envelope(c), x, q, p), Begins(p.snapshot.history, h),
         q.command # None => /\ q.command.id \in DOMAIN rc
                             /\ p.receipt.outcome = rc[q.command.id].outcome,
         q.command = None => \A k \in Ids(Envelope(c).pending) : k \notin DOMAIN rc
  PROVE  /\ Known(rc, h, x) /\ Succeeds(rc, c.disk[1], x)
         /\ Ids(x.pending) \subseteq Ids(Envelope(c).pending)
         /\ \A k \in Ids(x.pending) : k \notin DOMAIN rc
         /\ q.command # None => Head(Envelope(c).pending).id \in DOMAIN rc
         /\ q.command = None => x.pending = Envelope(c).pending
<1> DEFINE e == Envelope(c)
           o == c.disk[1]
           n == Len(e.pending)
<1>1. /\ Known(rc, h, e) /\ Succeeds(rc, o, e)
      /\ IsEnvelope(e) /\ e.pending \in Seq(Command) /\ EnvelopeOK(made, d, e)
      /\ IsEnvelope(o) /\ IsEnvelope(x)
  BY LatestOK DEF JournalOK, EnvelopeOK, IsEnvelope, Reconciles
<1>2. /\ IsSnapshot(e.confirmed) /\ IsSnapshot(o.confirmed) /\ IsSnapshot(x.confirmed)
      /\ IsChain(e.confirmed.history) /\ IsChain(o.confirmed.history) /\ IsChain(x.confirmed.history)
      /\ x.confirmed = p.snapshot /\ Begins(e.confirmed.history, x.confirmed.history)
      /\ Begins(x.confirmed.history, h)
  BY <1>1 DEF IsEnvelope, IsSnapshot, Reconciles
<1>3. \/ q.command = None /\ x.pending = e.pending
      \/ /\ q.command # None /\ e.pending # <<>> /\ Head(e.pending) = q.command
         /\ x.pending = Tail(e.pending)
  BY DEF Reconciles
<1> HIDE DEF e, o
<1>4. n \in Nat /\ DOMAIN e.pending = 1..n
  BY <1>1, LenProperties
<1>5. /\ \A k \in Ids(x.pending) : k \in Ids(e.pending) /\ k \notin DOMAIN rc
      /\ \A k \in Ids(e.pending) : k \in Ids(x.pending) \/ (q.command # None /\ k = q.command.id)
  <2>1. CASE q.command = None /\ x.pending = e.pending
    BY <2>1 DEF e
  <2>2. CASE /\ q.command # None /\ e.pending # <<>> /\ Head(e.pending) = q.command
             /\ x.pending = Tail(e.pending)
    <3>1. n # 0
      BY <1>1, <2>2, EmptySeq
    <3>2. /\ x.pending \in Seq(Command) /\ Len(x.pending) = n - 1
          /\ \A i \in 1..(n - 1) : x.pending[i] = e.pending[i + 1]
      BY <1>1, <1>4, <2>2, HeadTailProperties
    <3>3. DOMAIN x.pending = 1..(n - 1)
      BY <3>2, LenProperties
    <3>4. e.pending[1] = q.command
      BY <2>2 DEF Head
    <3>5. ASSUME NEW i \in 1..(n - 1) PROVE x.pending[i].id \in Ids(e.pending) /\ x.pending[i].id \notin DOMAIN rc
      <4>1. i + 1 \in 1..n /\ i + 1 # 1
        BY <1>4, <3>1
      <4> QED BY <1>1, <1>4, <3>2, <4>1 DEF Known, Ids
    <3>6. ASSUME NEW i \in 1..n PROVE e.pending[i].id \in Ids(x.pending) \/ e.pending[i].id = q.command.id
      <4>1. CASE i = 1
        BY <3>4, <4>1
      <4>2. CASE i # 1
        <5>1. i - 1 \in 1..(n - 1) /\ (i - 1) + 1 = i
          BY <1>4, <4>2
        <5>2. x.pending[i - 1] = e.pending[i]
          BY <3>2, <5>1
        <5> QED BY <3>3, <5>1, <5>2 DEF Ids
      <4> QED BY <4>1, <4>2
    <3> QED BY <1>4, <2>2, <3>3, <3>5, <3>6 DEF Ids
  <2> QED BY <1>3, <2>1, <2>2
<1>6. ASSUME NEW k \in Ids(x.pending) PROVE k \notin Applies(x.confirmed)
  <2>1. k \in CommandId
    BY <1>1, <1>5, CommandKinds DEF EnvelopeOK, IsEnvelope, Ids
  <2> QED BY <1>2, <1>5, <2>1, AppliedDecided
<1>7. Known(rc, h, x)
  <2>1. Len(x.confirmed.history) >= 2
    BY <1>1, <1>2, ChainLength DEF Known, Begins
  <2>2. \A i \in DOMAIN x.pending : x.pending[i].id \notin DOMAIN rc
    BY <1>5 DEF Ids
  <2> QED BY <1>2, <1>6, <2>1, <2>2 DEF Known
<1>8. Succeeds(rc, o, x)
  <2>1. Begins(o.confirmed.history, x.confirmed.history)
    BY <1>1, <1>2, BeginsThrough DEF Succeeds
  <2>2. Applies(e.confirmed) \subseteq Applies(x.confirmed)
    BY <1>2, AppliesLater
  <2>3. ASSUME NEW k \in Ids(o.pending), k \notin Ids(x.pending)
        PROVE  /\ k \in DOMAIN rc
               /\ rc[k].outcome.status = "applied" => k \in Applies(x.confirmed)
    <3>1. CASE k \in Ids(e.pending)
      <4>1. q.command # None /\ k = q.command.id
        BY <1>5, <2>3, <3>1
      <4> QED BY <1>2, <4>1 DEF ResponseOK
    <3>2. CASE k \notin Ids(e.pending)
      BY <1>1, <2>2, <2>3, <3>2 DEF Succeeds
    <3> QED BY <3>1, <3>2
  <2> QED BY <1>5, <2>1, <2>3 DEF Succeeds
<1> QED BY <1>3, <1>5, <1>7, <1>8 DEF e, o

\* The server decides k, which only the device that asked it may hold, and there at the head.
LEMMA JournalDecides ==
  ASSUME NEW made, NEW d, NEW c, ClientOK(made, d, c), NEW rc, NEW h, JournalOK(rc, h, c),
         IsChain(h), NEW g, IsChain(g), Begins(h, g), NEW k, NEW rc2,
         DOMAIN rc2 = DOMAIN rc \cup {k}, \A y \in DOMAIN rc : rc2[y] = rc[y],
         \/ \A e \in Entries(c.disk) : k \notin Ids(e.pending)
         \/ \A e \in Entries(c.disk) : e.pending # <<>> /\ Head(e.pending).id = k
  PROVE  JournalOK(rc2, g, c)
<1> SUFFICES ASSUME NEW e \in Entries(c.disk)
             PROVE  Known(rc2, g, e) /\ Succeeds(rc2, c.disk[1], e)
  BY DEF JournalOK
<1> DEFINE o == c.disk[1]
<1>1. /\ Known(rc, h, e) /\ Succeeds(rc, o, e) /\ EnvelopeOK(made, d, e) /\ IsEnvelope(e)
      /\ IsEnvelope(o) /\ o \in Entries(c.disk) /\ IsChain(e.confirmed.history)
  <2>1. EnvelopeOK(made, d, e) /\ IsEnvelope(e)
    BY DEF ClientOK, EnvelopeOK
  <2>2. EnvelopeOK(made, d, o) /\ o \in Entries(c.disk)
    BY LatestOK
  <2>3. Known(rc, h, e) /\ Succeeds(rc, o, e)
    BY DEF JournalOK
  <2>4. IsChain(e.confirmed.history)
    BY <2>1 DEF IsEnvelope, IsSnapshot
  <2> QED BY <2>1, <2>2, <2>3, <2>4 DEF EnvelopeOK
<1> HIDE DEF o
<1>2. ASSUME NEW y \in Entries(c.disk), IsEnvelope(y), k \in Ids(y.pending)
      PROVE  \A z \in Entries(c.disk) : IsEnvelope(z) => z.pending[1].id = k /\ k \in Ids(z.pending)
  <2>1. \A z \in Entries(c.disk) : z.pending # <<>> /\ Head(z.pending).id = k
    BY <1>2
  <2>2. ASSUME NEW z \in Entries(c.disk), IsEnvelope(z) PROVE z.pending[1].id = k /\ k \in Ids(z.pending)
    <3>1. z.pending \in Seq(Command) /\ z.pending # <<>> /\ Head(z.pending).id = k
      BY <2>1, <2>2 DEF IsEnvelope
    <3>2. 1 \in DOMAIN z.pending
      BY <3>1, EmptySeq, LenProperties
    <3> QED BY <3>1, <3>2 DEF Ids, Head
  <2> QED BY <2>2
<1>3. ASSUME NEW i \in DOMAIN e.pending, e.pending[i].id \in DOMAIN rc2 PROVE i = 1
  <2>1. CASE e.pending[i].id \in DOMAIN rc
    BY <1>1, <2>1 DEF Known
  <2>2. CASE e.pending[i].id = k
    <3>1. k \in Ids(e.pending)
      BY <2>2 DEF Ids
    <3>2. e.pending[1].id = k /\ 1 \in DOMAIN e.pending
      <4>1. e.pending \in Seq(Command) /\ e.pending # <<>>
        BY <1>1 DEF IsEnvelope
      <4> QED BY <1>1, <1>2, <3>1, <4>1, EmptySeq, LenProperties
    <3> QED BY <1>1, <2>2, <3>2 DEF EnvelopeOK
  <2> QED BY <1>3, <2>1, <2>2
<1>4. Known(rc2, g, e)
  <2>1. Begins(e.confirmed.history, g)
    BY <1>1, BeginsThrough DEF Known
  <2> QED BY <1>1, <1>3, <2>1 DEF Known
<1>5. Succeeds(rc2, o, e)
  <2>1. \A x \in Ids(e.pending) : x \in DOMAIN rc2 => x \in Ids(o.pending)
    BY <1>1, <1>2 DEF Succeeds
  <2>2. \A x \in Ids(o.pending) : x \notin Ids(e.pending) =>
          /\ x \in DOMAIN rc2
          /\ rc2[x].outcome.status = "applied" => x \in Applies(e.confirmed)
    BY <1>1 DEF Succeeds
  <2> QED BY <1>1, <2>1, <2>2 DEF Succeeds
<1> QED BY <1>4, <1>5 DEF o

\* A request under way carries what was decided, or what is the head wherever it is kept.
Sends(rc, c, r) ==
  r.command # None =>
    \/ r.command.id \in DOMAIN rc
    \/ \A e \in Entries(c.disk) : e.pending # <<>> /\ Head(e.pending).id = r.command.id

\* While a worker asks without a command, nobody can decide what is held.
Polls(rc, c, w, under) ==
  w.request # None /\ w.request.command = None =>
    \A e \in Entries(c.disk) : \A k \in Ids(e.pending) :
      k \notin DOMAIN rc /\ \A r \in under : r.command # None => r.command.id # k

\* An answer tells what was decided, and a queue the server's went on from.
Informed(rc, h, w) ==
  Answer(w) =>
    LET q == w.request
        p == w.result.response
    IN /\ Begins(p.snapshot.history, h)
       /\ q.command # None => q.command.id \in DOMAIN rc /\ p.receipt.outcome = rc[q.command.id].outcome

\* A device in step with the server.
InStep(d, rc, h, under, c, w) ==
  /\ JournalOK(rc, h, c) /\ Polls(rc, c, w, under) /\ Informed(rc, h, w)
  /\ w.request # None => Sends(rc, c, w.request)
  /\ \A r \in under : r.device = d => Sends(rc, c, r)

LEMMA InStepMoves ==
  ASSUME NEW made, NEW d, NEW c, ClientOK(made, d, c), NEW rc, NEW h, NEW under, NEW w,
         InStep(d, rc, h, under, c, w),
         NEW x, IsEnvelope(x), Known(rc, h, x), Succeeds(rc, c.disk[1], x),
         NEW c2, Becomes(c, c2, x),
         Envelope(c).pending # <<>> /\ Head(Envelope(c).pending).id \notin DOMAIN rc =>
           x.pending # <<>> /\ Head(x.pending) = Head(Envelope(c).pending),
         w.request # None /\ w.request.command = None =>
           \A k \in Ids(x.pending) :
             \/ k \in Ids(Envelope(c).pending)
             \/ k \notin DOMAIN rc /\ \A r \in under : r.command # None => r.command.id # k,
         NEW w2, Quiet(w, w2)
  PROVE  /\ InStep(d, rc, h, under, c2, w2)
         /\ Known(rc, h, c2.disk[1]) /\ Succeeds(rc, c.disk[1], c2.disk[1])
<1> DEFINE e == Envelope(c)
<1>1. JournalOK(rc, h, c) /\ Polls(rc, c, w, under) /\ Informed(rc, h, w)
  BY DEF InStep
<1>2. /\ JournalOK(rc, h, c2)
      /\ Known(rc, h, c2.disk[1]) /\ Succeeds(rc, c.disk[1], c2.disk[1])
  BY <1>1, JournalBecomes
<1>3. /\ \A y \in Entries(c2.disk) : y \in Entries(c.disk) \/ y = x
      /\ e \in Entries(c.disk)
  <2>1. e \in Entries(c.disk) /\ IsClient(c)
    BY LatestOK DEF ClientOK
  <2> QED BY <2>1, BecomesFacts
<1> HIDE DEF e
<1>4. ASSUME NEW r, Sends(rc, c, r) PROVE Sends(rc, c2, r)
  <2> SUFFICES ASSUME r.command # None, r.command.id \notin DOMAIN rc, NEW y \in Entries(c2.disk)
               PROVE  y.pending # <<>> /\ Head(y.pending).id = r.command.id
    BY DEF Sends
  <2>1. \A z \in Entries(c.disk) : z.pending # <<>> /\ Head(z.pending).id = r.command.id
    BY <1>4 DEF Sends
  <2>2. x.pending # <<>> /\ Head(x.pending).id = r.command.id
    BY <1>3, <2>1 DEF e
  <2> QED BY <1>3, <2>1, <2>2
<1>5. Polls(rc, c2, w2, under)
  <2> SUFFICES ASSUME w2.request # None, w2.request.command = None,
                      NEW y \in Entries(c2.disk), NEW k \in Ids(y.pending)
               PROVE  k \notin DOMAIN rc /\ \A r \in under : r.command # None => r.command.id # k
    BY DEF Polls
  <2>1. w.request # None /\ w.request.command = None
    BY DEF Quiet
  <2>2. \A z \in Entries(c.disk) : \A j \in Ids(z.pending) :
          j \notin DOMAIN rc /\ \A r \in under : r.command # None => r.command.id # j
    BY <1>1, <2>1 DEF Polls
  <2> QED BY <1>3, <2>1, <2>2 DEF e
<1>6. Informed(rc, h, w2)
  <2> SUFFICES ASSUME Answer(w2) PROVE Informed(rc, h, w2)
    BY DEF Informed
  <2>1. w2.request = w.request /\ Answer(w) /\ w2.result = w.result
    BY DEF Quiet, Answer
  <2> QED BY <1>1, <2>1 DEF Informed
<1>7. w2.request # None => Sends(rc, c2, w2.request)
  BY <1>4 DEF InStep, Quiet
<1> QED BY <1>2, <1>4, <1>5, <1>6, <1>7 DEF InStep

\* A worker that asks asks about the one envelope there is.
LEMMA InStepSends ==
  ASSUME NEW made, NEW d, NEW c, ClientOK(made, d, c), ~c.warned, NEW rc, NEW h, NEW under, NEW w,
         InStep(d, rc, h, under, c, w), NEW w2, NEW token, w2.request = NextRequest(c, token),
         w2.result = None, NEW more, more \in {under, under \cup {w2.request}}
  PROVE  InStep(d, rc, h, more, c, w2)
<1> DEFINE e == Envelope(c)
           q == w2.request
<1>1. \A y \in Entries(c.disk) : y = e
  BY LogFacts DEF ClientOK, IsClient, Entries, Envelope
<1>2. q.command = (IF e.pending = <<>> THEN None ELSE Head(e.pending))
  BY DEF NextRequest
<1>3. EnvelopeOK(made, d, e)
  BY LatestOK
<1> HIDE DEF e, q
<1>4. e.pending # <<>> => q.command # None
  <2> SUFFICES ASSUME e.pending # <<>> PROVE Head(e.pending) # None
    BY <1>2
  <2>1. Head(e.pending) \in Command
    BY <1>3, HeadTailProperties DEF EnvelopeOK, IsEnvelope
  <2> QED BY <2>1, SyncConstants
<1>5. Sends(rc, c, q)
  BY <1>1, <1>2 DEF Sends
<1>6. Polls(rc, c, w2, more)
  <2> SUFFICES ASSUME q.command = None, NEW y \in Entries(c.disk) PROVE Ids(y.pending) = {}
    BY DEF Polls, q
  <2>1. y.pending = <<>>
    BY <1>1, <1>4
  <2> QED BY <2>1 DEF Ids
<1>7. Informed(rc, h, w2)
  BY DEF Informed, Answer
<1> QED BY <1>5, <1>6, <1>7 DEF InStep, q

\* What one device sends does not concern the journals of the others.
LEMMA OthersInStep ==
  ASSUME NEW made, NEW d, NEW c, ClientOK(made, d, c), NEW rc, NEW h, NEW under, NEW w,
         InStep(d, rc, h, under, c, w), NEW more,
         \A r \in more : r \in under \/ (RequestOK(made, r) /\ r.device # d)
  PROVE  InStep(d, rc, h, more, c, w)
<1>1. ASSUME NEW e \in Entries(c.disk), NEW k \in Ids(e.pending), NEW r,
             RequestOK(made, r), r.device # d, r.command # None
      PROVE  r.command.id # k
  BY <1>1 DEF ClientOK, EnvelopeOK, Ids, Meant, RequestOK
<1>2. Polls(rc, c, w, more)
  BY <1>1 DEF InStep, Polls
<1> QED BY <1>2 DEF InStep

\* The server decides k.
LEMMA InStepDecides ==
  ASSUME NEW made, NEW d, NEW c, ClientOK(made, d, c), NEW rc, NEW h, NEW under, NEW w,
         InStep(d, rc, h, under, c, w), WorkerOK(made, d, w),
         IsChain(h), NEW g, IsChain(g), Begins(h, g), NEW k, NEW rc2,
         DOMAIN rc2 = DOMAIN rc \cup {k}, \A y \in DOMAIN rc : rc2[y] = rc[y],
         \/ \A e \in Entries(c.disk) : k \notin Ids(e.pending)
         \/ \A e \in Entries(c.disk) : e.pending # <<>> /\ Head(e.pending).id = k,
         w.request # None /\ w.request.command = None =>
           \A e \in Entries(c.disk) : k \notin Ids(e.pending)
  PROVE  InStep(d, rc2, g, under, c, w)
<1>1. JournalOK(rc2, g, c)
  BY JournalDecides DEF InStep
<1>2. Polls(rc2, c, w, under)
  BY DEF InStep, Polls
<1>3. Informed(rc2, g, w)
  <2> SUFFICES ASSUME Answer(w) PROVE Informed(rc2, g, w)
    BY DEF Informed
  <2> DEFINE q == w.request
             p == w.result.response
  <2>1. IsSnapshot(p.snapshot) /\ IsChain(p.snapshot.history)
    BY DEF WorkerOK, Answer, ResponseOK, IsSnapshot
  <2>2. /\ Begins(p.snapshot.history, h)
        /\ q.command # None => q.command.id \in DOMAIN rc /\ p.receipt.outcome = rc[q.command.id].outcome
    BY DEF InStep, Informed
  <2> HIDE DEF p, q
  <2>3. Begins(p.snapshot.history, g)
    BY <2>1, <2>2, BeginsThrough
  <2>4. q.command # None => q.command.id \in DOMAIN rc2 /\ p.receipt.outcome = rc2[q.command.id].outcome
    BY <2>2
  <2> QED BY <2>3, <2>4 DEF Informed, p, q
<1>4. \A r : Sends(rc, c, r) => Sends(rc2, c, r)
  BY DEF Sends
<1> QED BY <1>1, <1>2, <1>3, <1>4 DEF InStep

\* The worker is handed a result.
LEMMA InStepHears ==
  ASSUME NEW d, NEW c, NEW rc, NEW h, NEW under, NEW w, InStep(d, rc, h, under, c, w),
         NEW w2, w2.request = w.request, Informed(rc, h, w2)
  PROVE  InStep(d, rc, h, under, c, w2)
BY DEF InStep, Polls

\* The chain begins with the empty queue and the founding, which nobody asked.
Rooted(h) == Len(h) >= 2 /\ h[1].by \notin CommandId /\ h[2].by = Founding.id

LedgerInv ==
  /\ SyncInv /\ restores = 0 /\ Rooted(state.snapshot.history)
  /\ \A d \in Device :
       InStep(d, receipts, state.snapshot.history, sent, client[d], worker[d])

LEMMA LedgerFacts ==
  ASSUME LedgerInv
  PROVE  /\ IsMade(composed) /\ IsChain(state.snapshot.history)
         /\ Decided(receipts, state.snapshot.history) /\ Asked(composed, receipts)
         /\ \A d \in Device :
              /\ ClientOK(composed, d, client[d]) /\ WorkerOK(composed, d, worker[d])
              /\ IsEnvelope(client[d].disk[1]) /\ IsEnvelope(env(d))
              /\ Known(receipts, state.snapshot.history, client[d].disk[1])
              /\ Known(receipts, state.snapshot.history, env(d))
<1>1. SyncInv
  BY DEF LedgerInv
<1>2. IsMade(composed) /\ IsChain(state.snapshot.history) /\ Asked(composed, receipts)
  BY <1>1, SoundFacts DEF SyncInv, Stored, Good
<1>3. Decided(receipts, state.snapshot.history)
  BY <1>1 DEF SyncInv, Stored, Good, OneEffect, Decided
<1>4. \A d \in Device : ClientOK(composed, d, client[d]) /\ WorkerOK(composed, d, worker[d])
  BY <1>1 DEF SyncInv
<1>5. \A d \in Device : JournalOK(receipts, state.snapshot.history, client[d])
  BY DEF LedgerInv, InStep
<1>6. ASSUME NEW d \in Device
      PROVE  /\ IsEnvelope(client[d].disk[1]) /\ IsEnvelope(env(d))
             /\ Known(receipts, state.snapshot.history, client[d].disk[1])
             /\ Known(receipts, state.snapshot.history, env(d))
  BY <1>4, <1>5, LatestOK DEF JournalOK, EnvelopeOK, env
<1> QED BY <1>2, <1>3, <1>4, <1>6

\* What an envelope sees of the log is what is applied in its queue.
LEMMA SeenApplied ==
  ASSUME NEW h, IsChain(h), Rooted(h), NEW rc, NEW x, IsEnvelope(x), Known(rc, h, x),
         NEW c \in CommandId \ {Founding.id}
  PROVE  LET n == Len(x.confirmed.history) - 2
         IN /\ n \in 0..(Len(h) - 2)
            /\ (c \in {[i \in 1..(Len(h) - 2) |-> h[i + 2].by][j] : j \in 1..n})
                 <=> c \in Applies(x.confirmed)
<1> DEFINE g == x.confirmed.history
           n == Len(g) - 2
           log == [i \in 1..(Len(h) - 2) |-> h[i + 2].by]
<1>1. /\ IsChain(g) /\ Len(g) \in Nat /\ Len(h) \in Nat /\ DOMAIN g = 1..Len(g)
      /\ Len(g) >= 2 /\ Len(g) <= Len(h) /\ \A i \in 1..Len(g) : g[i] = h[i]
  BY ChainLength DEF IsEnvelope, IsSnapshot, Known, Begins
<1>2. Applies(x.confirmed) = {g[i].by : i \in 1..Len(g)}
  BY <1>1, AppliesAre
<1> HIDE DEF g
<1>3. n \in 0..(Len(h) - 2)
  BY <1>1
<1>4. ASSUME NEW j \in 1..n PROVE log[j] = g[j + 2].by /\ j + 2 \in 1..Len(g)
  BY <1>1
<1>5. ASSUME NEW i \in 1..Len(g), g[i].by = c PROVE i - 2 \in 1..n /\ log[i - 2] = c
  <2>1. i # 1 /\ i # 2
    <3>1. 1 \in 1..Len(g) /\ 2 \in 1..Len(g)
      BY <1>1
    <3> QED BY <1>1, <1>5, <3>1 DEF Rooted
  <2>2. i - 2 \in 1..n /\ (i - 2) + 2 = i /\ i - 2 \in 1..(Len(h) - 2)
    BY <1>1, <2>1
  <2> QED BY <1>1, <1>5, <2>2
<1> HIDE DEF log, n
<1>6. (c \in {log[j] : j \in 1..n}) <=> c \in Applies(x.confirmed)
  BY <1>2, <1>4, <1>5
<1> QED BY <1>3, <1>6 DEF log, n, g

\* A journal that goes on is an advance of the ledger.
LEMMA LedgerAdvances ==
  ASSUME LedgerInv, SyncInv', Grows(composed, composed'), UNCHANGED <<state, receipts>>,
         NEW d \in Device, NEW c2, Only(d, client, client', c2),
         Known(receipts, state.snapshot.history, c2.disk[1]),
         Succeeds(receipts, client[d].disk[1], c2.disk[1])
  PROVE  Ledger!Next
<1> DEFINE h == state.snapshot.history
           o == client[d].disk[1]
           x == c2.disk[1]
           log == [i \in 1..(Len(h) - 2) |-> h[i + 2].by]
           verdict == [c \in DOMAIN receipts \ {Founding.id} |->
                [device |-> receipts[c].device, status |-> receipts[c].outcome.status]]
           holds == [e \in Device |-> Ids(Durable(e).pending)]
           sees == [e \in Device |-> Len(Durable(e).confirmed.history) - 2]
           new == Ids(x.pending) \ Ids(o.pending)
           settled == Ids(o.pending) \ Ids(x.pending)
           n == Len(x.confirmed.history) - 2
<1>1. /\ IsChain(h) /\ Rooted(h) /\ IsEnvelope(o) /\ Known(receipts, h, o)
      /\ \A e \in Device : EnvelopeOK(composed, e, Durable(e))
      /\ EnvelopeOK(composed', d, x) /\ IsEnvelope(x) /\ IsMade(composed')
  <2>1. ClientOK(composed', d, client'[d]) /\ client'[d] = c2 /\ IsMade(composed')
    BY DEF SyncInv, Only
  <2>2. EnvelopeOK(composed', d, x) /\ IsEnvelope(x)
    BY <2>1, LatestOK DEF EnvelopeOK
  <2>3. \A e \in Device : EnvelopeOK(composed, e, Durable(e))
    BY LedgerFacts, LatestOK DEF Durable
  <2> QED BY <2>1, <2>2, <2>3, LedgerFacts DEF LedgerInv
<1>2. \A e \in Device : \A k \in Ids(Durable(e).pending) :
        k \in DOMAIN composed' /\ composed'[k].device = e /\ k \in CommandId \ {Founding.id}
  <2>1. \A e \in Device : \A k \in Ids(Durable(e).pending) : k \in DOMAIN composed /\ composed[k].device = e
    BY <1>1 DEF EnvelopeOK, Meant, Ids
  <2> QED BY <1>1, <2>1 DEF Grows, IsMade
<1>3. \A k \in Ids(x.pending) :
        k \in DOMAIN composed' /\ composed'[k].device = d /\ k \in CommandId \ {Founding.id}
  BY <1>1 DEF EnvelopeOK, Meant, Ids, IsMade
<1>4. Durable(d) = o
  BY DEF Durable
<1>5. new \in SUBSET (CommandId \ (DOMAIN verdict \cup UNION {holds[e] : e \in Device}))
  <2> SUFFICES ASSUME NEW k \in new
               PROVE  /\ k \in CommandId /\ k \notin DOMAIN receipts
                      /\ \A e \in Device : k \notin Ids(Durable(e).pending)
    OBVIOUS
  <2> QED BY <1>2, <1>3, <1>4 DEF Succeeds
<1>6. settled \in SUBSET holds[d] /\ settled \subseteq DOMAIN verdict
  BY <1>2, <1>4 DEF Succeeds
<1>7. /\ Len(log) = Len(h) - 2
      /\ n \in 0..(Len(h) - 2) /\ Len(o.confirmed.history) - 2 \in 0..(Len(h) - 2)
      /\ Len(o.confirmed.history) - 2 <= n
      /\ \A c \in CommandId \ {Founding.id} : c \in {log[i] : i \in 1..n} <=> c \in Applies(x.confirmed)
  <2>0. /\ Len(h) \in Nat /\ Len(x.confirmed.history) \in Nat /\ Len(o.confirmed.history) \in Nat
        /\ Len(h) >= 2 /\ Len(x.confirmed.history) >= 2 /\ Len(o.confirmed.history) >= 2
        /\ Len(x.confirmed.history) <= Len(h) /\ Len(o.confirmed.history) <= Len(h)
    <3>1. IsChain(x.confirmed.history) /\ IsChain(o.confirmed.history)
      BY <1>1 DEF IsEnvelope, IsSnapshot
    <3>2. Known(receipts, h, x)
      OBVIOUS
    <3> HIDE DEF h, o, x
    <3>3. Len(h) \in Nat /\ Len(x.confirmed.history) \in Nat /\ Len(o.confirmed.history) \in Nat
      BY <1>1, <3>1, ChainLength
    <3> QED BY <1>1, <3>2, <3>3 DEF Known, Begins, Rooted
  <2>1. Len(h) - 2 \in Nat
    <3> HIDE DEF h
    <3> QED BY <2>0
  <2>3. Len(log) = Len(h) - 2
    <3> DEFINE m == Len(h) - 2
               S == {h[i + 2].by : i \in 1..m}
    <3>1. log \in [1..m -> S] /\ m \in Nat
      BY <2>1
    <3> HIDE DEF m, S, log
    <3>2. log \in Seq(S) /\ DOMAIN log = 1..m
      BY <3>1, SeqDef
    <3>3. Len(log) \in Nat /\ DOMAIN log = 1..Len(log)
      BY <3>2, LenProperties
    <3>4. Len(log) = m
      BY <3>1, <3>2, <3>3
    <3> QED BY <3>4 DEF m
  <2>4. FreshIn(CommandId, {}) \in CommandId
    BY Drawing, SyncConstants
  <2>5. Len(x.confirmed.history) - 2 \in 0..(Len(h) - 2)
    <3> HIDE DEF h, o, x
    <3> QED BY <2>0
  <2>6. Len(o.confirmed.history) - 2 \in 0..(Len(h) - 2)
    <3> HIDE DEF h, o, x
    <3> QED BY <2>0
  <2>7. Len(o.confirmed.history) - 2 <= n
    <3>1. Len(o.confirmed.history) <= Len(x.confirmed.history)
      BY DEF Succeeds, Begins
    <3> HIDE DEF o, x
    <3> QED BY <2>0, <3>1
  <2>8. ASSUME NEW c \in CommandId \ {Founding.id}
        PROVE  c \in {log[i] : i \in 1..n} <=> c \in Applies(x.confirmed)
    <3> HIDE DEF h, x
    <3> QED BY <1>1, SeenApplied DEF x, h
  <2> QED BY <2>3, <2>5, <2>6, <2>7, <2>8
<1>8. /\ \A c \in holds[d] : c \in {log[i] : i \in 1..n} => c \in settled
      /\ \A c \in settled : verdict[c].status = "applied" => c \in {log[i] : i \in 1..n}
  <2>1. holds[d] = Ids(o.pending)
    BY <1>4
  <2>2. \A c \in Ids(o.pending) : c \in CommandId \ {Founding.id}
    BY <1>2, <1>4
  <2>3. \A c \in Ids(o.pending) : c \in {log[i] : i \in 1..n} => c \notin Ids(x.pending)
    BY <1>7, <2>2 DEF Known
  <2>4. \A c \in settled : verdict[c].status = receipts[c].outcome.status
    BY <1>6
  <2>5. \A c \in settled : receipts[c].outcome.status = "applied" => c \in Applies(x.confirmed)
    BY DEF Succeeds
  <2>6. \A c \in settled : c \in Ids(o.pending)
    OBVIOUS
  <2>7. \A c \in Ids(o.pending) : c \notin Ids(x.pending) => c \in settled
    OBVIOUS
  <2> HIDE DEF log, n, verdict, holds, settled, o, x
  <2>8. \A c \in holds[d] : c \in {log[i] : i \in 1..n} => c \in settled
    BY <2>1, <2>3, <2>7
  <2>9. \A c \in settled : verdict[c].status = "applied" => c \in {log[i] : i \in 1..n}
    BY <1>7, <2>2, <2>4, <2>5, <2>6
  <2> QED BY <2>8, <2>9
<1>9. /\ n \in sees[d]..Len(log)
  <2>1. sees[d] = Len(o.confirmed.history) - 2
    BY <1>4
  <2> HIDE DEF sees, log, n
  <2> QED BY <1>7, <2>1
<1>10. /\ [e \in Device |-> Ids(client'[e].disk[1].pending)]
            = [holds EXCEPT ![d] = (@ \ settled) \cup new]
       /\ [e \in Device |-> Len(client'[e].disk[1].confirmed.history) - 2] = [sees EXCEPT ![d] = n]
  <2>1. client'[d].disk[1] = x /\ \A e \in Device \ {d} : client'[e].disk[1] = Durable(e)
    BY DEF Only, Durable
  <2>2. (holds[d] \ settled) \cup new = Ids(x.pending)
    BY <1>4
  <2> QED BY <2>1, <2>2
<1>11. UNCHANGED <<log, verdict>>
  OBVIOUS
<1>12. Ledger!Advance(d)
  <2> HIDE DEF new, settled, n
  <2> QED BY <1>5, <1>6, <1>8, <1>9, <1>10, <1>11 DEF Ledger!Advance, Ledger!Held, Ledger!First, Durable,
         Log, Verdict, Holds, Sees
<1> QED BY <1>12 DEF Ledger!Next

\* Device d goes on by itself, and stays in step.
LEMMA LedgerDevice ==
  ASSUME LedgerInv, SyncInv', Grows(composed, composed'), UNCHANGED <<state, receipts, restores>>,
         NEW d \in Device, NEW c2, NEW w2,
         Only(d, client, client', c2), Only(d, worker, worker', w2),
         InStep(d, receipts, state.snapshot.history, sent', c2, w2),
         Known(receipts, state.snapshot.history, c2.disk[1]),
         Succeeds(receipts, client[d].disk[1], c2.disk[1]),
         \A r \in sent' : r \in sent \/ (RequestOK(composed, r) /\ r.device = d)
  PROVE  LedgerInv' /\ Ledger!Next
<1> DEFINE h == state.snapshot.history
<1>1. Ledger!Next
  BY LedgerAdvances
<1>2. ASSUME NEW e \in Device PROVE InStep(e, receipts, h, sent', client'[e], worker'[e])
  <2>1. CASE e = d
    BY <2>1 DEF Only
  <2>2. CASE e # d
    <3>1. client'[e] = client[e] /\ worker'[e] = worker[e]
      BY <2>2 DEF Only
    <3>2. ClientOK(composed, e, client[e]) /\ InStep(e, receipts, h, sent, client[e], worker[e])
      BY DEF LedgerInv, SyncInv
    <3>3. \A r \in sent' : r \in sent \/ (RequestOK(composed, r) /\ r.device # e)
      BY <2>2
    <3> HIDE DEF h
    <3>4. InStep(e, receipts, h, sent', client[e], worker[e])
      BY <3>2, <3>3, OthersInStep
    <3> QED BY <3>1, <3>4
  <2> QED BY <2>1, <2>2
<1>3. LedgerInv'
  BY <1>2 DEF LedgerInv
<1> QED BY <1>1, <1>3

\* A user's command is new to the ledger.
LEMMA LedgerAsks ==
  ASSUME LedgerInv, NEW d \in Device, NEW command, NEW saved, Asks(d, command, saved)
  PROVE  LedgerInv' /\ Ledger!Next
<1> DEFINE c == client[d]
           e == env(d)
           x == Enqueued(e, command)
           w == worker[d]
           h == state.snapshot.history
<1>0. SyncInv
  BY DEF LedgerInv
<1>1. SyncInv'
  BY <1>0, EnqueueOK DEF Asks
<1>2. PICK c2 :
        /\ client' = [client EXCEPT ![d] = c2] /\ Becomes(c, c2, x)
        /\ Grows(composed, composed') /\ EnvelopeOK(composed', d, x)
        /\ x.pending = Append(e.pending, command) /\ x.confirmed = e.confirmed
  BY <1>0, EnqueueMove DEF Asks
<1>3. UNCHANGED <<state, receipts, restores, worker, sent>>
  BY DEF Asks, Enqueue, serverVars, server
<1>4. Only(d, client, client', c2) /\ Only(d, worker, worker', w)
  BY <1>0, <1>2, <1>3, OnlyOne DEF SyncInv
<1>5. /\ IsChain(h) /\ Decided(receipts, h) /\ Asked(composed, receipts)
      /\ ClientOK(composed, d, c) /\ InStep(d, receipts, h, sent, c, w) /\ e = Envelope(c)
      /\ \A r \in sent : RequestOK(composed, r)
  BY <1>0, LedgerFacts DEF LedgerInv, env, SyncInv
<1>6. command.id \in CommandId \ DOMAIN receipts
  BY <1>5, CommandKinds DEF Asks, Asked
<1>7. \A r \in sent : r.command # None => r.command.id # command.id
  BY <1>5 DEF RequestOK, Meant, Asks
<1>8. IsEnvelope(x) /\ JournalOK(receipts, h, c)
  BY <1>2, <1>5 DEF EnvelopeOK, InStep
<1> HIDE DEF x, e, h, c, w
<1>9. /\ Known(receipts, h, x) /\ Succeeds(receipts, c.disk[1], x)
      /\ Ids(x.pending) = Ids(Envelope(c).pending) \cup {command.id}
      /\ Envelope(c).pending # <<>> =>
           x.pending # <<>> /\ Head(x.pending) = Head(Envelope(c).pending)
  BY <1>2, <1>5, <1>6, <1>8, EnqueuedKnown
<1>10. \A k \in Ids(x.pending) :
         \/ k \in Ids(Envelope(c).pending)
         \/ k \notin DOMAIN receipts /\ \A r \in sent : r.command # None => r.command.id # k
  BY <1>6, <1>7, <1>9
<1>11. Quiet(w, w)
  BY DEF Quiet
<1>12. /\ InStep(d, receipts, h, sent, c2, w)
       /\ Known(receipts, h, c2.disk[1]) /\ Succeeds(receipts, c.disk[1], c2.disk[1])
  BY <1>2, <1>5, <1>8, <1>9, <1>10, <1>11, InStepMoves
<1> QED BY <1>1, <1>2, <1>3, <1>4, <1>12, LedgerDevice DEF c, h

\* What leaves pending what is pending adds nothing to the ledger.
LEMMA LedgerTurns ==
  ASSUME LedgerInv, NEW d \in Device, NEW c2, NEW w2, NEW x, NEW gone, Turns(d, c2, w2, x, gone)
  PROVE  LedgerInv' /\ Ledger!Next
<1> DEFINE c == client[d]
           w == worker[d]
           h == state.snapshot.history
<1>0. SyncInv
  BY DEF LedgerInv
<1>1. SyncInv'
  BY <1>0, TurnsOK
<1>2. /\ Becomes(c, c2, x) /\ IsEnvelope(x) /\ Quiet(w, w2)
      /\ x.pending = Envelope(c).pending /\ x.confirmed = Envelope(c).confirmed
      /\ UNCHANGED <<state, receipts, restores, sent, composed>>
  BY DEF Turns, Refiles, EnvelopeOK, serverVars, server
<1>3. Only(d, client, client', c2) /\ Only(d, worker, worker', w2)
  BY <1>0, OnlyOne DEF SyncInv, Turns
<1>4. /\ ClientOK(composed, d, c) /\ InStep(d, receipts, h, sent, c, w)
      /\ JournalOK(receipts, h, c)
  BY <1>0 DEF LedgerInv, SyncInv, InStep
<1>5. Grows(composed, composed')
  BY <1>2 DEF Grows
<1> HIDE DEF c, w, h
<1>6. Known(receipts, h, x) /\ Succeeds(receipts, c.disk[1], x)
  BY <1>2, <1>4, RefiledKnown
<1>7. /\ InStep(d, receipts, h, sent, c2, w2)
      /\ Known(receipts, h, c2.disk[1]) /\ Succeeds(receipts, c.disk[1], c2.disk[1])
  BY <1>2, <1>4, <1>6, InStepMoves
<1> QED BY <1>1, <1>2, <1>3, <1>5, <1>7, LedgerDevice DEF c, h

\* A tick lets go of what the answer settled, and of nothing else.
LEMMA LedgerTicks ==
  ASSUME LedgerInv, NEW d \in Device, Tick(d)
  PROVE  LedgerInv' /\ Ledger!Next
<1> DEFINE c == client[d]
           w == worker[d]
           h == state.snapshot.history
           q == w.request
           p == w.result.response
<1>0. SyncInv
  BY DEF LedgerInv
<1>1. SyncInv'
  BY <1>0, TickOK
<1>2. PICK saved \in SaveResult, synced \in BOOLEAN, due \in BOOLEAN :
        TickWith(d, saved, synced, due)
  BY DEF Tick
<1>3. /\ IsMade(composed) /\ ClientOK(composed, d, c) /\ WorkerOK(composed, d, w)
      /\ saved \in {"ok", "after", "before"} /\ Grows(composed, composed)
      /\ UNCHANGED <<state, receipts, restores, composed>>
  BY <1>0, <1>2 DEF SyncInv, SaveResult, TickWith, serverVars, server, Grows
<1>4. PICK c2, w2, x :
        /\ client' = [client EXCEPT ![d] = c2] /\ worker' = [worker EXCEPT ![d] = w2]
        /\ Becomes(c, c2, x)
        /\ \/ Refiles(composed, d, Envelope(c), x, {})
           \/ Answer(w) /\ Reconciles(composed, d, Envelope(c), x, q, p)
        /\ WorkerOK(composed, d, w2)
        /\ \/ (w2 = w \/ w2.request = None) /\ sent' = sent
           \/ /\ ~c2.warned /\ w2.request = NextRequest(c2, TokenOf(d)) /\ w2.result = None
              /\ RequestOK(composed, w2.request) /\ w2.request.device = d
              /\ sent' \in {sent, sent \cup {w2.request}}
              /\ w2.request.command # None =>
                   w2.request.command.id \in Ids(Envelope(c2).pending)
              /\ sent' # sent => w2.request.command # None
  BY <1>2, <1>3, TickMove
<1>5. Only(d, client, client', c2) /\ Only(d, worker, worker', w2)
  BY <1>0, <1>4, OnlyOne DEF SyncInv
<1>6. /\ IsChain(h) /\ Decided(receipts, h) /\ InStep(d, receipts, h, sent, c, w)
      /\ JournalOK(receipts, h, c) /\ Polls(receipts, c, w, sent) /\ Informed(receipts, h, w)
  BY LedgerFacts DEF LedgerInv, InStep
<1>7. ClientOK(composed, d, c2) /\ Grows(composed, composed')
  BY <1>1, <1>3, <1>5 DEF SyncInv, Only
<1> HIDE DEF h, c
<1>8. /\ IsEnvelope(x) /\ Known(receipts, h, x) /\ Succeeds(receipts, c.disk[1], x)
      /\ Envelope(c).pending # <<>> /\ Head(Envelope(c).pending).id \notin DOMAIN receipts =>
           x.pending # <<>> /\ Head(x.pending) = Head(Envelope(c).pending)
      /\ Ids(x.pending) \subseteq Ids(Envelope(c).pending)
  <2>1. CASE Refiles(composed, d, Envelope(c), x, {})
    <3>1. /\ IsEnvelope(x)
          /\ x.pending = Envelope(c).pending /\ x.confirmed = Envelope(c).confirmed
      BY <2>1 DEF Refiles, EnvelopeOK
    <3>2. Known(receipts, h, x) /\ Succeeds(receipts, c.disk[1], x)
      BY <1>3, <1>6, <3>1, RefiledKnown
    <3> QED BY <3>1, <3>2
  <2>2. CASE Answer(w) /\ Reconciles(composed, d, Envelope(c), x, q, p)
    <3>1. /\ Begins(p.snapshot.history, h) /\ ResponseOK(q, p) /\ q # None
          /\ q.command # None => /\ q.command.id \in DOMAIN receipts
                                 /\ p.receipt.outcome = receipts[q.command.id].outcome
      BY <1>3, <1>6, <2>2 DEF Informed, Answer, WorkerOK
    <3>2. Envelope(c) \in Entries(c.disk)
      BY <1>3, LatestOK
    <3>3. q.command = None => \A k \in Ids(Envelope(c).pending) : k \notin DOMAIN receipts
      BY <1>6, <3>1, <3>2 DEF Polls
    <3>4. IsEnvelope(x)
      BY <2>2 DEF Reconciles, EnvelopeOK
    <3> HIDE DEF q, p
    <3>5. /\ Known(receipts, h, x) /\ Succeeds(receipts, c.disk[1], x)
          /\ Ids(x.pending) \subseteq Ids(Envelope(c).pending)
          /\ q.command # None => Head(Envelope(c).pending).id \in DOMAIN receipts
          /\ q.command = None => x.pending = Envelope(c).pending
      BY <1>3, <1>6, <2>2, <3>1, <3>3, ReconciledKnown
    <3> QED BY <3>4, <3>5
  <2> QED BY <1>4, <2>1, <2>2
<1> HIDE DEF w
<1>9. \A v : Quiet(w, v) =>
        /\ InStep(d, receipts, h, sent, c2, v)
        /\ Known(receipts, h, c2.disk[1]) /\ Succeeds(receipts, c.disk[1], c2.disk[1])
  BY <1>3, <1>4, <1>6, <1>8, InStepMoves
<1>10. InStep(d, receipts, h, sent', c2, w2)
  <2>1. CASE (w2 = w \/ w2.request = None) /\ sent' = sent
    <3>1. Quiet(w, w2)
      BY <2>1 DEF Quiet
    <3> QED BY <1>9, <2>1, <3>1
  <2>2. CASE /\ ~c2.warned /\ w2.request = NextRequest(c2, TokenOf(d)) /\ w2.result = None
             /\ sent' \in {sent, sent \cup {w2.request}}
    <3>1. Quiet(w, NewWorker)
      BY DEF Quiet, NewWorker
    <3>2. InStep(d, receipts, h, sent, c2, NewWorker)
      BY <1>9, <3>1
    <3> QED BY <1>7, <2>2, <3>2, InStepSends
  <2> QED BY <1>4, <2>1, <2>2
<1>11. Known(receipts, h, c2.disk[1]) /\ Succeeds(receipts, c.disk[1], c2.disk[1])
  <2>1. Quiet(w, w)
    BY DEF Quiet
  <2> QED BY <1>9, <2>1
<1>12. \A r \in sent' : r \in sent \/ (RequestOK(composed, r) /\ r.device = d)
  BY <1>4
<1> QED BY <1>1, <1>3, <1>5, <1>7, <1>10, <1>11, <1>12, LedgerDevice DEF c, h

\* What a request of a device makes of the server: nothing, or the decision on its command.
LEMMA ExchangeDecides ==
  ASSUME Stored, NEW request, RequestOK(composed, request), NEW sampled \in Nat,
         Exchange(request, sampled)
  PROVE  LET c == request.command
             h == state.snapshot.history
             g == state'.snapshot.history
         IN \/ UNCHANGED <<state, receipts>>
            \/ /\ c # None /\ c.id \notin DOMAIN receipts
               /\ DOMAIN receipts' = DOMAIN receipts \cup {c.id}
               /\ \A y \in DOMAIN receipts : receipts'[y] = receipts[y]
               /\ receipts'[c.id].device = request.device
               /\ \/ /\ receipts'[c.id].outcome.status = "applied"
                     /\ IsChain(g) /\ Len(g) = Len(h) + 1 /\ g[Len(h) + 1].by = c.id
                     /\ \A i \in DOMAIN h : g[i] = h[i]
                  \/ receipts'[c.id].outcome.status = "rejected" /\ state' = state
<1> DEFINE c == request.command
           h == state.snapshot.history
           g == state'.snapshot.history
           now == ServerTime(sampled)
           outcome == Outcome(c, now)
<1>1. CASE c = None \/ c.id \in DOMAIN receipts
  BY <1>1 DEF Exchange
<1>2. CASE ~(c = None \/ c.id \in DOMAIN receipts)
  <2>1. Execute(request.device, c, now)
    BY <1>2 DEF Exchange
  <2>2. /\ DOMAIN receipts' = DOMAIN receipts \cup {c.id}
        /\ \A y \in DOMAIN receipts : receipts'[y] = receipts[y]
        /\ receipts'[c.id].device = request.device /\ receipts'[c.id].outcome = outcome
    <3> HIDE DEF outcome
    <3> QED BY <1>2, <2>1 DEF Execute, outcome
  <2>3. CASE outcome.status = "applied"
    <3>1. Sound(state) /\ now \in Nat /\ c \in Command
      BY <1>2 DEF Stored, IsDatabase, database, ServerTime, RequestOK, Sound, Good
    <3>2. Refusal(state, c, now) = None
      BY <2>3 DEF Outcome, Rejected, Applied
    <3>3. state' = Apply(state, c, now)
      BY <2>1, <2>3 DEF Execute
    <3> DEFINE l == Link(c.id, state'.snapshot)
    <3> HIDE DEF now
    <3>4. Sound(state') /\ g = Append(h, l)
      BY <3>1, <3>2, <3>3, ApplySound
    <3>5. IsChain(h) /\ IsBody(state'.snapshot) /\ IsChain(g)
      BY <3>1, <3>4 DEF Sound, IsState, IsSnapshot
    <3>6. c.id \in Token
      BY <3>1, CommandKinds
    <3>7. /\ Len(g) = Len(h) + 1 /\ g[Len(h) + 1] = l /\ \A i \in DOMAIN h : g[i] = h[i]
      BY <3>4, <3>5, <3>6, Linked
    <3>8. l.by = c.id
      BY DEF Link
    <3> HIDE DEF l, outcome, h, g, c
    <3> QED BY <1>2, <2>2, <2>3, <3>5, <3>7, <3>8 DEF h, g, c
  <2>4. CASE outcome.status # "applied"
    <3>1. state' = state
      BY <2>1, <2>4 DEF Execute
    <3>2. outcome.status = "rejected"
      BY <2>4 DEF Outcome, Rejected, Applied
    <3> HIDE DEF outcome
    <3> QED BY <1>2, <2>2, <3>1, <3>2
  <2> QED BY <2>3, <2>4
<1> QED BY <1>1, <1>2

\* The log grows by what is applied.
LEMMA LogLonger ==
  ASSUME NEW h, IsChain(h), NEW g, IsChain(g), Len(g) = Len(h) + 1, Len(h) >= 2,
         \A i \in DOMAIN h : g[i] = h[i], NEW k, g[Len(h) + 1].by = k
  PROVE  [i \in 1..(Len(g) - 2) |-> g[i + 2].by]
           = Append([i \in 1..(Len(h) - 2) |-> h[i + 2].by], k)
<1> DEFINE m == Len(h) - 2
           log == [i \in 1..m |-> h[i + 2].by]
           more == [i \in 1..(m + 1) |-> g[i + 2].by]
           S == {h[i + 2].by : i \in 1..m} \cup {k}
<1>1. Len(h) \in Nat /\ DOMAIN h = 1..Len(h) /\ m \in Nat /\ Len(g) - 2 = m + 1
  BY ChainLength
<1>2. log \in [1..m -> S] /\ k \in S
  OBVIOUS
<1>3. /\ \A i \in 1..m : more[i] = log[i]
      /\ more[m + 1] = k
  <2>1. ASSUME NEW i \in 1..m PROVE g[i + 2] = h[i + 2] /\ i \in 1..(m + 1)
    BY <1>1
  <2>2. (m + 1) + 2 = Len(h) + 1 /\ m + 1 \in 1..(m + 1)
    BY <1>1
  <2> QED BY <2>1, <2>2
<1>4. DOMAIN more = 1..(m + 1) /\ more = [i \in 1..(m + 1) |-> more[i]]
  OBVIOUS
<1> HIDE DEF m, S, log, more
<1>5. log \in Seq(S) /\ Len(log) = m
  <2>1. log \in Seq(S) /\ DOMAIN log = 1..m
    BY <1>1, <1>2, SeqDef
  <2>2. Len(log) \in Nat /\ DOMAIN log = 1..Len(log)
    BY <2>1, LenProperties
  <2>3. log \in [1..m -> S] /\ m \in Nat
    BY <1>1, <1>2
  <2>4. Len(log) = m
    BY <2>1, <2>2, <2>3
  <2> QED BY <2>1, <2>4
<1>6. /\ Append(log, k) \in Seq(S) /\ Len(Append(log, k)) = m + 1
      /\ \A i \in 1..m : Append(log, k)[i] = log[i]
      /\ Append(log, k)[m + 1] = k
  BY <1>2, <1>5, AppendProperties
<1>7. Append(log, k) \in [1..(m + 1) -> S]
  BY <1>6, LenProperties
<1>8. \A i \in 1..(m + 1) : more[i] = Append(log, k)[i]
  <2> SUFFICES ASSUME NEW i \in 1..(m + 1) PROVE more[i] = Append(log, k)[i]
    OBVIOUS
  <2>1. i \in 1..m \/ i = m + 1
    BY <1>1
  <2> QED BY <1>3, <1>6, <2>1
<1>9. more = Append(log, k)
  BY <1>4, <1>7, <1>8
<1> QED BY <1>1, <1>9 DEF more, log, m

\* What the server takes of a request is a decision of the ledger, and every device stays in
\* step with it.
LEMMA LedgerServes ==
  ASSUME LedgerInv, NEW request, RequestOK(composed, request),
         Sends(receipts, client[request.device], request),
         request \in sent \/ worker[request.device].request = request,
         NEW now \in 0..MaxTime, Exchange(request, now), client' = client
  PROVE  /\ Rooted(state'.snapshot.history)
         /\ \A d \in Device :
              InStep(d, receipts', state'.snapshot.history, sent, client[d], worker[d])
         /\ UNCHANGED <<state, receipts>> \/ Ledger!Next
<1> DEFINE c == request.command
           k == c.id
           own == request.device
           h == state.snapshot.history
           g == state'.snapshot.history
<1>1. /\ SyncInv /\ now \in Nat /\ Stored /\ IsMade(composed)
      /\ Branch(composed, state.snapshot) /\ Asked(composed, receipts) /\ own \in Device
  BY SyncConstants DEF LedgerInv, SyncInv, RequestOK
<1>2. CASE UNCHANGED <<state, receipts>>
  BY <1>2 DEF LedgerInv
<1>3. CASE ~UNCHANGED <<state, receipts>>
  <2>1. /\ c # None /\ k \notin DOMAIN receipts
        /\ DOMAIN receipts' = DOMAIN receipts \cup {k}
        /\ \A y \in DOMAIN receipts : receipts'[y] = receipts[y]
        /\ receipts'[k].device = own
        /\ \/ /\ receipts'[k].outcome.status = "applied"
              /\ IsChain(g) /\ Len(g) = Len(h) + 1 /\ g[Len(h) + 1].by = k
              /\ \A i \in DOMAIN h : g[i] = h[i]
           \/ receipts'[k].outcome.status = "rejected" /\ state' = state
    BY <1>1, <1>3, ExchangeDecides
  <2>2. /\ IsChain(h) /\ Rooted(h) /\ IsChain(g)
        /\ \A d \in Device : /\ InStep(d, receipts, h, sent, client[d], worker[d])
                             /\ ClientOK(composed, d, client[d]) /\ WorkerOK(composed, d, worker[d])
    BY <2>1, LedgerFacts DEF LedgerInv
  <2>3. Begins(h, g)
    BY <1>1, ExchangeServes
  <2>4. k \in DOMAIN composed /\ composed[k].device = own /\ k \in CommandId \ {Founding.id}
    BY <1>1, <2>1 DEF RequestOK, Meant, IsMade
  <2>5. \A e \in Entries(client[own].disk) : e.pending # <<>> /\ Head(e.pending).id = k
    BY <2>1 DEF Sends
  <2> HIDE DEF c, k, own, h, g
  <2>6. ASSUME NEW d \in Device, d # own, NEW e \in Entries(client[d].disk)
        PROVE  k \notin Ids(e.pending)
    BY <2>2, <2>4, <2>6 DEF ClientOK, EnvelopeOK, Ids, Meant
  <2>7. ASSUME worker[own].request # None, worker[own].request.command = None,
               NEW e \in Entries(client[own].disk)
        PROVE  k \notin Ids(e.pending)
    <3>1. request \in sent
      BY <2>1, <2>7 DEF c, own
    <3> QED BY <1>1, <2>1, <2>2, <2>7, <3>1 DEF InStep, Polls, c, k
  <2>8. ASSUME NEW d \in Device PROVE InStep(d, receipts', g, sent, client[d], worker[d])
    <3>1. \/ \A e \in Entries(client[d].disk) : k \notin Ids(e.pending)
          \/ \A e \in Entries(client[d].disk) : e.pending # <<>> /\ Head(e.pending).id = k
      BY <2>5, <2>6
    <3>2. worker[d].request # None /\ worker[d].request.command = None =>
            \A e \in Entries(client[d].disk) : k \notin Ids(e.pending)
      BY <2>6, <2>7
    <3>3. /\ InStep(d, receipts, h, sent, client[d], worker[d])
          /\ ClientOK(composed, d, client[d]) /\ WorkerOK(composed, d, worker[d])
      BY <2>2
    <3> QED BY <2>1, <2>2, <2>3, <3>1, <3>2, <3>3, InStepDecides
  <2>9. Rooted(g)
    <3>1. Len(h) \in Nat /\ DOMAIN h = 1..Len(h)
      BY <2>2, ChainLength
    <3>2. Len(g) \in Nat
      BY <2>2, ChainLength
    <3> QED BY <2>2, <2>3, <3>1, <3>2 DEF Begins, Rooted
  <2>10. Ledger!Next
    <3> DEFINE log == [i \in 1..(Len(h) - 2) |-> h[i + 2].by]
               more == [i \in 1..(Len(g) - 2) |-> g[i + 2].by]
               verdict == [x \in DOMAIN receipts \ {Founding.id} |->
                    [device |-> receipts[x].device, status |-> receipts[x].outcome.status]]
               after == [x \in DOMAIN receipts' \ {Founding.id} |->
                    [device |-> receipts'[x].device, status |-> receipts'[x].outcome.status]]
               holds == [e \in Device |-> Ids(Durable(e).pending)]
               sees == [e \in Device |-> Len(Durable(e).confirmed.history) - 2]
               status == receipts'[k].outcome.status
    <3>1. k \in holds[own]
      <4>1. Durable(own) \in Entries(client[own].disk) /\ IsEnvelope(Durable(own))
        BY <1>1, <2>2, LatestOK DEF Durable, EnvelopeOK
      <4>2. Durable(own).pending \in Seq(Command) /\ Durable(own).pending # <<>>
            /\ Head(Durable(own).pending).id = k
        BY <2>5, <4>1 DEF IsEnvelope
      <4>3. 1 \in DOMAIN Durable(own).pending
        BY <4>2, EmptySeq, LenProperties
      <4> QED BY <1>1, <4>2, <4>3 DEF Ids, Head
    <3>2. k \notin DOMAIN verdict
      BY <2>1
    <3>3. after = [x \in DOMAIN verdict \cup {k} |->
            IF x = k THEN [device |-> own, status |-> status] ELSE verdict[x]]
      <4>1. DOMAIN receipts' \ {Founding.id} = DOMAIN verdict \cup {k}
        BY <2>1, <2>4
      <4>2. \A x \in DOMAIN receipts : x # k
        BY <2>1
      <4> QED BY <2>1, <4>1, <4>2
    <3>4. more = IF status = "applied" THEN Append(log, k) ELSE log
      <4>1. CASE status = "applied"
        <5>1. IsChain(g) /\ Len(g) = Len(h) + 1 /\ g[Len(h) + 1].by = k /\ \A i \in DOMAIN h : g[i] = h[i]
          BY <2>1, <4>1
        <5>2. Len(h) >= 2
          BY <2>2 DEF Rooted
        <5> HIDE DEF status
        <5> QED BY <2>2, <4>1, <5>1, <5>2, LogLonger
      <4>2. CASE status # "applied"
        <5>1. g = h
          BY <2>1, <4>2 DEF g, h
        <5> HIDE DEF status
        <5> QED BY <4>2, <5>1
      <4> QED BY <4>1, <4>2
    <3>5. status \in {"applied", "rejected"}
      BY <2>1
    <3>6. PICK d \in Device, x \in CommandId, s \in {"applied", "rejected"} :
            d = own /\ x = k /\ s = status
      BY <1>1, <2>4, <3>5
    <3>7. Ledger!Decide(d, x, s)
      <4>1. UNCHANGED <<holds, sees>>
        BY DEF Durable
      <4> HIDE DEF status
      <4> QED BY <3>1, <3>2, <3>3, <3>4, <3>6, <4>1 DEF Ledger!Decide, g, h,
           Log, Verdict, Holds, Sees
    <3> QED BY <3>7 DEF Ledger!Next
  <2> QED BY <2>8, <2>9, <2>10 DEF g
<1> QED BY <1>2, <1>3

\* The answer of the server, or the news that there is none.
LEMMA LedgerHears ==
  ASSUME LedgerInv, SyncInv', NEW d \in Device, NEW result, Answered(d, result),
         UNCHANGED <<client, sent, restores>>, Rooted(state'.snapshot.history),
         \A x \in Device : InStep(x, receipts', state'.snapshot.history, sent, client[x], worker[x]),
         result.reason = None /\ worker[d].request # None =>
           /\ Begins(result.response.snapshot.history, state'.snapshot.history)
           /\ worker[d].request.command # None =>
                /\ worker[d].request.command.id \in DOMAIN receipts'
                /\ result.response.receipt.outcome
                     = receipts'[worker[d].request.command.id].outcome
  PROVE  LedgerInv'
<1> DEFINE w == worker[d]
           w2 == [w EXCEPT !.result = result]
           g == state'.snapshot.history
<1>1. worker' = [worker EXCEPT ![d] = w2]
  <2>1. worker' = [worker EXCEPT ![d].result = result] /\ worker = [x \in Device |-> worker[x]]
    BY DEF Answered, LedgerInv, SyncInv
  <2> QED BY <2>1
<1>2. Only(d, worker, worker', w2)
  BY <1>1, OnlyOne DEF LedgerInv, SyncInv
<1>3. w2.request = w.request /\ w2.result = result
  <2>1. DOMAIN w = {"request", "result", "halted", "discard"}
    BY DEF LedgerInv, SyncInv, WorkerOK
  <2> QED BY <2>1
<1> HIDE DEF w2
<1>4. Informed(receipts', g, w2)
  BY <1>3 DEF Informed, Answer
<1>5. InStep(d, receipts', g, sent, client[d], w)
  OBVIOUS
<1> HIDE DEF w, g
<1>6. InStep(d, receipts', g, sent, client[d], w2)
  BY <1>3, <1>4, <1>5, InStepHears
<1>7. ASSUME NEW x \in Device PROVE InStep(x, receipts', g, sent, client[x], worker'[x])
  <2>1. CASE x = d
    BY <1>2, <1>6, <2>1 DEF Only
  <2>2. CASE x # d
    BY <1>2, <2>2 DEF Only, g
  <2> QED BY <2>1, <2>2
<1> QED BY <1>7 DEF LedgerInv, g

LEMMA LedgerServed ==
  ASSUME LedgerInv, NEW d \in Device, NEW now \in 0..MaxTime, Serve(d, now) \/ ServeUnheard(d, now)
  PROVE  LedgerInv' /\ (UNCHANGED <<state, receipts, client>> \/ Ledger!Next)
<1> DEFINE q == worker[d].request
           g == state'.snapshot.history
<1>1. /\ q # None /\ Exchange(q, now) /\ SyncInv'
      /\ UNCHANGED <<client, composed, sent, restores>>
  BY ServeOK DEF Serve, ServeUnheard, Handled, Waiting, LedgerInv
<1>2. RequestOK(composed, q) /\ q.device = d /\ Sends(receipts, client[d], q)
  BY <1>1 DEF LedgerInv, SyncInv, WorkerOK, InStep
<1>3. /\ Rooted(g)
      /\ \A x \in Device : InStep(x, receipts', g, sent, client[x], worker[x])
      /\ UNCHANGED <<state, receipts>> \/ Ledger!Next
  BY <1>1, <1>2, LedgerServes
<1>4. CASE Serve(d, now)
  <2> DEFINE result == [reason |-> None, response |-> Response(q)]
  <2>1. Answered(d, result)
    BY <1>4 DEF Serve
  <2>2. IsChain(g)
    BY <1>1, SoundFacts DEF SyncInv, Stored, Good
  <2>3. /\ result.response.snapshot = state'.snapshot
        /\ q.command # None => result.response.receipt.outcome = receipts'[q.command.id].outcome
    BY DEF Response
  <2>4. q.command # None => q.command.id \in DOMAIN receipts'
    BY <1>1 DEF Exchange, Execute
  <2>5. Begins(result.response.snapshot.history, g)
    <3> HIDE DEF result
    <3> QED BY <2>2, <2>3, BeginsItself
  <2> HIDE DEF result, g
  <2>6. LedgerInv'
    BY <1>1, <1>3, <2>1, <2>3, <2>4, <2>5, LedgerHears DEF g
  <2> QED BY <1>1, <1>3, <2>6
<1>5. CASE ServeUnheard(d, now)
  <2>1. Answered(d, Lost) /\ Lost.reason # None
    BY <1>5, SyncConstants DEF ServeUnheard, Lost
  <2>2. LedgerInv'
    BY <1>1, <1>3, <2>1, LedgerHears
  <2> QED BY <1>1, <1>3, <2>2
<1> QED BY <1>1, <1>4, <1>5 DEF Serve, ServeUnheard

LEMMA LedgerUnserved ==
  ASSUME LedgerInv, NEW d \in Device, Refuse(d) \/ Lose(d)
  PROVE  LedgerInv' /\ UNCHANGED <<state, receipts, client>>
<1>1. PICK result : /\ Answered(d, result) /\ result.reason # None
                    /\ UNCHANGED <<serverVars, client, sent, restores>>
  <2>1. CASE Refuse(d)
    <3> DEFINE result == [reason |-> ExchangeError(worker[d].request), response |-> None]
    <3>1. Answered(d, result) /\ result.reason # None
      BY <2>1 DEF Refuse
    <3> HIDE DEF result
    <3> QED BY <2>1, <3>1 DEF Refuse
  <2>2. CASE Lose(d)
    BY <2>2, SyncConstants DEF Lose, Lost
  <2> QED BY <2>1, <2>2
<1>2. UNCHANGED <<state, receipts, client>> /\ SyncInv'
  BY <1>1, UnservedOK DEF LedgerInv, serverVars, server
<1>3. LedgerInv'
  <2>1. /\ Rooted(state'.snapshot.history)
        /\ \A x \in Device :
             InStep(x, receipts', state'.snapshot.history, sent, client[x], worker[x])
    BY <1>2 DEF LedgerInv
  <2> QED BY <1>1, <1>2, <2>1, LedgerHears
<1> QED BY <1>2, <1>3

LEMMA LedgerArrives ==
  ASSUME LedgerInv, NEW now \in 0..MaxTime, Arrive(now)
  PROVE  LedgerInv' /\ (UNCHANGED <<state, receipts, client>> \/ Ledger!Next)
<1>1. PICK q \in sent : Exchange(q, now) /\ UNCHANGED <<devices, sent, restores>>
  BY DEF Arrive
<1>2. /\ RequestOK(composed, q) /\ q.device \in Device
      /\ UNCHANGED <<client, worker, sent, restores>> /\ SyncInv'
  BY <1>1, ArriveOK DEF LedgerInv, SyncInv, RequestOK, devices
<1>3. Sends(receipts, client[q.device], q)
  BY <1>2 DEF LedgerInv, InStep
<1>4. /\ Rooted(state'.snapshot.history)
      /\ \A x \in Device :
           InStep(x, receipts', state'.snapshot.history, sent, client[x], worker[x])
      /\ UNCHANGED <<state, receipts>> \/ Ledger!Next
  BY <1>1, <1>2, <1>3, LedgerServes
<1>5. LedgerInv'
  BY <1>2, <1>4 DEF LedgerInv
<1> QED BY <1>2, <1>4, <1>5

\* Without a restore the operator does nothing the ledger speaks of.
LEMMA LedgerOperated ==
  ASSUME LedgerInv, MaxRestores = 0 \/ restores' = 0, Operate
  PROVE  LedgerInv' /\ UNCHANGED <<state, receipts, client>>
<1>1. restores = 0
  BY DEF LedgerInv
<1>2. UNCHANGED <<state, receipts, restores, client, worker, sent, composed>>
  BY <1>1 DEF Operate, Revoke, Backup, devices, server
<1>3. SyncInv'
  BY OperateOK DEF LedgerInv
<1>4. LedgerInv'
  BY <1>2, <1>3 DEF LedgerInv
<1> QED BY <1>2, <1>4

LEMMA LedgerStutters ==
  ASSUME UNCHANGED <<state, receipts, client>>
  PROVE  UNCHANGED Ledger!vars
BY DEF Ledger!vars, Durable, Log, Verdict, Holds, Sees

LEMMA LedgerSteps ==
  ASSUME MaxRestores = 0 \/ restores' = 0, LedgerInv, [Next]_vars
  PROVE  LedgerInv' /\ (Ledger!Next \/ UNCHANGED Ledger!vars)
<1>0. SyncInv
  BY DEF LedgerInv
<1>1. ASSUME NEW d \in Device, Edit(d) \/ Focus(d) PROVE LedgerInv' /\ Ledger!Next
  BY <1>0, <1>1, EditAsks, FocusAsks, LedgerAsks
<1>2. ASSUME NEW d \in Device, Dismiss(d) \/ Retry(d) \/ Crash(d) \/ Reopen(d)
      PROVE  LedgerInv' /\ Ledger!Next
  <2>1. \E c2, w2, x, gone : Turns(d, c2, w2, x, gone)
    BY <1>0, <1>2, DismissTurns, RetryTurns, CrashTurns, ReopenTurns
  <2> QED BY <2>1, LedgerTurns
<1>3. ASSUME NEW d \in Device, Tick(d) PROVE LedgerInv' /\ Ledger!Next
  BY <1>3, LedgerTicks
<1>4. ASSUME NEW d \in Device, Refuse(d) \/ Lose(d) PROVE LedgerInv' /\ UNCHANGED Ledger!vars
  BY <1>4, LedgerUnserved, LedgerStutters
<1>5. ASSUME NEW d \in Device, NEW now \in 0..MaxTime, Serve(d, now) \/ ServeUnheard(d, now)
      PROVE  LedgerInv' /\ (Ledger!Next \/ UNCHANGED Ledger!vars)
  BY <1>5, LedgerServed, LedgerStutters
<1>6. ASSUME NEW now \in 0..MaxTime, Arrive(now)
      PROVE  LedgerInv' /\ (Ledger!Next \/ UNCHANGED Ledger!vars)
  BY <1>6, LedgerArrives, LedgerStutters
<1>7. CASE Operate
  BY <1>7, LedgerOperated, LedgerStutters
<1>8. CASE UNCHANGED vars
  <2>1. UNCHANGED <<state, receipts, restores, client, worker, sent>>
    BY <1>8 DEF vars, serverVars, server, devices
  <2>2. SyncInv'
    BY <1>0, NextOK
  <2>3. LedgerInv'
    BY <2>1, <2>2 DEF LedgerInv
  <2> QED BY <2>1, <2>3, LedgerStutters
<1> QED BY <1>1, <1>2, <1>3, <1>4, <1>5, <1>6, <1>7, <1>8 DEF Next

LEMMA LedgerStarts ==
  ASSUME Init
  PROVE  LedgerInv /\ Ledger!Init
<1> DEFINE h == state.snapshot.history
           root == Link(FreshIn(Generation, {}), Empty.snapshot)
           l == Link(Founding.id, state.snapshot)
<1>1. SyncInv /\ restores = 0
  BY InitOK DEF Init
<1>2. /\ root.by \notin CommandId /\ Founding \in Command
      /\ Sound(Empty) /\ Empty.snapshot.history = <<root>>
  BY Foundation DEF Link
<1>3. /\ Sound(state) /\ h = Append(<<root>>, l)
  <2>1. state = Apply(Empty, Founding, 0)
    BY DEF Init
  <2> QED BY <1>2, <2>1, ApplySound, FoundingTaken
<1>4. l.by = Founding.id
  BY DEF Link
<1>5. IsSnapshot(state.snapshot) /\ SnapshotValid(state.snapshot) /\ IsChain(h)
  BY <1>3 DEF Sound, StateValid, IsState, IsSnapshot
<1> HIDE DEF root, l
<1>6. Len(h) = 2 /\ h[1] = root /\ h[2] = l
  BY <1>3
<1> HIDE DEF h
<1>7. Rooted(h)
  BY <1>2, <1>4, <1>6 DEF Rooted
<1>8. ASSUME NEW d \in Device
      PROVE  /\ InStep(d, receipts, h, sent, client[d], worker[d])
             /\ Durable(d).pending = <<>> /\ Durable(d).confirmed = state.snapshot
  <2> DEFINE e == NewEnvelope(d, state.snapshot, 0)
  <2>1. e.pending = <<>> /\ e.confirmed = state.snapshot
    BY <1>5, NewEnvelopeOK
  <2>2. client[d].disk = <<e>> /\ worker[d] = NewWorker /\ sent = {}
    BY DEF Init
  <2> HIDE DEF e
  <2>3. Entries(client[d].disk) = {e} /\ client[d].disk[1] = e
    BY <2>2, OneLog
  <2>4. Begins(e.confirmed.history, h)
    BY <1>5, <2>1, BeginsItself DEF h
  <2>5. Ids(e.pending) = {} /\ DOMAIN e.pending = {}
    BY <2>1 DEF Ids
  <2>6. Known(receipts, h, e) /\ Succeeds(receipts, e, e)
    BY <1>5, <1>6, <2>1, <2>4, <2>5 DEF Known, Succeeds, h
  <2>7. JournalOK(receipts, h, client[d])
    BY <2>3, <2>6 DEF JournalOK
  <2>8. InStep(d, receipts, h, sent, client[d], worker[d])
    BY <2>2, <2>7 DEF InStep, Polls, Informed, Answer, NewWorker
  <2> QED BY <2>1, <2>3, <2>8 DEF Durable
<1>9. LedgerInv
  BY <1>1, <1>7, <1>8 DEF LedgerInv, h
<1>10. Ledger!Init
  <2>1. [i \in 1..(Len(h) - 2) |-> h[i + 2].by] = <<>>
    <3>1. 1..(Len(h) - 2) = {}
      BY <1>6
    <3>2. \A S : S = {} => [i \in S |-> h[i + 2].by] = <<>>
      OBVIOUS
    <3> QED BY <3>1, <3>2
  <2>2. [c \in DOMAIN receipts \ {Founding.id} |->
           [device |-> receipts[c].device, status |-> receipts[c].outcome.status]] = <<>>
    <3>1. DOMAIN receipts \ {Founding.id} = {}
      BY DEF Init
    <3> QED BY <3>1
  <2>3. [d \in Device |-> Ids(Durable(d).pending)] = [d \in Device |-> {}]
    BY <1>8 DEF Ids
  <2>4. [d \in Device |-> Len(Durable(d).confirmed.history) - 2] = [d \in Device |-> 0]
    BY <1>6, <1>8 DEF h
  <2> QED BY <2>1, <2>2, <2>3, <2>4 DEF Ledger!Init, h, Log, Verdict, Holds, Sees
<1> QED BY <1>9, <1>10

\* While no backup comes back, devices that crash and lose saves, a network that loses,
\* delays and repeats, and a server that remembers what it decided do together nothing but
\* what the ledger of commands does: they take commands up, decide each once and in one
\* order, and let go of what is decided and, if applied, in sight.
THEOREM SpecKeepsLedger ==
  ASSUME MaxRestores = 0
  PROVE  Spec => KeepsLedger
<1>1. Init => LedgerInv /\ Ledger!Init
  BY LedgerStarts
<1>2. LedgerInv /\ [Next]_vars => LedgerInv' /\ [Ledger!Next]_(Ledger!vars)
  BY LedgerSteps
<1> QED BY <1>1, <1>2, PTL DEF Spec, KeepsLedger, Ledger!Spec

(***************************************************************************)
(* What the ledger promises                                                *)
(***************************************************************************)
\* The types of the ledger and its two promises, which its steps keep.
Promised == Ledger!TypeOK /\ Ledger!EffectsOnce /\ Ledger!ReadsOwnWrites

\* What a device sees is in the log.
LEMMA LedgerFirst ==
  ASSUME Ledger!TypeOK, NEW n \in 0..Len(Log), NEW c \in Ledger!First(n)
  PROVE  \E i \in DOMAIN Log : Log[i] = c
<1>1. Log \in Seq(CommandId) /\ Len(Log) \in Nat /\ DOMAIN Log = 1..Len(Log)
  BY DEF Ledger!TypeOK
<1>2. PICK i \in 1..n : c = Log[i]
  BY DEF Ledger!First
<1> QED BY <1>1, <1>2

LEMMA PromisedAtFirst == Ledger!Init => Promised
<1> SUFFICES ASSUME Ledger!Init PROVE Promised
  OBVIOUS
<1>1. Ledger!TypeOK
  BY DEF Ledger!Init, Ledger!TypeOK
<1>2. Ledger!EffectsOnce /\ Ledger!ReadsOwnWrites
  BY DEF Ledger!Init, Ledger!EffectsOnce, Ledger!ReadsOwnWrites
<1> QED BY <1>1, <1>2 DEF Promised

LEMMA DecideKeeps ==
  ASSUME Promised, NEW d \in Device, NEW c \in CommandId, NEW status \in {"applied", "rejected"},
         Ledger!Decide(d, c, status)
  PROVE  Promised'
<1> USE DEF Promised
<1>1. /\ c \in Holds[d] /\ c \notin DOMAIN Verdict
      /\ DOMAIN Verdict' = DOMAIN Verdict \cup {c}
      /\ Verdict'[c] = [device |-> d, status |-> status]
      /\ \A x \in DOMAIN Verdict : Verdict'[x] = Verdict[x]
      /\ Holds' = Holds /\ Sees' = Sees
  BY DEF Ledger!Decide
<1>2. CASE status = "applied"
  <2>1. Log' = Append(Log, c) /\ Log \in Seq(CommandId) /\ Len(Log) \in Nat
    BY <1>2 DEF Ledger!Decide, Ledger!TypeOK
  <2>2. /\ Log' \in Seq(CommandId) /\ Len(Log') = Len(Log) + 1
        /\ DOMAIN Log = 1..Len(Log) /\ DOMAIN Log' = 1..(Len(Log) + 1)
        /\ Log'[Len(Log) + 1] = c
        /\ \A i \in 1..Len(Log) : Log'[i] = Log[i]
    BY <2>1
  <2>3. Ledger!TypeOK'
    <3>1. Verdict' \in [DOMAIN Verdict' -> [device : Device, status : {"applied", "rejected"}]]
      BY <1>1 DEF Ledger!TypeOK, Ledger!Decide
    <3>2. Sees' \in [Device -> 0..Len(Log')]
      BY <1>1, <2>1, <2>2 DEF Ledger!TypeOK
    <3> QED BY <3>1, <3>2, <1>1, <2>2 DEF Ledger!TypeOK
  <2>4. \A i \in DOMAIN Log : Log[i] # c
    BY <1>1 DEF Ledger!EffectsOnce
  <2>5. Ledger!EffectsOnce'
    <3>1. \A i, j \in DOMAIN Log' : Log'[i] = Log'[j] => i = j
      BY <2>1, <2>2, <2>4 DEF Ledger!EffectsOnce
    <3>2. \A i \in DOMAIN Log' : Log'[i] \in DOMAIN Verdict' /\ Verdict'[Log'[i]].status = "applied"
      BY <1>1, <1>2, <2>1, <2>2 DEF Ledger!EffectsOnce
    <3> QED BY <3>1, <3>2 DEF Ledger!EffectsOnce
  <2>6. \A e \in Device : Ledger!First(Sees[e])' = Ledger!First(Sees[e])
    <3> TAKE e \in Device
    <3>1. Sees[e] \in 0..Len(Log)
      BY DEF Ledger!TypeOK
    <3>2. \A i \in 1..Sees[e] : Log'[i] = Log[i]
      BY <2>1, <2>2, <3>1
    <3> QED BY <3>2, <1>1 DEF Ledger!First
  <2>7. Ledger!ReadsOwnWrites'
    <3> SUFFICES ASSUME NEW x \in DOMAIN Verdict', Verdict'[x].status = "applied",
                        NEW e, e = Verdict'[x].device
                 PROVE  (x \in Holds'[e]) # (x \in Ledger!First(Sees[e])')
      BY DEF Ledger!ReadsOwnWrites, Ledger!First
    <3>1. CASE x = c
      <4>1. e = d /\ x \in Holds'[d]
        BY <1>1, <3>1
      <4>2. c \notin Ledger!First(Sees[d])
        <5>1. Sees[d] \in 0..Len(Log)
          BY DEF Ledger!TypeOK
        <5> QED BY <5>1, <2>4, LedgerFirst
      <4> QED BY <4>1, <4>2, <2>6, <3>1
    <3>2. CASE x # c
      <4>1. x \in DOMAIN Verdict /\ Verdict'[x] = Verdict[x]
        BY <1>1, <3>2
      <4>2. e \in Device
        BY <4>1 DEF Ledger!TypeOK
      <4> QED BY <4>1, <4>2, <1>1, <2>6 DEF Ledger!ReadsOwnWrites
    <3> QED BY <3>1, <3>2
  <2> QED BY <2>3, <2>5, <2>7
<1>3. CASE status = "rejected"
  <2>1. Log' = Log
    BY <1>3 DEF Ledger!Decide
  <2>2. Ledger!TypeOK'
    <3>1. Verdict' \in [DOMAIN Verdict' -> [device : Device, status : {"applied", "rejected"}]]
      BY <1>1 DEF Ledger!TypeOK, Ledger!Decide
    <3> QED BY <3>1, <1>1, <2>1 DEF Ledger!TypeOK
  <2>3. Ledger!EffectsOnce'
    BY <1>1, <2>1 DEF Ledger!EffectsOnce
  <2>4. Ledger!ReadsOwnWrites'
    <3> SUFFICES ASSUME NEW x \in DOMAIN Verdict', Verdict'[x].status = "applied",
                        NEW e, e = Verdict'[x].device
                 PROVE  (x \in Holds'[e]) # (x \in Ledger!First(Sees[e])')
      BY DEF Ledger!ReadsOwnWrites, Ledger!First
    <3>1. x \in DOMAIN Verdict /\ Verdict'[x] = Verdict[x]
      BY <1>1, <1>3
    <3>2. Ledger!First(Sees[e])' = Ledger!First(Sees[e])
      BY <1>1, <2>1 DEF Ledger!First
    <3> QED BY <1>1, <3>1, <3>2 DEF Ledger!ReadsOwnWrites
  <2> QED BY <2>2, <2>3, <2>4
<1> QED BY <1>2, <1>3

LEMMA AdvanceKeeps ==
  ASSUME Promised, NEW d \in Device, Ledger!Advance(d)
  PROVE  Promised'
<1> USE DEF Promised
<1>1. PICK new \in SUBSET (CommandId \ (DOMAIN Verdict \cup Ledger!Held)),
           settled \in SUBSET Holds[d], n \in Sees[d]..Len(Log) :
        /\ settled \subseteq DOMAIN Verdict
        /\ \A c \in Holds[d] : c \in Ledger!First(n) => c \in settled
        /\ \A c \in settled : Verdict[c].status = "applied" => c \in Ledger!First(n)
        /\ Holds' = [Holds EXCEPT ![d] = (@ \ settled) \cup new]
        /\ Sees' = [Sees EXCEPT ![d] = n]
        /\ UNCHANGED <<Log, Verdict>>
  BY Zenon DEF Ledger!Advance
<1>2. Log \in Seq(CommandId) /\ Len(Log) \in Nat /\ Sees[d] \in 0..Len(Log) /\ n \in 0..Len(Log)
  BY DEF Ledger!TypeOK
<1>3. Ledger!TypeOK'
  BY <1>1, <1>2 DEF Ledger!TypeOK
<1>4. Ledger!EffectsOnce'
  BY <1>1 DEF Ledger!EffectsOnce
<1>5. Ledger!First(Sees[d]) \subseteq Ledger!First(n)
  BY <1>2 DEF Ledger!First
<1>6. \A e \in Device :
        Ledger!First(Sees[e])' = IF e = d THEN Ledger!First(n) ELSE Ledger!First(Sees[e])
  BY <1>1 DEF Ledger!First, Ledger!TypeOK
<1>7. Ledger!ReadsOwnWrites'
  <2> SUFFICES ASSUME NEW x \in DOMAIN Verdict, Verdict[x].status = "applied",
                      NEW e, e = Verdict[x].device
               PROVE  (x \in Holds'[e]) # (x \in Ledger!First(Sees[e])')
    BY <1>1 DEF Ledger!ReadsOwnWrites, Ledger!First
  <2>1. e \in Device
    BY DEF Ledger!TypeOK
  <2>2. CASE e = d
    <3>1. (x \in Holds[d]) # (x \in Ledger!First(Sees[d]))
      BY <2>2 DEF Ledger!ReadsOwnWrites
    <3>2. x \in Holds'[d] <=> x \in Holds[d] /\ x \notin settled
      BY <1>1 DEF Ledger!TypeOK
    <3>3. Ledger!First(Sees[d])' = Ledger!First(n)
      BY <1>6
    <3>4. CASE x \in Ledger!First(n)
      BY <1>1, <2>2, <3>2, <3>3, <3>4
    <3>5. CASE x \notin Ledger!First(n)
      BY <1>1, <1>5, <2>2, <3>1, <3>2, <3>3, <3>5
    <3> QED BY <3>4, <3>5
  <2>3. CASE e # d
    <3>1. Holds'[e] = Holds[e]
      BY <1>1, <2>1, <2>3 DEF Ledger!TypeOK
    <3>2. Ledger!First(Sees[e])' = Ledger!First(Sees[e])
      BY <1>6, <2>1, <2>3
    <3> QED BY <3>1, <3>2 DEF Ledger!ReadsOwnWrites
  <2> QED BY <2>2, <2>3
<1> QED BY <1>3, <1>4, <1>7

LEMMA PromisedKept == Promised /\ [Ledger!Next]_(Ledger!vars) => Promised'
<1> SUFFICES ASSUME Promised, [Ledger!Next]_(Ledger!vars) PROVE Promised'
  OBVIOUS
<1>1. CASE Ledger!Next
  <2>1. PICK d \in Device :
          \/ Ledger!Advance(d)
          \/ \E c \in CommandId, status \in {"applied", "rejected"} : Ledger!Decide(d, c, status)
    BY <1>1 DEF Ledger!Next
  <2> QED BY <2>1, DecideKeeps, AdvanceKeeps
<1>2. CASE UNCHANGED Ledger!vars
  BY <1>2 DEF Ledger!vars, Promised, Ledger!TypeOK, Ledger!EffectsOnce,
                 Ledger!ReadsOwnWrites, Ledger!First
<1> QED BY <1>1, <1>2

\* A restore is never undone.
LEMMA RestoresGrow ==
  ASSUME restores \in Nat, [Next]_vars
  PROVE  restores' \in Nat /\ (restores' = 0 => restores = 0)
<1>1. ASSUME NEW d \in Device, NEW now,
             \/ Edit(d) \/ Focus(d) \/ Dismiss(d) \/ Retry(d) \/ Tick(d) \/ Refuse(d) \/ Lose(d)
             \/ Crash(d) \/ Reopen(d) \/ Serve(d, now) \/ ServeUnheard(d, now) \/ Arrive(now)
      PROVE  restores' = restores
  BY <1>1 DEF Edit, Focus, Enqueue, Dismiss, Retry, Tick, TickWith, Refuse, Lose, Crash, Reopen,
              Serve, ServeUnheard, Arrive
<1>2. ASSUME NEW now, Arrive(now) PROVE restores' = restores
  BY <1>2 DEF Arrive
<1>3. CASE Operate
  BY <1>3 DEF Operate
<1>4. CASE UNCHANGED vars
  BY <1>4 DEF vars
<1> QED BY <1>1, <1>2, <1>3, <1>4 DEF Next

LEMMA SpecPromised == Spec => [](restores = 0 => Promised)
<1> DEFINE Inv == restores \in Nat /\ (restores = 0 => LedgerInv /\ Promised)
<1>1. Init => Inv
  <2>1. Init => restores = 0
    BY DEF Init
  <2> QED BY <2>1, LedgerStarts, PromisedAtFirst
<1>2. Inv /\ [Next]_vars => Inv'
  <2> SUFFICES ASSUME Inv, [Next]_vars PROVE Inv'
    OBVIOUS
  <2>1. restores' \in Nat /\ (restores' = 0 => restores = 0)
    BY RestoresGrow
  <2>2. restores' = 0 => LedgerInv' /\ Promised'
    BY <2>1, LedgerSteps, PromisedKept
  <2> QED BY <2>1, <2>2
<1>3. Inv => (restores = 0 => Promised)
  OBVIOUS
<1> HIDE DEF Inv
<1> QED BY <1>1, <1>2, <1>3, PTL DEF Spec

\* While no backup came back, whatever is lost, repeated or delayed and whenever a device
\* dies: a command the server applied is still pending in the durable journal of the device it
\* came from, or part of the queue that journal has confirmed, and never both.
THEOREM SpecReadsOwnWrites == Spec => [](restores = 0 => Ledger!ReadsOwnWrites)
<1>1. (restores = 0 => Promised) => (restores = 0 => Ledger!ReadsOwnWrites)
  BY DEF Promised
<1> QED BY SpecPromised, <1>1, PTL

\* And no command has two effects in the server's history, nor one without a receipt.
THEOREM SpecEffectsOnce == Spec => [](restores = 0 => Ledger!EffectsOnce)
<1>1. (restores = 0 => Promised) => (restores = 0 => Ledger!EffectsOnce)
  BY DEF Promised
<1> QED BY SpecPromised, <1>1, PTL
=============================================================================
