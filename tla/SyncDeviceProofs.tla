-------------------------- MODULE SyncDeviceProofs --------------------------
(***************************************************************************)
(* What a device's user sees while no backup came back: sync does not stop *)
(* without a cause (the envelopes stay valid, what is asked is about the   *)
(* one in use, what is answered can be taken), and the queue shown is the  *)
(* one the server will make of the pending edits.                          *)
(***************************************************************************)
EXTENDS SyncProofs

(***************************************************************************)
(* Devices that nothing hinders                                            *)
(***************************************************************************)
\* A snapshot whose revision counts its links, the last of which is its own.
Tipped(s) ==
  LET h == s.history
  IN /\ Len(h) >= 2 /\ s.revision = Len(h) - 1
     /\ h[Len(h)] = Link(h[Len(h)].by, s)

\* A chain never restored: a link and a row for every revision.
Numbered(s, rows) ==
  /\ Tipped(s) /\ \A i \in DOMAIN s.history : s.history[i].result.revision = i - 1
  /\ DOMAIN rows = 0..s.revision

\* Every receipt is of what its device asked.
Remembered(made, rc) ==
  \A c \in DOMAIN rc \ {Founding.id} :
    rc[c].command.id = c /\ Meant(made, rc[c].device, rc[c].command)

\* An envelope that validates, not suspended, no younger than the server's clock.
Fit(e, time) ==
  /\ EnvelopeValid(e) /\ e.nextHandle \in Nat \ {0} /\ e.suspension = None
  /\ Tipped(e.confirmed) /\ e.time <= time

\* A request of device d made of envelope e.
About(d, e, q) ==
  /\ q.token = TokenOf(d) /\ q.checkpoint = Checkpoint(e.confirmed)
  /\ q.command # None => e.pending # <<>> /\ Head(e.pending) = q.command

\* An answer to q that envelope e can take.
Fitting(d, e, q, p, time) ==
  /\ p.device = d /\ SnapshotValid(p.snapshot) /\ Tipped(p.snapshot)
  /\ Dated(p.snapshot.focus.session, p.time) /\ e.time <= p.time /\ p.time <= time
  /\ IF q.command = None THEN p.receipt = None
     ELSE /\ p.receipt # None /\ p.receipt.command = q.command.id
          /\ p.receipt.outcome.status = "applied" =>
               p.receipt.outcome.revision \in (e.confirmed.revision + 1)..p.snapshot.revision

Unhindered(d, c, w, time) ==
  /\ \A e \in Entries(c.disk) : Fit(e, time)
  /\ ~w.halted /\ (w.result # None => w.result.reason \in {None, "Network"})
  /\ w.request # None => About(d, Envelope(c), w.request)
  /\ Answer(w) => Fitting(d, Envelope(c), w.request, w.result.response, time)

\* The server as a device that nothing hinders needs it.
Serving ==
  /\ Numbered(state.snapshot, history) /\ Timed(state, receipts, roots, lastTime)
  /\ Remembered(composed, receipts)

Smooth ==
  /\ Serving
  /\ \A d \in Device : /\ d \in DOMAIN enrolled /\ enrolled[d].token = TokenOf(d)
                       /\ ~enrolled[d].revoked => Unhindered(d, client[d], worker[d], lastTime)

(***************************************************************************)
(* Snapshots that are the end of their chain                               *)
(***************************************************************************)
\* Two snapshots that are the same queue in the same place are the same.
LEMMA TippedSame ==
  ASSUME NEW s, IsSnapshot(s), Tipped(s), NEW q, IsSnapshot(q), Tipped(q),
         Begins(s.history, q.history), s.revision = q.revision
  PROVE  s = q
<1>1. IsChain(s.history) /\ IsChain(q.history) /\ IsBody(s) /\ IsBody(q)
  BY DEF IsSnapshot
<1>2. Len(s.history) \in Nat /\ Len(q.history) \in Nat
  BY <1>1, ChainLength
<1>3. s.history = q.history
  <2>1. Len(s.history) = Len(q.history)
    BY <1>2 DEF Tipped
  <2> QED BY <1>1, <2>1, BeginsWith
<1> DEFINE F == {"generation", "revision", "history", "initialized", "order", "task", "focus", "undo"}
<1>4. DOMAIN s = F /\ DOMAIN q = F
  BY <1>1 DEF IsBody
<1>5. [s EXCEPT !.history = <<>>] = [q EXCEPT !.history = <<>>]
  <2> DEFINE l == s.history[Len(s.history)]
  <2>1. l = Link(l.by, s) /\ l = Link(l.by, q)
    BY <1>3 DEF Tipped
  <2> HIDE DEF l
  <2> QED BY <2>1 DEF Link
<1>6. \A f \in F \ {"history"} : [s EXCEPT !.history = <<>>][f] = s[f]
                              /\ [q EXCEPT !.history = <<>>][f] = q[f]
  BY <1>4
<1>7. \A f \in F : s[f] = q[f]
  BY <1>3, <1>5, <1>6
<1>8. s = [f \in F |-> s[f]] /\ q = [f \in F |-> q[f]]
  BY <1>1, <1>4 DEF IsBody
<1> QED BY <1>7, <1>8

\* Where the server's chain has been: every row it needs is there.
LEMMA TippedRow ==
  ASSUME NEW st, NEW rows, Ancestry(st, rows), IsSnapshot(st.snapshot), Numbered(st.snapshot, rows),
         NEW s, IsSnapshot(s), Tipped(s), Begins(s.history, st.snapshot.history)
  PROVE  /\ s.generation = st.snapshot.generation /\ s.revision <= st.snapshot.revision
         /\ s.revision \in DOMAIN rows /\ rows[s.revision] = s.history
<1> DEFINE c == st.snapshot.history
           r == s.revision
<1>1. /\ IsChain(c) /\ IsChain(s.history) /\ Len(c) \in Nat /\ Len(s.history) \in Nat
      /\ DOMAIN c = 1..Len(c)
  BY ChainLength DEF IsSnapshot
<1>2. r \in Nat /\ Len(s.history) = r + 1 /\ st.snapshot.revision = Len(c) - 1 /\ r + 1 <= Len(c)
  BY <1>1 DEF Tipped, Numbered, Begins
<1>3. r <= st.snapshot.revision /\ r \in DOMAIN rows
  BY <1>1, <1>2 DEF Numbered
<1> DEFINE n == Len(rows[r])
<1>4. /\ n \in 1..Len(c) /\ rows[r] = SubSeq(c, 1, n) /\ c[n].result.revision = r
      /\ c[n].result.generation = st.snapshot.generation
  BY <1>3 DEF Ancestry
<1>5. n = r + 1
  <2>1. c[n].result.revision = n - 1
    BY <1>1, <1>4 DEF Numbered
  <2> HIDE DEF n
  <2> QED BY <1>2, <1>4, <2>1
<1>6. s.history = SubSeq(c, 1, r + 1)
  BY <1>1, <1>2, BeginsWith
<1>7. c[r + 1] = s.history[r + 1] /\ s.history[r + 1] = Link(s.history[r + 1].by, s)
  BY <1>2 DEF Begins, Tipped
<1>8. Link(s.history[r + 1].by, s).result.generation = s.generation
  BY DEF Link, IsSnapshot, IsBody
<1> HIDE DEF r, n, c
<1>9. s.generation = st.snapshot.generation
  BY <1>4, <1>5, <1>7, <1>8
<1> QED BY <1>3, <1>4, <1>5, <1>6, <1>9 DEF r, n, c

\* A revision more is a link and a row more.
LEMMA NumberedLonger ==
  ASSUME NEW s, IsChain(s.history), NEW rows, Numbered(s, rows), s.revision \in Nat,
         NEW q, IsBody(q), NEW by \in Token, q.history = Append(s.history, Link(by, q)),
         q.revision = s.revision + 1,
         NEW more, DOMAIN more = DOMAIN rows \cup {q.revision}
  PROVE  Numbered(q, more)
<1> DEFINE h == s.history
           l == Link(by, q)
<1>1. /\ Len(h) \in Nat /\ Len(q.history) = Len(h) + 1 /\ DOMAIN h = 1..Len(h)
      /\ DOMAIN q.history = 1..(Len(h) + 1)
      /\ \A i \in DOMAIN h : q.history[i] = h[i]
      /\ q.history[Len(h) + 1] = l
  BY Linked
<1>2. l = Link(l.by, q) /\ l.result.revision = q.revision
  BY DEF Link, IsBody
<1> HIDE DEF l
<1>3. Tipped(q)
  BY <1>1, <1>2 DEF Tipped, Numbered
<1>4. \A i \in DOMAIN q.history : q.history[i].result.revision = i - 1
  <2> SUFFICES ASSUME NEW i \in 1..(Len(h) + 1) PROVE q.history[i].result.revision = i - 1
    BY <1>1
  <2>1. CASE i \in DOMAIN h
    BY <1>1, <2>1 DEF Numbered
  <2>2. CASE i = Len(h) + 1
    BY <1>1, <1>2, <2>2 DEF Numbered, Tipped
  <2> QED BY <1>1, <2>1, <2>2
<1>5. DOMAIN more = 0..q.revision
  BY DEF Numbered
<1> QED BY <1>3, <1>4, <1>5 DEF Numbered

(***************************************************************************)
(* What validation counts                                                  *)
(***************************************************************************)
\* No identity twice.
Distinct(commands) ==
  \A i, j \in DOMAIN commands : commands[i].id = commands[j].id => i = j

LEMMA DistinctCounted ==
  ASSUME NEW S, NEW commands \in Seq(S)
  PROVE  Cardinality(Ids(commands)) = Len(commands) <=> Distinct(commands)
<1> DEFINE n == Len(commands)
           f == [i \in 1..n |-> commands[i].id]
<1>1. n \in Nat /\ DOMAIN commands = 1..n
  BY LenProperties
<1>2. f \in Surjection(1..n, Ids(commands))
  BY <1>1 DEF Surjection, Ids
<1>3. IsFiniteSet(1..n) /\ Cardinality(1..n) = n
  BY <1>1, FS_Interval
<1>4. Cardinality(Ids(commands)) = Cardinality(1..n) <=> f \in Injection(1..n, Ids(commands))
  BY <1>2, <1>3, FS_Surjection
<1>5. f \in Injection(1..n, Ids(commands)) <=> Distinct(commands)
  BY <1>1, <1>2 DEF Injection, Surjection, IsInjective, Distinct
<1> QED BY <1>3, <1>4, <1>5

OneFocus(commands) ==
  \A i, j \in DOMAIN commands : IsFocus(commands[i]) /\ IsFocus(commands[j]) => i = j

LEMMA OneFocusCounted ==
  ASSUME NEW S, NEW commands \in Seq(S)
  PROVE  Cardinality({i \in DOMAIN commands : IsFocus(commands[i])}) <= 1 <=> OneFocus(commands)
<1> DEFINE n == Len(commands)
           K == {i \in DOMAIN commands : IsFocus(commands[i])}
<1>1. n \in Nat /\ DOMAIN commands = 1..n
  BY LenProperties
<1>2. IsFiniteSet(K) /\ Cardinality(K) \in Nat
  <2>1. IsFiniteSet(1..n) /\ K \in SUBSET (1..n)
    BY <1>1, FS_Interval
  <2> HIDE DEF K
  <2> QED BY <2>1, FS_Subset, FS_CardinalityType
<1>3. OneFocus(commands) <=> \A i, j \in K : i = j
  BY DEF OneFocus
<1> HIDE DEF K
<1>4. ASSUME \A i, j \in K : i = j PROVE Cardinality(K) <= 1
  <2>1. CASE K = {}
    <3>1. Cardinality(K) = 0
      BY <2>1, FS_EmptySet
    <3> QED BY <3>1
  <2>2. CASE K # {}
    <3>1. PICK x \in K : TRUE
      BY <2>2
    <3>2. K = {x}
      BY <1>4, <3>1
    <3>3. Cardinality(K) = 1
      BY <3>2, FS_Singleton
    <3> QED BY <3>3
  <2> QED BY <2>1, <2>2
<1>5. ASSUME Cardinality(K) <= 1, NEW i \in K, NEW j \in K PROVE i = j
  <2>1. Cardinality(K) # 0
    BY <1>2, FS_EmptySet
  <2>2. Cardinality(K) = 1
    BY <1>2, <1>5, <2>1
  <2>3. PICK x : K = {x}
    BY <1>2, <2>2, FS_Singleton
  <2> QED BY <2>3
<1>6. Cardinality(K) <= 1 <=> \A i, j \in K : i = j
  BY <1>4, <1>5
<1> QED BY <1>3, <1>6 DEF K

(***************************************************************************)
(* Handles                                                                 *)
(***************************************************************************)
\* Every intent, with its place.
LEMMA IntentsAre ==
  ASSUME NEW e, IsEnvelope(e)
  PROVE  LET n == Len(e.pending)
             m == Len(e.recovery)
         IN /\ n \in Nat /\ m \in Nat /\ DOMAIN e.pending = 1..n /\ DOMAIN e.recovery = 1..m
            /\ Intents(e) \in Seq(Command) /\ DOMAIN Intents(e) = 1..(n + m)
            /\ \A i \in 1..(n + m) :
                 Intents(e)[i] = IF i <= n THEN e.pending[i] ELSE e.recovery[i - n].command
<1> DEFINE kept == [i \in DOMAIN e.recovery |-> e.recovery[i].command]
           n == Len(e.pending)
           m == Len(e.recovery)
           all == e.pending \o kept
<1>1. DOMAIN e.recovery = 1..m /\ m \in Nat
  BY LenProperties DEF IsEnvelope
<1>2. kept \in [1..m -> Command]
  BY <1>1 DEF IsEnvelope
<1>3. kept \in Seq(Command) /\ Len(kept) = m
  BY <1>1, <1>2
<1>4. \A i \in 1..m : kept[i] = e.recovery[i].command
  BY <1>1
<1>5. n \in Nat /\ DOMAIN e.pending = 1..n /\ e.pending \in Seq(Command)
  BY LenProperties DEF IsEnvelope
<1> HIDE DEF kept, n, m
<1>6. /\ all \in Seq(Command) /\ Len(all) = n + m
      /\ \A i \in 1..(n + m) : all[i] = IF i <= n THEN e.pending[i] ELSE kept[i - n]
  <2>1. n = Len(e.pending)
    BY DEF n
  <2> QED BY <1>3, <1>5, <2>1, ConcatProperties
<1>7. DOMAIN all = 1..(n + m)
  BY <1>6, LenProperties
<1>8. Intents(e) = all
  BY DEF Intents, all, kept
<1> HIDE DEF all
<1>9. \A i \in 1..(n + m) :
        all[i] = IF i <= n THEN e.pending[i] ELSE e.recovery[i - n].command
  <2> SUFFICES ASSUME NEW i \in 1..(n + m), ~(i <= n) PROVE kept[i - n] = e.recovery[i - n].command
    BY <1>6
  <2>1. i - n \in 1..m
    BY <1>1, <1>5
  <2> QED BY <1>4, <2>1
<1> QED BY <1>1, <1>5, <1>6, <1>7, <1>8, <1>9 DEF n, m

LEMMA RequiredFinite ==
  ASSUME NEW e, IsEnvelope(e)
  PROVE  IsFiniteSet(Required(e))
<1> DEFINE all == Intents(e)
           made == {CreatedTask(all[i]) : i \in DOMAIN all}
           undo == IF e.confirmed.undo = None THEN {} ELSE {e.confirmed.undo.task}
<1>1. IsFiniteSet(Live(e.confirmed))
  <2>1. Listed(e.confirmed)
    BY DEF IsEnvelope, IsSnapshot, SnapshotValid, Listed
  <2> QED BY <2>1, LiveFinite
<1>2. IsFiniteSet(undo)
  BY FS_EmptySet, FS_Singleton
<1>3. IsFiniteSet(Created(all))
  <2> DEFINE f == [i \in DOMAIN all |-> CreatedTask(all[i])]
  <2>1. all \in Seq(Command)
    BY IntentsAre
  <2> HIDE DEF all
  <2>2. Len(all) \in Nat /\ DOMAIN all = 1..Len(all)
    BY <2>1, LenProperties
  <2>3. f \in Surjection(DOMAIN all, made) /\ IsFiniteSet(DOMAIN all)
    BY <2>2, FS_Interval DEF Surjection
  <2>4. IsFiniteSet(made)
    BY <2>3, FS_Surjection
  <2>5. Created(all) \in SUBSET made
    BY DEF Created
  <2> QED BY <2>4, <2>5, FS_Subset
<1>4. Required(e) = (Live(e.confirmed) \cup undo) \cup Created(all)
  BY DEF Required
<1> HIDE DEF undo, all
<1>5. IsFiniteSet(Live(e.confirmed) \cup undo)
  BY <1>1, <1>2, FS_Union
<1> QED BY <1>3, <1>4, <1>5, FS_Union

\* A finite set in some order: every element once.
LEMMA InOrder ==
  ASSUME NEW S, IsFiniteSet(S)
  PROVE  LET seq == Sq!SetToSeq(S)
         IN /\ Cardinality(S) \in Nat /\ Len(seq) = Cardinality(S)
            /\ DOMAIN seq = 1..Cardinality(S)
            /\ \A i, j \in DOMAIN seq : seq[i] = seq[j] => i = j
            /\ \A x \in S : \E i \in DOMAIN seq : seq[i] = x
<1> DEFINE size == Cardinality(S)
           seq == Sq!SetToSeq(S)
<1>1. size \in Nat /\ ExistsBijection(1..size, S)
  BY FS_CardinalityType
<1>2. \E f \in [1..size -> S] : Sq!IsInjective(f)
  BY <1>1 DEF ExistsBijection, Bijection, Injection, IsInjective, Sq!IsInjective
<1>3. seq \in [1..size -> S] /\ Sq!IsInjective(seq)
  BY <1>2 DEF Sq!SetToSeq, Sq!Cardinality, Cardinality
<1>4. IsFiniteSet(1..size) /\ Cardinality(1..size) = size
  BY <1>1, FS_Interval
<1> HIDE DEF size, seq
<1>5. seq \in Injection(1..size, S)
  BY <1>3 DEF Injection, IsInjective, Sq!IsInjective
<1>6. seq \in Surjection(1..size, S)
  BY <1>4, <1>5, FS_Injection DEF size
<1>7. \A x \in S : \E i \in DOMAIN seq : seq[i] = x
  BY <1>3, <1>6 DEF Surjection
<1>8. Len(seq) = size
  BY <1>1, <1>3
<1> QED BY <1>1, <1>3, <1>7, <1>8 DEF size, seq, Sq!IsInjective

\* Handles are drawn once, below the next one.
HandlesDrawn(e) ==
  /\ e.nextHandle \in Nat \ {0} /\ Fn!IsInjective(e.handles)
  /\ Fn!Range(e.handles) \subseteq 1..(e.nextHandle - 1)

LEMMA RegisteredHandled ==
  ASSUME NEW e, IsEnvelope(e), HandlesDrawn(e)
  PROVE  LET r == Registered(e) IN HandlesDrawn(r) /\ Required(r) \subseteq DOMAIN r.handles
<1> DEFINE r == Registered(e)
           new == Required(e) \ DOMAIN e.handles
           seq == Sq!SetToSeq(new)
           At(t) == CHOOSE i \in DOMAIN seq : seq[i] = t
           size == Cardinality(new)
           all == DOMAIN e.handles \cup Required(e)
<1>1. IsFiniteSet(new)
  <2>1. new \in SUBSET Required(e)
    OBVIOUS
  <2> QED BY <2>1, RequiredFinite, FS_Subset
<1> HIDE DEF new
<1>2. /\ size \in Nat /\ Len(seq) = size /\ DOMAIN seq = 1..size
      /\ \A x \in new : \E i \in DOMAIN seq : seq[i] = x
  BY <1>1, InOrder
<1> HIDE DEF seq, size
<1>3. \A t \in new : At(t) \in 1..size /\ seq[At(t)] = t
  BY <1>2
<1>4. /\ r.handles = [t \in all |-> IF t \in DOMAIN e.handles THEN e.handles[t]
                                    ELSE e.nextHandle + At(t) - 1]
      /\ r.nextHandle = e.nextHandle + size
      /\ \A f \in EnvelopeFields \ {"handles", "nextHandle"} : r[f] = e[f]
  <2>1. DOMAIN e = EnvelopeFields
    BY DEF IsEnvelope
  <2> QED BY <1>2, <2>1 DEF Registered, EnvelopeFields, seq, new
<1> HIDE DEF r, At
<1>5. \A t \in all : t \in DOMAIN e.handles \/ t \in new
  BY DEF new
<1>6. ASSUME NEW t \in all
      PROVE  /\ r.handles[t] \in 1..(r.nextHandle - 1)
             /\ t \in DOMAIN e.handles <=> r.handles[t] < e.nextHandle
  <2>1. CASE t \in DOMAIN e.handles
    <3>1. e.handles[t] \in 1..(e.nextHandle - 1)
      BY <2>1 DEF HandlesDrawn, Fn!Range
    <3> QED BY <1>2, <1>4, <2>1, <3>1 DEF HandlesDrawn
  <2>2. CASE t \notin DOMAIN e.handles
    <3>1. At(t) \in 1..size /\ r.handles[t] = e.nextHandle + At(t) - 1
      BY <1>3, <1>4, <1>5, <2>2
    <3> QED BY <1>2, <1>4, <2>2, <3>1 DEF HandlesDrawn
  <2> QED BY <2>1, <2>2
<1>7. ASSUME NEW t \in all, NEW u \in all, r.handles[t] = r.handles[u] PROVE t = u
  <2>1. CASE t \in DOMAIN e.handles
    <3>1. u \in DOMAIN e.handles
      BY <1>6, <1>7, <2>1
    <3> QED BY <1>4, <1>7, <2>1, <3>1 DEF HandlesDrawn, Fn!IsInjective
  <2>2. CASE t \notin DOMAIN e.handles
    <3>1. u \notin DOMAIN e.handles
      BY <1>6, <1>7, <2>2
    <3>2. /\ r.handles[t] = e.nextHandle + At(t) - 1 /\ r.handles[u] = e.nextHandle + At(u) - 1
          /\ t \in new /\ u \in new
      BY <1>4, <1>5, <2>2, <3>1
    <3>3. At(t) \in Nat /\ At(u) \in Nat /\ e.nextHandle \in Nat
      BY <1>2, <1>3, <3>2 DEF HandlesDrawn
    <3>4. At(t) = At(u)
      <4>1. e.nextHandle + At(t) - 1 = e.nextHandle + At(u) - 1
        BY <1>7, <3>2
      <4> QED BY <3>3, <4>1
    <3> QED BY <1>3, <3>2, <3>4
  <2> QED BY <2>1, <2>2
<1>8. DOMAIN r.handles = all
  BY <1>4
<1>9. HandlesDrawn(r)
  <2>1. r.nextHandle \in Nat \ {0}
    BY <1>2, <1>4 DEF HandlesDrawn
  <2>2. Fn!IsInjective(r.handles)
    BY <1>7, <1>8 DEF Fn!IsInjective
  <2>3. Fn!Range(r.handles) \subseteq 1..(r.nextHandle - 1)
    BY <1>6, <1>8 DEF Fn!Range
  <2> QED BY <2>1, <2>2, <2>3 DEF HandlesDrawn
<1>10. Required(r) = Required(e)
  <2>1. r.confirmed = e.confirmed /\ r.pending = e.pending /\ r.recovery = e.recovery
    BY <1>4 DEF EnvelopeFields
  <2> QED BY <2>1 DEF Required, Intents
<1> QED BY <1>8, <1>9, <1>10 DEF r

\* In the implementation an optional value is never mistaken for a present one.
AbsentIsNoCheckpoint == \A g, r, h : [generation |-> g, revision |-> r, history |-> h] # None

\* Some elements of a sequence, in any order.
Picked(new, old) ==
  \E g \in [DOMAIN new -> DOMAIN old] :
    /\ \A i, j \in DOMAIN new : g[i] = g[j] => i = j
    /\ \A i \in DOMAIN new : new[i] = old[g[i]]

LEMMA TailAt ==
  ASSUME NEW S, NEW s \in Seq(S), s # <<>>
  PROVE  /\ Len(s) \in Nat \ {0} /\ Len(Tail(s)) = Len(s) - 1 /\ Head(s) = s[1]
         /\ \A i \in 1..(Len(s) - 1) : Tail(s)[i] = s[i + 1]
BY HeadTailProperties, EmptySeq

\* Validation looks at the intents one by one, and each of these was there before.
LEMMA ValidOnward ==
  ASSUME NEW e, IsEnvelope(e), EnvelopeValid(e), NEW r, IsEnvelope(r),
         r.confirmed.initialized, r.confirmed.generation = e.confirmed.generation,
         Dated(r.confirmed.focus.session, r.time),
         r.settled # None =>
           /\ r.settled.command \notin Ids(r.pending)
           /\ r.settled.outcome.status = "applied" =>
                r.settled.outcome.revision \in 1..r.confirmed.revision,
         r.pending = e.pending \/ (e.pending # <<>> /\ r.pending = Tail(e.pending)),
         Picked(Intents(r), Intents(e)),
         HandlesDrawn(r), Required(r) \subseteq DOMAIN r.handles
  PROVE  EnvelopeValid(r)
<1> DEFINE old == Intents(e)
           new == Intents(r)
<1>1. /\ Len(e.pending) \in Nat /\ DOMAIN e.pending = 1..Len(e.pending)
      /\ Len(r.pending) \in Nat /\ DOMAIN r.pending = 1..Len(r.pending)
      /\ old \in Seq(Command) /\ new \in Seq(Command)
      /\ e.pending \in Seq(Command) /\ r.pending \in Seq(Command)
  BY IntentsAre DEF IsEnvelope
<1>2. Distinct(old) /\ OneFocus(e.pending) /\ Len(e.pending) <= MaxPending
  BY <1>1, DistinctCounted, OneFocusCounted DEF EnvelopeValid
<1>3. \A i \in DOMAIN old : /\ old[i].generation = e.confirmed.generation
                            /\ old[i].action.op # "Initialize"
  BY DEF EnvelopeValid
<1>4. Picked(new, old)
  OBVIOUS
<1> HIDE DEF old, new
<1>5. /\ Distinct(new)
      /\ \A i \in DOMAIN new : /\ new[i].generation = r.confirmed.generation
                               /\ new[i].action.op # "Initialize"
  BY <1>2, <1>3, <1>4 DEF Distinct, Picked
<1> DEFINE k == IF r.pending = e.pending THEN 0 ELSE 1
<1>10. /\ k \in {0, 1} /\ Len(r.pending) = Len(e.pending) - k
       /\ \A i \in 1..Len(r.pending) : r.pending[i] = e.pending[i + k]
  <2>1. CASE r.pending = e.pending
    <3>1. k = 0 /\ Len(r.pending) = Len(e.pending) - 0
      BY <1>1, <2>1
    <3> QED BY <1>1, <2>1, <3>1
  <2>2. CASE r.pending # e.pending
    <3>1. k = 1 /\ e.pending # <<>> /\ r.pending = Tail(e.pending)
      BY <2>2
    <3>2. /\ Len(r.pending) = Len(e.pending) - 1
          /\ \A i \in 1..Len(r.pending) : r.pending[i] = e.pending[i + 1]
      BY <1>1, <3>1, TailAt
    <3> QED BY <3>1, <3>2
  <2> QED BY <2>1, <2>2
<1> HIDE DEF k
<1>6. OneFocus(r.pending)
  <2> SUFFICES ASSUME NEW i \in 1..Len(r.pending), NEW j \in 1..Len(r.pending),
                      IsFocus(r.pending[i]), IsFocus(r.pending[j])
               PROVE  i = j
    BY <1>1 DEF OneFocus
  <2>1. /\ i + k \in DOMAIN e.pending /\ j + k \in DOMAIN e.pending
        /\ r.pending[i] = e.pending[i + k] /\ r.pending[j] = e.pending[j + k]
    BY <1>1, <1>10
  <2>2. i + k = j + k
    BY <1>2, <2>1 DEF OneFocus
  <2> QED BY <1>10, <2>2
<1>7. /\ Cardinality(Ids(new)) = Len(new)
      /\ Cardinality({i \in DOMAIN r.pending : IsFocus(r.pending[i])}) <= 1
  BY <1>1, <1>5, <1>6, DistinctCounted, OneFocusCounted
<1>8. Len(r.pending) <= MaxPending
  BY <1>1, <1>2, <1>10, ClientConstants
<1>9. /\ r.confirmed.initialized /\ SnapshotValid(r.confirmed)
      /\ r.confirmed.focus.session # None => r.confirmed.focus.session.anchor <= r.time
      /\ Fn!IsInjective(r.handles) /\ Fn!Range(r.handles) \subseteq 1..(r.nextHandle - 1)
  BY DEF IsEnvelope, Dated, HandlesDrawn
<1> QED BY <1>5, <1>7, <1>8, <1>9 DEF EnvelopeValid, new

LEMMA FitHandles ==
  ASSUME NEW e, IsEnvelope(e), EnvelopeValid(e), e.nextHandle \in Nat \ {0}
  PROVE  HandlesDrawn(e) /\ Required(e) \subseteq DOMAIN e.handles
BY DEF EnvelopeValid, HandlesDrawn

\* Going on again changes nothing that validation looks at.
LEMMA ResumedFit ==
  ASSUME NEW e, IsEnvelope(e), NEW time, Fit(e, time)
  PROVE  Fit([e EXCEPT !.suspension = None], time)
<1> DEFINE r == [e EXCEPT !.suspension = None]
<1>1. /\ r.suspension = None /\ r.confirmed = e.confirmed /\ r.time = e.time
      /\ r.pending = e.pending /\ r.recovery = e.recovery /\ r.settled = e.settled
      /\ r.handles = e.handles /\ r.nextHandle = e.nextHandle
  BY DEF IsEnvelope, EnvelopeFields
<1> HIDE DEF r
<1>2. Intents(r) = Intents(e) /\ Required(r) = Required(e)
  BY <1>1 DEF Intents, Required
<1>3. EnvelopeValid(r)
  BY <1>1, <1>2 DEF Fit, EnvelopeValid
<1>4. Fit(r, time)
  BY <1>1, <1>3 DEF Fit
<1> QED BY <1>4 DEF r

\* A refused command less, and the others as they were.
LEMMA DismissedFit ==
  ASSUME NEW made, NEW d, NEW e, EnvelopeOK(made, d, e), NEW time, Fit(e, time),
         NEW k \in DOMAIN e.recovery
  PROVE  Fit([e EXCEPT !.recovery = RemoveAt(@, k)], time)
<1> DEFINE n == Len(e.pending)
           m == Len(e.recovery)
           left == RemoveAt(e.recovery, k)
           r == [e EXCEPT !.recovery = left]
<1>1. IsEnvelope(e) /\ IsEnvelope(r)
  BY DismissedOK DEF EnvelopeOK
<1>2. /\ r.suspension = e.suspension /\ r.confirmed = e.confirmed /\ r.time = e.time
      /\ r.pending = e.pending /\ r.recovery = left /\ r.settled = e.settled
      /\ r.handles = e.handles /\ r.nextHandle = e.nextHandle
  BY <1>1 DEF IsEnvelope, EnvelopeFields
<1> HIDE DEF r
<1>3. /\ n \in Nat /\ m \in Nat /\ DOMAIN e.pending = 1..n /\ DOMAIN e.recovery = 1..m
      /\ DOMAIN Intents(e) = 1..(n + m)
      /\ \A i \in 1..(n + m) :
           Intents(e)[i] = IF i <= n THEN e.pending[i] ELSE e.recovery[i - n].command
  BY <1>1, IntentsAre
<1>4. left = [j \in 1..(m - 1) |-> e.recovery[IF j < k THEN j ELSE j + 1]]
  BY DEF RemoveAt
<1>5. m - 1 \in Nat /\ Len(left) = m - 1
  BY <1>3, <1>4
<1>6. /\ DOMAIN Intents(r) = 1..(n + m - 1)
      /\ \A i \in 1..(n + m - 1) :
           Intents(r)[i] = IF i <= n THEN e.pending[i] ELSE left[i - n].command
  <2>1. /\ DOMAIN Intents(r) = 1..(n + Len(left))
        /\ \A i \in 1..(n + Len(left)) :
             Intents(r)[i] = IF i <= n THEN e.pending[i] ELSE left[i - n].command
    BY <1>1, <1>2, IntentsAre
  <2>2. n + Len(left) = n + m - 1
    BY <1>3, <1>5
  <2> QED BY <2>1, <2>2
<1> DEFINE g == [i \in 1..(n + m - 1) |-> IF i < n + k THEN i ELSE i + 1]
<1> HIDE DEF n, m, left
<1>7. g \in [DOMAIN Intents(r) -> DOMAIN Intents(e)]
  BY <1>3, <1>6
<1>8. \A i, j \in DOMAIN Intents(r) : g[i] = g[j] => i = j
  BY <1>3, <1>6
<1>9. ASSUME NEW i \in DOMAIN Intents(r) PROVE Intents(r)[i] = Intents(e)[g[i]]
  <2>1. CASE i <= n
    <3>1. g[i] = i /\ i \in 1..(n + m)
      BY <1>3, <1>6, <2>1
    <3> QED BY <1>3, <1>6, <2>1, <3>1
  <2>2. CASE ~(i <= n)
    <3>1. i - n \in 1..(m - 1) /\ (i - n < k <=> i < n + k)
      BY <1>3, <1>6, <2>2
    <3>2. left[i - n] = e.recovery[IF i < n + k THEN i - n ELSE i - n + 1]
      BY <1>4, <3>1
    <3>3. ~(g[i] <= n) /\ g[i] - n = IF i < n + k THEN i - n ELSE i - n + 1
      BY <1>3, <1>6, <2>2
    <3>4. Intents(e)[g[i]] = e.recovery[g[i] - n].command
      BY <1>3, <1>7, <3>3
    <3> QED BY <1>6, <2>2, <3>2, <3>3, <3>4
  <2> QED BY <2>1, <2>2
<1> HIDE DEF g
<1>10. Required(r) \subseteq Required(e)
  <2>1. Created(Intents(r)) \subseteq Created(Intents(e))
    BY <1>7, <1>9 DEF Created
  <2> QED BY <1>2, <2>1 DEF Required
<1>11. /\ EnvelopeValid(e) /\ HandlesDrawn(r) /\ Required(r) \subseteq DOMAIN r.handles
  BY <1>1, <1>2, <1>10, FitHandles DEF Fit, HandlesDrawn
<1>12. EnvelopeValid(r)
  <2>1. Picked(Intents(r), Intents(e))
    BY <1>7, <1>8, <1>9 DEF Picked
  <2>2. /\ r.confirmed.initialized /\ Dated(r.confirmed.focus.session, r.time)
        /\ r.settled # None =>
             /\ r.settled.command \notin Ids(r.pending)
             /\ r.settled.outcome.status = "applied" =>
                  r.settled.outcome.revision \in 1..r.confirmed.revision
    BY <1>2, <1>11 DEF EnvelopeValid, Dated
  <2> QED BY <1>1, <1>2, <1>11, <2>1, <2>2, ValidOnward
<1>13. Fit(r, time)
  BY <1>2, <1>12 DEF Fit
<1> QED BY <1>13 DEF r, left

(***************************************************************************)
(* An answer that fits                                                     *)
(***************************************************************************)
LEMMA FittingAnswers ==
  ASSUME AbsentIsNoCheckpoint, NEW made, NEW d, NEW e, EnvelopeOK(made, d, e), Tipped(e.confirmed),
         NEW q, About(d, e, q), NEW p, ResponseOK(q, p), NEW time, Fitting(d, e, q, p, time),
         p.snapshot.generation = e.confirmed.generation
  PROVE  Answers(e, q, p) /\ Extends(e, p) /\ p.snapshot.initialized
<1>1. /\ IsSnapshot(e.confirmed) /\ IsSnapshot(p.snapshot) /\ e.device = d
      /\ e.time \in Nat /\ p.time \in Nat /\ SnapshotValid(p.snapshot)
      /\ p.snapshot.revision \in Nat /\ e.confirmed.revision \in Nat
      /\ IsChain(e.confirmed.history) /\ IsChain(p.snapshot.history)
  BY DEF EnvelopeOK, IsEnvelope, ResponseOK, Fitting, IsSnapshot, IsBody
<1>2. q.checkpoint # None /\ q.checkpoint.history = e.confirmed.history
  BY DEF About, Checkpoint, AbsentIsNoCheckpoint
<1>3. Begins(e.confirmed.history, p.snapshot.history)
  BY <1>2 DEF ResponseOK
<1>4. /\ Len(e.confirmed.history) \in Nat /\ Len(p.snapshot.history) \in Nat
      /\ Len(e.confirmed.history) <= Len(p.snapshot.history) /\ Len(p.snapshot.history) >= 2
  BY <1>1, <1>3, ChainLength DEF Begins, Fitting, Tipped
<1>5. p.snapshot.revision >= e.confirmed.revision /\ p.snapshot.revision # 0
  BY <1>1, <1>4 DEF Tipped, Fitting
<1>6. p.snapshot.revision = e.confirmed.revision => p.snapshot = e.confirmed
  BY <1>1, <1>3, TippedSame DEF Fitting
<1>7. Extends(e, p)
  BY <1>1, <1>5, <1>6 DEF Extends, Fitting
<1>8. p.snapshot.initialized
  BY <1>1, <1>5 DEF SnapshotValid, StartedOnce
<1>9. Answers(e, q, p)
  BY <1>1, <1>2 DEF Answers, About, Fitting
<1> QED BY <1>7, <1>8, <1>9

\* What the answer to the head of the journal makes of it, before handles are drawn.
LEMMA ReconciledIs ==
  ASSUME NEW e, IsEnvelope(e), NEW q, NEW p, IsSnapshot(p.snapshot), SnapshotValid(p.snapshot),
         p.time \in Nat, Answers(e, q, p)
  PROVE  \E x :
           /\ IsEnvelope(x) /\ Reconciled(e, q, p) = Registered(x)
           /\ x.device = e.device /\ x.confirmed = p.snapshot /\ x.time = p.time
           /\ x.handles = e.handles /\ x.nextHandle = e.nextHandle /\ x.suspension = e.suspension
           /\ \/ /\ q.command = None /\ p.receipt = None
                 /\ x.pending = e.pending /\ x.recovery = e.recovery /\ x.settled = e.settled
              \/ /\ q.command # None /\ p.receipt # None
                 /\ e.pending # <<>> /\ Head(e.pending) = q.command /\ x.pending = Tail(e.pending)
                 /\ x.recovery =
                      IF p.receipt.outcome.status = "applied" THEN e.recovery
                      ELSE Append(e.recovery, [command |-> q.command,
                                               reason |-> p.receipt.outcome.reason])
                 /\ x.settled = IF IsFocus(q.command) THEN p.receipt ELSE e.settled
<1> DEFINE receipt == p.receipt
           command == Head(e.pending)
           adopted == [e EXCEPT !.confirmed = p.snapshot, !.time = p.time]
           item == [command |-> command, reason |-> receipt.outcome.reason]
           settled == [adopted EXCEPT
             !.pending = Tail(@),
             !.settled = IF IsFocus(command) THEN receipt ELSE @,
             !.recovery = IF receipt.outcome.status = "applied" THEN @ ELSE Append(@, item)]
           m == IF receipt = None THEN adopted ELSE settled
<1>1. Reconciled(e, q, p) = Registered(m)
  BY DEF Reconciled
<1>2. e.pending \in Seq(Command) /\ DOMAIN e = EnvelopeFields
  BY DEF IsEnvelope
<1>3. \/ q.command = None /\ receipt = None
      \/ /\ q.command # None /\ receipt # None
         /\ e.pending # <<>> /\ Head(e.pending) = q.command
  BY DEF Answers
<1>4. /\ DOMAIN adopted = EnvelopeFields
      /\ \A f \in EnvelopeFields \ {"confirmed", "time"} : adopted[f] = e[f]
      /\ adopted.confirmed = p.snapshot /\ adopted.time = p.time
  BY <1>2 DEF EnvelopeFields
<1> HIDE DEF adopted
<1>5. /\ DOMAIN settled = EnvelopeFields
      /\ \A f \in EnvelopeFields \ {"pending", "settled", "recovery"} : settled[f] = adopted[f]
      /\ settled.pending = Tail(e.pending)
      /\ settled.settled = IF IsFocus(command) THEN receipt ELSE e.settled
      /\ settled.recovery = IF receipt.outcome.status = "applied" THEN e.recovery
                            ELSE Append(e.recovery, item)
  BY <1>4 DEF EnvelopeFields
<1> HIDE DEF settled, item, command, receipt
<1>6. /\ DOMAIN m = EnvelopeFields /\ m.device = e.device /\ m.handles = e.handles
      /\ m.nextHandle = e.nextHandle /\ m.suspension = e.suspension
      /\ m.confirmed = p.snapshot /\ m.time = p.time
      /\ m.pending = IF receipt = None THEN e.pending ELSE Tail(e.pending)
      /\ m.settled = IF receipt = None THEN e.settled
                     ELSE IF IsFocus(command) THEN receipt ELSE e.settled
      /\ m.recovery = IF receipt = None \/ receipt.outcome.status = "applied" THEN e.recovery
                      ELSE Append(e.recovery, item)
  BY <1>4, <1>5 DEF EnvelopeFields
<1> HIDE DEF m
<1>7. m.pending \in Seq(Command)
  BY <1>2, <1>3, <1>6, HeadTailProperties
<1>8. /\ \E S : m.recovery \in Seq(S)
      /\ \A i \in DOMAIN m.recovery : m.recovery[i].command \in Command
  <2>1. PICK S : e.recovery \in Seq(S)
    BY DEF IsEnvelope
  <2>2. CASE receipt = None \/ receipt.outcome.status = "applied"
    BY <1>6, <2>1, <2>2 DEF IsEnvelope
  <2>3. CASE ~(receipt = None \/ receipt.outcome.status = "applied")
    <3> DEFINE k == Len(e.recovery)
               T == S \cup {item}
    <3>1. e.recovery \in Seq(T)
      BY <2>1, SeqMonotonic
    <3>2. k \in Nat /\ DOMAIN e.recovery = 1..k
      BY <2>1, LenProperties
    <3>3. /\ m.recovery \in Seq(T) /\ Len(m.recovery) = k + 1
          /\ \A i \in 1..k : m.recovery[i] = e.recovery[i]
          /\ m.recovery[k + 1] = item
      BY <1>6, <2>3, <3>1, AppendProperties
    <3>4. DOMAIN m.recovery = 1..(k + 1)
      BY <3>3, LenProperties
    <3>5. item.command = command /\ command \in Command
      <4>1. Head(e.pending) \in Command
        BY <1>2, <1>3, <2>3, HeadTailProperties
      <4> QED BY <4>1 DEF item, command
    <3> HIDE DEF T, k
    <3>6. \A i \in DOMAIN m.recovery : m.recovery[i].command \in Command
      BY <3>2, <3>3, <3>4, <3>5 DEF IsEnvelope
    <3> QED BY <3>3, <3>6
  <2> QED BY <2>2, <2>3
<1>9. IsEnvelope(m)
  BY <1>6, <1>7, <1>8 DEF IsEnvelope
<1>10. CASE q.command = None /\ receipt = None
  BY <1>1, <1>6, <1>9, <1>10 DEF receipt
<1>11. CASE q.command # None /\ receipt # None
  <2>1. command = q.command /\ item = [command |-> q.command, reason |-> receipt.outcome.reason]
    BY <1>3, <1>11 DEF command, item
  <2> QED BY <1>1, <1>3, <1>6, <1>9, <1>11, <2>1 DEF receipt
<1> QED BY <1>3, <1>10, <1>11

LEMMA ReconciledFit ==
  ASSUME NEW made, NEW d, NEW e, EnvelopeOK(made, d, e), NEW earlier, Fit(e, earlier),
         NEW q, About(d, e, q), NEW p, NEW time, Fitting(d, e, q, p, time),
         IsSnapshot(p.snapshot), p.time \in Nat, p.snapshot.initialized,
         p.snapshot.generation = e.confirmed.generation, Answers(e, q, p), Extends(e, p)
  PROVE  EnvelopeValid(Reconciled(e, q, p)) /\ Fit(Reconciled(e, q, p), time)
<1> DEFINE r == Reconciled(e, q, p)
           n == Len(e.pending)
           m == Len(e.recovery)
           N == n + m
           item == [command |-> q.command, reason |-> p.receipt.outcome.reason]
<1>1. PICK x :
        /\ IsEnvelope(x) /\ r = Registered(x)
        /\ x.device = e.device /\ x.confirmed = p.snapshot /\ x.time = p.time
        /\ x.handles = e.handles /\ x.nextHandle = e.nextHandle /\ x.suspension = e.suspension
        /\ \/ /\ q.command = None /\ p.receipt = None
              /\ x.pending = e.pending /\ x.recovery = e.recovery /\ x.settled = e.settled
           \/ /\ q.command # None /\ p.receipt # None
              /\ e.pending # <<>> /\ Head(e.pending) = q.command /\ x.pending = Tail(e.pending)
              /\ x.recovery = IF p.receipt.outcome.status = "applied" THEN e.recovery
                              ELSE Append(e.recovery, item)
              /\ x.settled = IF IsFocus(q.command) THEN p.receipt ELSE e.settled
  <2>1. IsEnvelope(e) /\ SnapshotValid(p.snapshot)
    BY DEF EnvelopeOK, Fitting
  <2> QED BY <2>1, ReconciledIs
<1> HIDE DEF item
<1>2. IsEnvelope(e) /\ EnvelopeValid(e) /\ e.nextHandle \in Nat \ {0} /\ e.suspension = None
  BY DEF EnvelopeOK, Fit
<1>3. /\ IsEnvelope(r) /\ HandlesDrawn(r) /\ Required(r) \subseteq DOMAIN r.handles
      /\ r.confirmed = p.snapshot /\ r.time = p.time /\ r.suspension = None
      /\ r.pending = x.pending /\ r.recovery = x.recovery /\ r.settled = x.settled
  <2>1. HandlesDrawn(x)
    BY <1>1, <1>2, FitHandles DEF HandlesDrawn
  <2>2. HandlesDrawn(r) /\ Required(r) \subseteq DOMAIN r.handles
    BY <1>1, <2>1, RegisteredHandled
  <2>3. IsEnvelope(r) /\ \A f \in EnvelopeFields \ {"handles", "nextHandle"} : r[f] = x[f]
    BY <1>1, RegisteredFacts
  <2> QED BY <1>1, <1>2, <2>2, <2>3 DEF EnvelopeFields
<1> HIDE DEF r
<1>4. /\ n \in Nat /\ m \in Nat /\ DOMAIN e.pending = 1..n /\ DOMAIN e.recovery = 1..m
      /\ DOMAIN Intents(e) = 1..N
      /\ \A i \in 1..N : Intents(e)[i] = IF i <= n THEN e.pending[i] ELSE e.recovery[i - n].command
      /\ e.pending \in Seq(Command)
  BY <1>2, IntentsAre DEF IsEnvelope
<1>5. /\ Len(r.pending) \in Nat /\ Len(r.recovery) \in Nat
      /\ DOMAIN Intents(r) = 1..(Len(r.pending) + Len(r.recovery))
      /\ \A i \in 1..(Len(r.pending) + Len(r.recovery)) :
           Intents(r)[i] = IF i <= Len(r.pending) THEN r.pending[i]
                           ELSE r.recovery[i - Len(r.pending)].command
  BY <1>3, IntentsAre
<1>6. /\ p.snapshot.revision \in Nat /\ e.confirmed.revision \in Nat
      /\ e.confirmed.revision <= p.snapshot.revision
  BY <1>2 DEF Extends, IsEnvelope, IsSnapshot, IsBody
<1>7. Dated(r.confirmed.focus.session, r.time) /\ r.confirmed.initialized
  BY <1>3 DEF Fitting
<1>8. e.settled # None =>
        /\ e.settled.command \notin Ids(e.pending)
        /\ e.settled.outcome.status = "applied" =>
             e.settled.outcome.revision \in 1..p.snapshot.revision
  BY <1>2, <1>6 DEF EnvelopeValid
<1>9. CASE q.command = None
  <2>1. r.pending = e.pending /\ r.recovery = e.recovery /\ r.settled = e.settled
    BY <1>1, <1>3, <1>9
  <2>2. Intents(r) = Intents(e)
    BY <2>1 DEF Intents
  <2>3. Picked(Intents(r), Intents(e))
    <3> DEFINE g == [i \in DOMAIN Intents(r) |-> i]
    <3>1. /\ g \in [DOMAIN Intents(r) -> DOMAIN Intents(e)]
          /\ \A i, j \in DOMAIN Intents(r) : g[i] = g[j] => i = j
          /\ \A i \in DOMAIN Intents(r) : Intents(r)[i] = Intents(e)[g[i]]
      BY <2>2
    <3> HIDE DEF g
    <3> QED BY <3>1 DEF Picked
  <2>5. EnvelopeValid(r)
    BY <1>2, <1>3, <1>7, <1>8, <2>1, <2>3, ValidOnward
  <2> QED BY <1>3, <2>5 DEF r, Fit, Fitting, HandlesDrawn
<1>10. CASE q.command # None
  <2> DEFINE all == DOMAIN Intents(r)
             g == [i \in all |-> IF i < N THEN i + 1 ELSE 1]
  <2>1. /\ e.pending # <<>> /\ Head(e.pending) = q.command /\ r.pending = Tail(e.pending)
        /\ r.recovery = IF p.receipt.outcome.status = "applied" THEN e.recovery
                        ELSE Append(e.recovery, item)
        /\ r.settled = IF IsFocus(q.command) THEN p.receipt ELSE e.settled
    BY <1>1, <1>3, <1>10
  <2>2. /\ n # 0 /\ Len(r.pending) = n - 1 /\ q.command = e.pending[1]
        /\ \A i \in 1..(n - 1) : r.pending[i] = e.pending[i + 1]
    BY <1>4, <2>1, TailAt
  <2>3. /\ Len(r.recovery) \in {m, m + 1}
        /\ \A i \in 1..m : r.recovery[i] = e.recovery[i]
        /\ Len(r.recovery) = m + 1 => r.recovery[m + 1].command = q.command
    <3>1. PICK S : e.recovery \in Seq(S)
      BY <1>2 DEF IsEnvelope
    <3>2. CASE p.receipt.outcome.status = "applied"
      BY <1>4, <2>1, <3>2
    <3>3. CASE p.receipt.outcome.status # "applied"
      <4>1. e.recovery \in Seq(S \cup {item})
        BY <3>1, SeqMonotonic
      <4>2. /\ Len(r.recovery) = m + 1 /\ \A i \in 1..m : r.recovery[i] = e.recovery[i]
            /\ r.recovery[m + 1] = item
        BY <2>1, <3>3, <4>1, AppendProperties
      <4> QED BY <4>2 DEF item
    <3> QED BY <3>2, <3>3
  <2> HIDE DEF n, m
  <2>4. all \in {1..(N - 1), 1..N}
    <3>1. Len(r.pending) + Len(r.recovery) \in {N - 1, N}
      <4>1. n \in Nat /\ m \in Nat /\ Len(r.pending) = n - 1 /\ Len(r.recovery) \in {m, m + 1}
        BY <1>4, <2>2, <2>3
      <4> DEFINE a == Len(r.pending)
                 b == Len(r.recovery)
      <4> HIDE DEF a, b
      <4>2. a = n - 1 /\ (b = m \/ b = m + 1)
        BY <4>1 DEF a, b
      <4>3. a + b = N - 1 \/ a + b = N
        BY <4>1, <4>2
      <4> QED BY <4>3 DEF a, b
    <3> QED BY <1>5, <3>1
  <2>5. g \in [all -> DOMAIN Intents(e)] /\ \A i, j \in all : g[i] = g[j] => i = j
    BY <1>4, <2>2, <2>4
  <2>6. ASSUME NEW i \in all PROVE Intents(r)[i] = Intents(e)[g[i]]
    <3>0. i \in 1..N /\ i \in 1..(Len(r.pending) + Len(r.recovery))
      <4>1. N \in Nat /\ i \in all
        BY <1>4, <2>6
      <4>2. i \in 1..N
        BY <2>4, <4>1
      <4> QED BY <1>5, <4>1, <4>2 DEF all
    <3>1. CASE i <= n - 1
      <4>1. /\ i < N /\ g[i] = i + 1 /\ i + 1 <= n /\ i + 1 \in 1..N /\ i \in 1..(n - 1)
            /\ i <= Len(r.pending)
        BY <1>4, <2>2, <3>0, <3>1
      <4>2. Intents(r)[i] = e.pending[i + 1]
        BY <1>5, <2>2, <3>0, <4>1
      <4> QED BY <1>4, <4>1, <4>2
    <3>2. CASE ~(i <= n - 1) /\ i < N
      <4>1. /\ g[i] = i + 1 /\ ~(i + 1 <= n) /\ i + 1 \in 1..N /\ (i + 1) - n \in 1..m
            /\ ~(i <= Len(r.pending)) /\ i - Len(r.pending) = (i + 1) - n
        BY <1>4, <2>2, <3>0, <3>2
      <4>2. Intents(r)[i] = e.recovery[(i + 1) - n].command
        BY <1>5, <2>3, <3>0, <4>1
      <4> QED BY <1>4, <4>1, <4>2
    <3>3. CASE i = N
      <4>1. /\ Len(r.recovery) = m + 1 /\ i - Len(r.pending) = m + 1
            /\ ~(i <= Len(r.pending)) /\ g[i] = 1 /\ 1 <= n /\ 1 \in 1..N
        BY <1>4, <2>2, <2>3, <3>0, <3>3
      <4>2. Intents(r)[i] = q.command
        BY <1>5, <2>3, <3>0, <4>1
      <4>3. Intents(e)[1] = q.command
        BY <1>4, <2>2, <4>1
      <4> QED BY <4>1, <4>2, <4>3
    <3> QED BY <1>4, <3>0, <3>1, <3>2, <3>3
  <2> HIDE DEF g, all
  <2>7. r.settled # None =>
          /\ r.settled.command \notin Ids(r.pending)
          /\ r.settled.outcome.status = "applied" =>
               r.settled.outcome.revision \in 1..r.confirmed.revision
    <3>0. DOMAIN r.pending = 1..(n - 1)
      BY <1>3, <2>2, IntentsAre
    <3>1. CASE IsFocus(q.command)
      <4>1. r.settled = p.receipt /\ p.receipt.command = q.command.id
        BY <1>10, <2>1, <3>1 DEF Fitting
      <4>2. q.command.id \notin Ids(r.pending)
        <5> SUFFICES ASSUME NEW i \in 1..(n - 1), q.command.id = r.pending[i].id PROVE FALSE
          BY <3>0 DEF Ids
        <5>1. /\ 1 \in DOMAIN e.pending /\ i + 1 \in DOMAIN e.pending
              /\ e.pending[1].id = e.pending[i + 1].id
          BY <1>4, <2>2 DEF n
        <5>2. 1 = i + 1
          BY <5>1 DEF EnvelopeOK
        <5> QED BY <5>2
      <4>3. p.receipt.outcome.status = "applied" =>
              p.receipt.outcome.revision \in 1..p.snapshot.revision
        BY <1>6, <1>10 DEF Fitting
      <4> QED BY <1>3, <4>1, <4>2, <4>3
    <3>2. CASE ~IsFocus(q.command)
      <4>1. r.settled = e.settled
        BY <2>1, <3>2
      <4>2. Ids(r.pending) \subseteq Ids(e.pending)
        <5>1. \A i \in 1..(n - 1) : i + 1 \in DOMAIN e.pending /\ r.pending[i] = e.pending[i + 1]
          BY <1>4, <2>2 DEF n
        <5> QED BY <3>0, <5>1 DEF Ids
      <4> QED BY <1>3, <1>8, <4>1, <4>2
    <3> QED BY <3>1, <3>2
  <2>8. Picked(Intents(r), Intents(e))
    BY <2>5, <2>6 DEF Picked, all
  <2>9. EnvelopeValid(r)
    BY <1>2, <1>3, <1>7, <2>1, <2>7, <2>8, ValidOnward
  <2> QED BY <1>3, <2>9 DEF r, Fit, Fitting, HandlesDrawn
<1> QED BY <1>9, <1>10

(***************************************************************************)
(* A device that nothing hinders                                           *)
(***************************************************************************)
\* The server's clock goes on.
LEMMA FitLater ==
  ASSUME NEW e, IsEnvelope(e), NEW time \in Nat, Fit(e, time), NEW later \in Nat, time <= later
  PROVE  Fit(e, later)
<1>1. e.time \in Nat
  BY DEF IsEnvelope
<1> QED BY <1>1 DEF Fit

LEMMA UnhinderedLater ==
  ASSUME NEW made, NEW d, NEW c, ClientOK(made, d, c), NEW w, WorkerOK(made, d, w),
         NEW time \in Nat, Unhindered(d, c, w, time), NEW later \in Nat, time <= later
  PROVE  Unhindered(d, c, w, later)
<1>1. \A e \in Entries(c.disk) : Fit(e, later)
  BY FitLater DEF Unhindered, ClientOK, EnvelopeOK
<1>2. Answer(w) => Fitting(d, Envelope(c), w.request, w.result.response, later)
  <2> SUFFICES ASSUME Answer(w) PROVE Fitting(d, Envelope(c), w.request, w.result.response, later)
    OBVIOUS
  <2> DEFINE p == w.result.response
  <2>1. p.time \in Nat
    BY DEF Answer, WorkerOK, ResponseOK
  <2>2. Fitting(d, Envelope(c), w.request, p, time)
    BY DEF Unhindered
  <2> HIDE DEF p
  <2>3. p.time <= later
    BY <2>1, <2>2 DEF Fitting
  <2> QED BY <2>2, <2>3 DEF Fitting, p
<1> QED BY <1>1, <1>2 DEF Unhindered

\* All that an open exchange depends on in an envelope.
SameGround(e, x) ==
  /\ x.confirmed = e.confirmed /\ x.time = e.time
  /\ e.pending # <<>> => x.pending # <<>> /\ Head(x.pending) = Head(e.pending)

LEMMA UnhinderedMoves ==
  ASSUME NEW d, NEW c, IsClient(c), NEW w, NEW time, Unhindered(d, c, w, time),
         NEW x, Fit(x, time), NEW c2, Becomes(c, c2, x),
         NEW w2, ~w2.halted, w2.result # None => w2.result.reason \in {None, "Network"},
         w2.request # None => Quiet(w, w2) /\ SameGround(Envelope(c), Envelope(c2))
  PROVE  Unhindered(d, c2, w2, time)
<1>1. \A e \in Entries(c2.disk) : Fit(e, time)
  BY BecomesFacts DEF Unhindered
<1>2. ASSUME w2.request # None PROVE About(d, Envelope(c2), w2.request)
  <2>1. w2.request = w.request /\ About(d, Envelope(c), w.request)
    BY <1>2 DEF Quiet, Unhindered
  <2> QED BY <1>2, <2>1 DEF SameGround, About
<1>3. ASSUME Answer(w2) PROVE Fitting(d, Envelope(c2), w2.request, w2.result.response, time)
  <2>1. /\ w2.request = w.request /\ Answer(w) /\ w2.result = w.result
        /\ SameGround(Envelope(c), Envelope(c2))
    BY <1>3 DEF Quiet, Answer
  <2>2. Fitting(d, Envelope(c), w.request, w.result.response, time)
    BY <2>1 DEF Unhindered
  <2> QED BY <2>1, <2>2 DEF SameGround, Fitting
<1> QED BY <1>1, <1>2, <1>3 DEF Unhindered

\* What is in use after a save that was not refused.
LEMMA InstallLatest ==
  ASSUME NEW c, IsClient(c), NEW x, NEW saved \in {"ok", "after", "before"}
  PROVE  Envelope(Install(c, x, saved)) \in {Envelope(c), x}
<1> DEFINE c2 == Save(c, x, saved)
<1>1. CASE saved = "ok"
  <2>1. c2.disk = <<x>>
    BY <1>1 DEF Save, IsClient
  <2> HIDE DEF c2
  <2>2. Envelope(c2) = x
    BY <2>1, OneLog DEF Envelope
  <2> QED BY <2>2 DEF Install, c2
<1>2. CASE saved = "after"
  <2>1. c2.disk = Append(c.disk, x)
    BY <1>2 DEF Save, IsClient
  <2> HIDE DEF c2
  <2>2. Envelope(c2) = x
    BY <2>1, MoreLog DEF Envelope, IsClient
  <2> QED BY <2>2 DEF Install, c2
<1>3. CASE saved = "before"
  BY <1>3 DEF Install, Save
<1> QED BY <1>1, <1>2, <1>3

LEMMA SameIsGround ==
  ASSUME NEW e
  PROVE  SameGround(e, e)
BY DEF SameGround

\* An operation of the engine that would save x, made of the latest envelope.
LEMMA InstallUnhindered ==
  ASSUME NEW d, NEW c, IsClient(c), NEW w, NEW time, Unhindered(d, c, w, time),
         NEW x, Fit(x, time), SameGround(Envelope(c), x), NEW saved \in {"ok", "after", "before"},
         NEW w2, Quiet(w, w2), ~w2.halted, w2.result # None => w2.result.reason \in {None, "Network"}
  PROVE  Unhindered(d, Install(c, x, saved), w2, time)
<1> DEFINE c2 == Install(c, x, saved)
<1>1. Becomes(c, c2, x) /\ Envelope(c2) \in {Envelope(c), x}
  BY SaveMove, InstallLatest
<1> HIDE DEF c2
<1>2. SameGround(Envelope(c), Envelope(c2))
  BY <1>1, SameIsGround
<1>3. Unhindered(d, c2, w2, time)
  BY <1>1, <1>2, UnhinderedMoves
<1> QED BY <1>3 DEF c2

\* A command more at the end.
LEMMA EnqueuedFit ==
  ASSUME NEW e, IsEnvelope(e), NEW time, Fit(e, time), NEW command \in Command,
         EnvelopeValid(Enqueued(e, command))
  PROVE  Fit(Enqueued(e, command), time) /\ SameGround(e, Enqueued(e, command))
<1> DEFINE m == [e EXCEPT !.pending = Append(@, command)]
           r == Enqueued(e, command)
<1>1. /\ DOMAIN m = EnvelopeFields /\ m.pending = Append(e.pending, command)
      /\ \A f \in EnvelopeFields \ {"pending"} : m[f] = e[f]
  BY DEF IsEnvelope, EnvelopeFields
<1>2. r = Registered(m)
  BY DEF Enqueued
<1> HIDE DEF m, r
<1>3. /\ m.pending \in Seq(Command) /\ m.pending # <<>>
      /\ e.pending # <<>> => Head(m.pending) = Head(e.pending)
  <2>1. e.pending \in Seq(Command) /\ Append(e.pending, command) \in Seq(Command)
    BY AppendProperties DEF IsEnvelope
  <2>2. Append(e.pending, command) # <<>>
    BY <2>1, AppendProperties
  <2>3. e.pending # <<>> => Head(Append(e.pending, command)) = Head(e.pending)
    <3>1. e.pending # <<>> => 1 \in 1..Len(e.pending)
      BY <2>1, EmptySeq, LenProperties
    <3>2. \A i \in 1..Len(e.pending) : Append(e.pending, command)[i] = e.pending[i]
      BY <2>1, AppendProperties
    <3> QED BY <2>1, <2>2, <3>1, <3>2, HeadTailProperties
  <2> QED BY <1>1, <2>1, <2>2, <2>3
<1>4. IsEnvelope(m) /\ HandlesDrawn(m)
  <2>1. IsEnvelope(m)
    BY <1>1, <1>3 DEF IsEnvelope, EnvelopeFields
  <2>2. HandlesDrawn(e)
    BY FitHandles DEF Fit
  <2> QED BY <1>1, <2>1, <2>2 DEF HandlesDrawn, EnvelopeFields
<1>5. HandlesDrawn(r) /\ \A f \in EnvelopeFields \ {"handles", "nextHandle"} : r[f] = m[f]
  BY <1>2, <1>4, RegisteredHandled, RegisteredFacts
<1>6. /\ r.confirmed = e.confirmed /\ r.time = e.time /\ r.suspension = e.suspension
      /\ r.pending = m.pending /\ r.nextHandle \in Nat \ {0}
  BY <1>1, <1>5 DEF EnvelopeFields, HandlesDrawn
<1>7. EnvelopeValid(r)
  BY DEF r
<1>8. Fit(r, time)
  BY <1>6, <1>7 DEF Fit
<1>9. SameGround(e, r)
  BY <1>3, <1>6 DEF SameGround
<1> QED BY <1>8, <1>9 DEF r

(***************************************************************************)
(* What the device does                                                    *)
(***************************************************************************)
\* What the client and the worker of d become keeps the device unhindered.
GoesOn(d) == Unhindered(d, client[d], worker[d], lastTime) => Unhindered(d, client'[d], worker'[d], lastTime)

LEMMA EnqueueGoesOn ==
  ASSUME SyncInv, NEW d \in Device, NEW command, NEW saved, Asks(d, command, saved)
  PROVE  GoesOn(d)
<1> DEFINE c == client[d]
           w == worker[d]
           x == Enqueued(Envelope(c), command)
<1> SUFFICES ASSUME Unhindered(d, c, w, lastTime) PROVE Unhindered(d, client'[d], worker'[d], lastTime)
  BY DEF GoesOn
<1>1. ClientOK(composed, d, c)
  BY DEF SyncInv
<1>2. /\ client' = [client EXCEPT ![d] = Install(@, Enqueued(Envelope(@), command), saved)]
      /\ worker' = worker /\ command \in Command /\ EnvelopeValid(x) /\ saved \in {"ok", "after", "before"}
  BY DEF Asks, Enqueue, env, SaveResult
<1>3. client'[d] = Install(c, x, saved) /\ worker'[d] = w
  BY <1>2 DEF SyncInv
<1> HIDE DEF c, w
<1>4. /\ IsClient(c) /\ IsEnvelope(Envelope(c)) /\ Fit(Envelope(c), lastTime)
      /\ ~w.halted /\ (w.result # None => w.result.reason \in {None, "Network"})
  BY <1>1, LatestOK DEF ClientOK, EnvelopeOK, Unhindered
<1>5. Fit(x, lastTime) /\ SameGround(Envelope(c), x)
  BY <1>2, <1>4, EnqueuedFit
<1> HIDE DEF x
<1>6. Quiet(w, w)
  BY DEF Quiet
<1> QED BY <1>2, <1>3, <1>4, <1>5, <1>6, InstallUnhindered

LEMMA DismissGoesOn ==
  ASSUME SyncInv, NEW d \in Device, Dismiss(d)
  PROVE  GoesOn(d)
<1> DEFINE c == client[d]
           w == worker[d]
           e == Envelope(c)
<1> SUFFICES ASSUME Unhindered(d, c, w, lastTime) PROVE Unhindered(d, client'[d], worker'[d], lastTime)
  BY DEF GoesOn
<1>1. PICK k \in DOMAIN e.recovery, saved \in SaveResult :
        /\ client' = [client EXCEPT ![d] = DismissRecovery(@, e.recovery[k].command.id, saved)]
        /\ worker' = worker
  BY DEF Dismiss, env
<1> DEFINE i == CHOOSE j \in DOMAIN e.recovery : e.recovery[j].command.id = e.recovery[k].command.id
           x == [e EXCEPT !.recovery = RemoveAt(@, i)]
<1>2. client'[d] = Install(c, x, saved) /\ worker'[d] = w /\ saved \in {"ok", "after", "before"}
  BY <1>1 DEF SyncInv, DismissRecovery, SaveResult
<1>3. i \in DOMAIN e.recovery
  OBVIOUS
<1> HIDE DEF i
<1>4. ClientOK(composed, d, c)
  BY DEF SyncInv
<1> HIDE DEF c, w
<1>5. /\ IsClient(c) /\ EnvelopeOK(composed, d, e) /\ Fit(e, lastTime)
      /\ ~w.halted /\ (w.result # None => w.result.reason \in {None, "Network"})
  BY <1>4, LatestOK DEF ClientOK, Unhindered
<1> HIDE DEF e
<1>6. Fit(x, lastTime)
  BY <1>3, <1>5, DismissedFit
<1>7. SameGround(e, x)
  BY <1>5 DEF SameGround, EnvelopeOK, IsEnvelope, EnvelopeFields
<1> HIDE DEF x
<1>8. Quiet(w, w)
  BY DEF Quiet
<1> QED BY <1>2, <1>5, <1>6, <1>7, <1>8, InstallUnhindered DEF e

LEMMA RetryGoesOn ==
  ASSUME SyncInv, NEW d \in Device, Retry(d)
  PROVE  GoesOn(d)
<1> DEFINE c == client[d]
           w == worker[d]
           e == Envelope(c)
           x == [e EXCEPT !.suspension = None]
           w2 == [w EXCEPT !.halted = FALSE]
<1> SUFFICES ASSUME Unhindered(d, c, w, lastTime) PROVE Unhindered(d, client'[d], worker'[d], lastTime)
  BY DEF GoesOn
<1>1. PICK saved \in SaveResult : /\ client' = [client EXCEPT ![d] = Resume(@, saved)]
                                  /\ worker' = [worker EXCEPT ![d].halted = FALSE]
  BY DEF Retry
<1>2. client'[d] = Install(c, x, saved) /\ worker'[d] = w2 /\ saved \in {"ok", "after", "before"}
  BY <1>1 DEF SyncInv, Resume, SaveResult
<1>3. ClientOK(composed, d, c) /\ DOMAIN w = {"request", "result", "halted", "discard"}
  BY DEF SyncInv, WorkerOK
<1> HIDE DEF c, w
<1>4. /\ IsClient(c) /\ IsEnvelope(e) /\ Fit(e, lastTime)
      /\ w.result # None => w.result.reason \in {None, "Network"}
  BY <1>3, LatestOK DEF ClientOK, Unhindered, EnvelopeOK
<1> HIDE DEF e
<1>5. Fit(x, lastTime)
  BY <1>4, ResumedFit
<1>6. SameGround(e, x)
  BY <1>4 DEF SameGround, IsEnvelope, EnvelopeFields
<1> HIDE DEF x
<1>7. /\ Quiet(w, w2) /\ ~w2.halted /\ w2.result = w.result
  BY <1>3 DEF Quiet, Answer
<1> HIDE DEF w2
<1> QED BY <1>2, <1>4, <1>5, <1>6, <1>7, InstallUnhindered DEF e

LEMMA CrashGoesOn ==
  ASSUME SyncInv, NEW d \in Device, Crash(d)
  PROVE  GoesOn(d)
<1> DEFINE c == client[d]
           w == worker[d]
<1> SUFFICES ASSUME Unhindered(d, c, w, lastTime) PROVE Unhindered(d, client'[d], worker'[d], lastTime)
  BY DEF GoesOn
<1>1. PICK left \in Survivors(c), synced \in BOOLEAN :
        /\ client' = [client EXCEPT ![d] = Open(left, synced)]
        /\ worker' = [worker EXCEPT ![d] = NewWorker]
  BY DEF Crash
<1>2. client'[d] = Open(left, synced) /\ worker'[d] = NewWorker
  BY <1>1 DEF SyncInv
<1>3. ClientOK(composed, d, c)
  BY DEF SyncInv
<1> HIDE DEF c, w
<1>4. IsClient(c) /\ Fit(Envelope(c), lastTime)
  BY <1>3, LatestOK DEF ClientOK, Unhindered
<1>5. Becomes(c, Open(left, synced), Envelope(c))
  <2>1. left \in {c} \cup {[c EXCEPT !.disk = <<@[i]>>] : i \in DOMAIN c.disk}
    BY DEF Survivors
  <2> QED BY <1>4, <2>1, OpenMove
<1>6. ~NewWorker.halted /\ NewWorker.result = None /\ NewWorker.request = None
  BY DEF NewWorker
<1> QED BY <1>2, <1>4, <1>5, <1>6, UnhinderedMoves

LEMMA ReopenGoesOn ==
  ASSUME SyncInv, NEW d \in Device, Reopen(d)
  PROVE  GoesOn(d)
<1> DEFINE c == client[d]
           w == worker[d]
           w2 == [w EXCEPT !.discard = w.request # None]
<1> SUFFICES ASSUME Unhindered(d, c, w, lastTime) PROVE Unhindered(d, client'[d], worker'[d], lastTime)
  BY DEF GoesOn
<1>1. PICK synced \in BOOLEAN :
        /\ client' = [client EXCEPT ![d] = Open(@, synced)]
        /\ worker' = [worker EXCEPT ![d].discard = worker[d].request # None]
  BY DEF Reopen
<1> DEFINE c2 == Open(c, synced)
<1>2. client'[d] = c2 /\ worker'[d] = w2
  BY <1>1 DEF SyncInv
<1>3. ClientOK(composed, d, c) /\ DOMAIN w = {"request", "result", "halted", "discard"}
  BY DEF SyncInv, WorkerOK
<1> HIDE DEF c, w
<1>4. IsClient(c) /\ Fit(Envelope(c), lastTime)
  BY <1>3, LatestOK DEF ClientOK, Unhindered
<1>5. Becomes(c, c2, Envelope(c))
  BY <1>4, OpenMove
<1>6. Envelope(c2) = Envelope(c)
  BY OneLog DEF Open, Envelope
<1> HIDE DEF c2
<1>7. SameGround(Envelope(c), Envelope(c2))
  BY <1>6, SameIsGround
<1>8. /\ Quiet(w, w2) /\ ~w2.halted /\ (w2.result # None => w2.result.reason \in {None, "Network"})
  BY <1>3 DEF Quiet, Answer, Unhindered
<1> HIDE DEF w2
<1> QED BY <1>2, <1>4, <1>5, <1>7, <1>8, UnhinderedMoves

\* What a device confirmed, and what it is answered, is of the server's generation.
LEMMA ServedGeneration ==
  ASSUME SyncInv, Numbered(state.snapshot, history),
         NEW s, IsSnapshot(s), Tipped(s), Begins(s.history, state.snapshot.history)
  PROVE  /\ s.generation = state.snapshot.generation /\ s.revision <= state.snapshot.revision
         /\ s.revision \in DOMAIN history /\ history[s.revision] = s.history
<1>1. Ancestry(state, history) /\ IsSnapshot(state.snapshot)
  BY DEF SyncInv, Stored, Good, Sound, IsState
<1> QED BY <1>1, TippedRow

\* A worker that nothing hinders takes what it is handed.
LEMMA TakenGoesOn ==
  ASSUME AbsentIsNoCheckpoint, NEW made, NEW d, NEW c, ClientOK(made, d, c),
         NEW w, WorkerOK(made, d, w), NEW saved \in {"ok", "after", "before"},
         NEW time, Unhindered(d, c, w, time),
         Answer(w) => w.result.response.snapshot.generation = Envelope(c).confirmed.generation
  PROVE  LET t == Taken(c, w, saved)
         IN /\ \E x : Becomes(c, t.client, x) /\ Fit(x, time)
            /\ DOMAIN t.worker = {"request", "result", "halted", "discard"} /\ ~t.worker.halted
            /\ \/ t.worker = w /\ t.client = c
               \/ t.worker.request = None /\ t.worker.result = None
<1> DEFINE e == Envelope(c)
           t == Taken(c, w, saved)
           q == w.request
           p == w.result.response
           idle == Idle(w)
<1>1. IsClient(c) /\ EnvelopeOK(made, d, e) /\ Fit(e, time)
  BY LatestOK DEF ClientOK, Unhindered
<1>2. /\ DOMAIN w = {"request", "result", "halted", "discard"} /\ ~w.halted
      /\ w.result # None => w.result.reason \in {None, "Network"}
      /\ q # None => About(d, e, q)
      /\ Answer(w) => Fitting(d, e, q, p, time)
  BY DEF WorkerOK, Unhindered
<1>3. /\ DOMAIN idle = {"request", "result", "halted", "discard"} /\ ~idle.halted
      /\ idle.request = None /\ idle.result = None
  BY <1>2 DEF Idle
<1>4. CASE q = None \/ w.result = None
  <2>1. t.client = c /\ t.worker = w
    BY <1>4 DEF Taken
  <2>2. Becomes(c, c, e)
    BY <1>1 DEF Becomes
  <2> HIDE DEF t, e
  <2> QED BY <1>1, <1>2, <2>1, <2>2 DEF t
<1>5. CASE q # None /\ w.result # None /\ (w.discard \/ w.result.reason = "Network")
  <2>1. t.client = NetworkFailed(c) /\ t.worker = idle
    BY <1>5 DEF Taken
  <2>2. Becomes(c, NetworkFailed(c), e)
    BY <1>1, ForgetMove
  <2> HIDE DEF t, idle, e
  <2> QED BY <1>1, <1>3, <2>1, <2>2 DEF t
<1>6. CASE q # None /\ w.result # None /\ ~w.discard /\ w.result.reason # "Network"
  <2>1. Answer(w) /\ w.result.reason = None
    BY <1>2, <1>6 DEF Answer
  <2>2. ResponseOK(q, p)
    BY <1>6, <2>1 DEF WorkerOK
  <2>3. About(d, e, q) /\ Fitting(d, e, q, p, time) /\ p.snapshot.generation = e.confirmed.generation
    BY <1>2, <1>6, <2>1
  <2> HIDE DEF t, idle, e, q, p
  <2>4. Answers(e, q, p) /\ Extends(e, p) /\ p.snapshot.initialized
    BY <1>1, <2>2, <2>3, FittingAnswers DEF Fit
  <2>5. IsSnapshot(p.snapshot) /\ p.time \in Nat
    BY <2>2 DEF ResponseOK
  <2> DEFINE x == Reconciled(e, q, p)
  <2>6. EnvelopeValid(x) /\ Fit(x, time)
    BY <1>1, <2>3, <2>4, <2>5, ReconciledFit
  <2>7. ~Quarantined(e)
    BY <1>1, SyncConstants DEF Fit, Quarantined
  <2>8. CanAccept(c, q, p)
    BY <2>4, <2>6, <2>7 DEF CanAccept, e
  <2> HIDE DEF x
  <2>9. t.client = Accept(c, q, p, saved) /\ t.worker = idle
    BY <1>6, <2>1, <2>8 DEF Taken, t, idle, q, p
  <2>10. Becomes(c, Accept(c, q, p, saved), x)
    BY <1>1, <2>5, AcceptMove DEF e, x
  <2> QED BY <1>3, <2>6, <2>9, <2>10 DEF t
<1> QED BY <1>4, <1>5, <1>6

LEMMA TickGoesOn ==
  ASSUME AbsentIsNoCheckpoint, LedgerInv, Numbered(state.snapshot, history),
         NEW d \in Device, Tick(d)
  PROVE  GoesOn(d)
<1> DEFINE c == client[d]
           w == worker[d]
<1> SUFFICES ASSUME Unhindered(d, c, w, lastTime) PROVE Unhindered(d, client'[d], worker'[d], lastTime)
  BY DEF GoesOn
<1>1. PICK saved \in SaveResult, synced \in BOOLEAN, due \in BOOLEAN :
        TickWith(d, saved, synced, due)
  BY DEF Tick
<1> DEFINE t == Taken(c, w, saved)
           ready == IF t.return THEN t.client ELSE Resync(t.client, synced)
           request == NextRequest(ready, TokenOf(d))
           sends == /\ due /\ ~t.return /\ ~t.worker.halted
                    /\ t.worker.request = None /\ CanRequest(ready)
           w2 == IF sends THEN [t.worker EXCEPT !.request = request] ELSE t.worker
<1>2. client' = [client EXCEPT ![d] = ready] /\ worker' = [worker EXCEPT ![d] = w2]
  BY <1>1 DEF TickWith
<1>3. client'[d] = ready /\ worker'[d] = w2
  <2> HIDE DEF ready, w2
  <2> QED BY <1>2 DEF LedgerInv, SyncInv
<1>4. /\ ClientOK(composed, d, c) /\ WorkerOK(composed, d, w) /\ saved \in {"ok", "after", "before"}
      /\ Known(receipts, state.snapshot.history, Envelope(c))
      /\ Informed(receipts, state.snapshot.history, w) /\ SyncInv
  BY LedgerFacts DEF LedgerInv, SyncInv, SaveResult, InStep, env
<1> HIDE DEF c, w
<1>5. ASSUME Answer(w) PROVE w.result.response.snapshot.generation = Envelope(c).confirmed.generation
  <2> DEFINE e == Envelope(c)
             p == w.result.response
  <2>1. /\ Begins(p.snapshot.history, state.snapshot.history) /\ IsSnapshot(p.snapshot)
        /\ Tipped(p.snapshot)
    BY <1>4, <1>5 DEF Informed, WorkerOK, ResponseOK, Answer, Unhindered, Fitting
  <2>2. IsSnapshot(e.confirmed) /\ Tipped(e.confirmed) /\ Begins(e.confirmed.history, state.snapshot.history)
    BY <1>4, LatestOK DEF EnvelopeOK, IsEnvelope, Known, Unhindered, Fit
  <2> HIDE DEF e, p
  <2>3. /\ p.snapshot.generation = state.snapshot.generation
        /\ e.confirmed.generation = state.snapshot.generation
    BY <1>4, <2>1, <2>2, ServedGeneration
  <2> QED BY <2>3 DEF e, p
<1>6. /\ \E x : Becomes(c, t.client, x) /\ Fit(x, lastTime)
      /\ DOMAIN t.worker = {"request", "result", "halted", "discard"} /\ ~t.worker.halted
      /\ \/ t.worker = w /\ t.client = c
         \/ t.worker.request = None /\ t.worker.result = None
  BY <1>4, <1>5, TakenGoesOn
<1> HIDE DEF t
<1>7. PICK x : Becomes(c, t.client, x) /\ Fit(x, lastTime)
  BY <1>6
<1>8. IsClient(c) /\ (w.request = None => w.result = None)
      /\ (w.result # None => w.result.reason \in {None, "Network"})
  BY <1>4 DEF ClientOK, WorkerOK, Unhindered
<1>9. Becomes(c, ready, x) /\ Envelope(ready) = Envelope(t.client)
  BY <1>7, <1>8, ResyncMove
<1> HIDE DEF ready
<1>10. t.worker.request # None => Quiet(w, t.worker) /\ SameGround(Envelope(c), Envelope(ready))
  BY <1>6, <1>9, SameIsGround DEF Quiet
<1>11. Unhindered(d, ready, t.worker, lastTime)
  BY <1>6, <1>7, <1>8, <1>9, <1>10, UnhinderedMoves
<1>12. CASE ~sends
  BY <1>3, <1>11, <1>12
<1>13. CASE sends
  <2>1. t.worker.request = None /\ t.worker.result = None
    BY <1>6, <1>8, <1>13
  <2>2. w2 = [t.worker EXCEPT !.request = request]
    BY <1>13
  <2>3. About(d, Envelope(ready), request)
    BY DEF About, NextRequest
  <2> HIDE DEF request
  <2>4. w2.request = request /\ w2.result = None /\ ~w2.halted
    BY <1>6, <2>1, <2>2
  <2> HIDE DEF w2
  <2>5. ~Answer(w2)
    BY <2>4 DEF Answer
  <2> QED BY <1>3, <1>11, <2>3, <2>4, <2>5 DEF Unhindered
<1> QED BY <1>12, <1>13

(***************************************************************************)
(* What the server answers                                                 *)
(***************************************************************************)
\* A request that was served leaves the server as it must be.
LEMMA ExchangeServing ==
  ASSUME SyncInv, Serving, NEW q, RequestOK(composed, q), NEW now \in 0..MaxTime,
         Exchange(q, now), composed' = composed
  PROVE  Serving' /\ lastTime \in Nat /\ lastTime' \in Nat /\ lastTime <= lastTime'
<1> DEFINE c == q.command
           later == ServerTime(now)
           s == state.snapshot
<1>1. /\ Stored /\ now \in Nat /\ lastTime \in Nat /\ later \in Nat
      /\ c \in Command \cup {None} /\ Sound(state)
  <2>1. Stored /\ now \in Nat /\ c \in Command \cup {None}
    BY SyncConstants DEF SyncInv, RequestOK
  <2>2. lastTime \in Nat /\ Sound(state)
    BY <2>1 DEF Stored, IsDatabase, database, Good
  <2> QED BY <2>1, <2>2 DEF ServerTime
<1>2. Timed(state', receipts', roots', lastTime') /\ lastTime <= lastTime' /\ lastTime' = later
  <2>1. roots' = roots /\ lastTime' = later
    BY DEF Exchange
  <2> QED BY <1>1, <2>1, ExchangeTimed DEF Serving
<1> HIDE DEF later
<1>3. Remembered(composed, receipts')
  <2>1. CASE c = None \/ c.id \in DOMAIN receipts
    BY <2>1 DEF Exchange, Serving
  <2>2. CASE ~(c = None \/ c.id \in DOMAIN receipts)
    <3> DEFINE outcome == Outcome(c, later)
    <3>1. receipts' = [x \in DOMAIN receipts \cup {c.id} |->
             IF x = c.id THEN [device |-> q.device, command |-> c, outcome |-> outcome]
             ELSE receipts[x]]
      BY <2>2 DEF Exchange, Execute, later
    <3>2. Meant(composed, q.device, c)
      BY <2>2 DEF RequestOK
    <3> HIDE DEF outcome, c
    <3>3. /\ DOMAIN receipts' = DOMAIN receipts \cup {c.id}
          /\ receipts'[c.id].command = c /\ receipts'[c.id].device = q.device
          /\ \A x \in DOMAIN receipts : receipts'[x] = receipts[x]
      BY <2>2, <3>1
    <3>4. ASSUME NEW x \in DOMAIN receipts' \ {Founding.id}
          PROVE  receipts'[x].command.id = x /\ Meant(composed, receipts'[x].device, receipts'[x].command)
      <4>1. CASE x = c.id
        BY <3>2, <3>3, <4>1
      <4>2. CASE x # c.id
        BY <3>3, <3>4, <4>2 DEF Serving, Remembered
      <4> QED BY <4>1, <4>2
    <3> QED BY <3>4 DEF Remembered
  <2> QED BY <2>1, <2>2
<1>4. Numbered(state'.snapshot, history')
  <2>1. CASE UNCHANGED <<state, history>>
    BY <2>1 DEF Serving
  <2>2. CASE /\ c # None /\ Execute(q.device, c, later) /\ Outcome(c, later).status = "applied"
    <3> DEFINE outcome == Outcome(c, later)
               r == state'.snapshot
    <3>1. Refusal(state, c, later) = None /\ outcome.revision = s.revision + 1
      BY <2>2 DEF Outcome, Rejected, Applied
    <3>2. /\ state' = Apply(state, c, later)
          /\ history' = [i \in DOMAIN history \cup {outcome.revision} |->
                IF i = outcome.revision THEN Apply(state, c, later).snapshot.history
                ELSE history[i]]
      BY <2>2 DEF Execute
    <3> HIDE DEF outcome
    <3>3. DOMAIN history' = DOMAIN history \cup {s.revision + 1}
      BY <3>1, <3>2
    <3>4. c \in Command /\ c.id \in Token
      BY <1>1, <2>2, CommandKinds
    <3>5. Sound(state') /\ r.history = Append(s.history, Link(c.id, r)) /\ r.revision = s.revision + 1
      BY <1>1, <3>1, <3>2, <3>4, ApplySound
    <3>6. IsBody(r) /\ IsChain(s.history) /\ s.revision \in Nat
      BY <1>1, <3>5 DEF Sound, IsState, IsSnapshot, IsBody
    <3> HIDE DEF r, s, c
    <3>7. Numbered(r, history')
      BY <3>3, <3>4, <3>5, <3>6, NumberedLonger DEF Serving, s
    <3> QED BY <3>7 DEF r
  <2>3. CASE c = None \/ c.id \in DOMAIN receipts
    BY <2>1, <2>3 DEF Exchange
  <2>4. CASE ~(c = None \/ c.id \in DOMAIN receipts) /\ Outcome(c, later).status # "applied"
    BY <2>1, <2>4 DEF Exchange, Execute, later
  <2>5. CASE ~(c = None \/ c.id \in DOMAIN receipts) /\ Outcome(c, later).status = "applied"
    BY <2>2, <2>5 DEF Exchange, later
  <2> QED BY <2>3, <2>4, <2>5
<1> QED BY <1>1, <1>2, <1>3, <1>4 DEF Serving

\* The answer to a request fits the envelope it was made of.
LEMMA ResponseFits ==
  ASSUME LedgerInv, Serving, NEW d \in Device, NEW q, RequestOK(composed, q), q.device = d,
         NEW e, EnvelopeOK(composed, d, e), Fit(e, lastTime), About(d, e, q),
         Known(receipts, state.snapshot.history, e),
         NEW now \in 0..MaxTime, Exchange(q, now), composed' = composed
  PROVE  Fitting(d, e, q, Response(q), lastTime')
<1> DEFINE p == Response(q)
           c == q.command
           h == state.snapshot.history
           g == state'.snapshot.history
<1>1. SyncInv /\ Serving' /\ lastTime \in Nat /\ lastTime' \in Nat /\ lastTime <= lastTime'
  BY ExchangeServing DEF LedgerInv
<1>2. Stored' /\ Begins(h, g)
  <2>1. now \in Nat
    BY SyncConstants
  <2> QED BY <1>1, <2>1, HandledOK, ExchangeServes DEF SyncInv
<1>3. /\ IsSnapshot(state'.snapshot) /\ SnapshotValid(state'.snapshot) /\ IsChain(g)
      /\ IsChain(h) /\ OneEffect(state', receipts', roots') /\ Partial(receipts', CommandId, Receipt)
  <2>1. IsChain(h)
    BY <1>1 DEF SyncInv, Stored, Good, Sound, IsState, IsSnapshot
  <2> QED BY <1>2, <2>1 DEF Stored, Good, Sound, StateValid, IsState, IsSnapshot, IsDatabase, database
<1>4. Tipped(state'.snapshot) /\ Dated(state'.snapshot.focus.session, lastTime')
  BY <1>1 DEF Serving, Numbered, Timed, SessionOf
<1>5. /\ p.device = d /\ p.time = lastTime' /\ p.snapshot = state'.snapshot
      /\ c = None => p.receipt = None
      /\ c # None => p.receipt = [command |-> c.id, outcome |-> receipts'[c.id].outcome]
  BY DEF Response
<1> HIDE DEF p
<1>6. e.time \in Nat /\ e.time <= lastTime' /\ lastTime' <= lastTime'
  <2>1. e.time \in Nat /\ e.time <= lastTime
    BY DEF EnvelopeOK, IsEnvelope, Fit
  <2> QED BY <1>1, <2>1
<1>7. ASSUME c # None
      PROVE  /\ p.receipt # None /\ p.receipt.command = c.id
             /\ p.receipt.outcome.status = "applied" =>
                  p.receipt.outcome.revision \in (e.confirmed.revision + 1)..p.snapshot.revision
  <2> DEFINE outcome == receipts'[c.id].outcome
  <2>1. c.id \in DOMAIN receipts'
    BY <1>7 DEF Exchange, Execute
  <2>2. c.id \in CommandId /\ outcome \in ReceiptOutcome
    BY <1>3, <2>1 DEF Partial, Receipt
  <2>3. p.receipt.command = c.id /\ p.receipt.outcome = outcome
        /\ p.receipt \in [command : CommandId, outcome : ReceiptOutcome]
    BY <1>5, <1>7, <2>2
  <2>4. p.receipt # None
    BY <2>3, SyncConstants
  <2>5. ASSUME outcome.status = "applied"
        PROVE  outcome.revision \in (e.confirmed.revision + 1)..p.snapshot.revision
    <3>1. PICK i \in DOMAIN g : g[i].by = c.id /\ g[i].result.revision = outcome.revision
      BY <1>3, <2>1, <2>5 DEF OneEffect
    <3>2. /\ Len(g) \in Nat /\ DOMAIN g = 1..Len(g) /\ outcome.revision = i - 1
          /\ state'.snapshot.revision = Len(g) - 1
      BY <1>1, <1>3, <3>1, ChainLength DEF Serving, Numbered, Tipped
    <3> DEFINE k == e.confirmed.history
    <3>3. /\ IsChain(k) /\ Len(k) \in Nat /\ DOMAIN k = 1..Len(k) /\ Begins(k, h)
          /\ e.confirmed.revision = Len(k) - 1
      BY ChainLength DEF EnvelopeOK, IsEnvelope, IsSnapshot, Known, Fit, Tipped
    <3>4. Begins(k, g)
      BY <1>2, <1>3, <3>3, BeginsThrough
    <3>5. c.id \notin Applies(e.confirmed)
      <4>1. e.pending # <<>> /\ Head(e.pending) = c /\ e.pending \in Seq(Command)
        BY <1>7 DEF About, EnvelopeOK, IsEnvelope
      <4>2. 1 \in DOMAIN e.pending /\ e.pending[1] = c
        BY <4>1, EmptySeq, LenProperties, HeadTailProperties
      <4>3. c.id \in Ids(e.pending)
        BY <4>2 DEF Ids
      <4> QED BY <4>3 DEF Known
    <3>6. i \notin 1..Len(k)
      <4> SUFFICES ASSUME i \in 1..Len(k) PROVE FALSE
        OBVIOUS
      <4>1. k[i] = g[i]
        BY <3>4 DEF Begins
      <4>2. k[i].by \in Applies(e.confirmed)
        BY <3>3, AppliesAre
      <4> QED BY <3>1, <3>5, <4>1, <4>2
    <3> HIDE DEF k, outcome, g
    <3> QED BY <1>5, <3>1, <3>2, <3>3, <3>6
  <2> QED BY <2>3, <2>4, <2>5
<1> HIDE DEF c
<1>8. IF c = None THEN p.receipt = None
      ELSE /\ p.receipt # None /\ p.receipt.command = c.id
           /\ p.receipt.outcome.status = "applied" =>
                p.receipt.outcome.revision \in (e.confirmed.revision + 1)..p.snapshot.revision
  BY <1>5, <1>7
<1> QED BY <1>3, <1>4, <1>5, <1>6, <1>8 DEF Fitting, p, c

\* Nor has the server a reason to refuse it.
LEMMA NothingRefused ==
  ASSUME AbsentIsNoCheckpoint, LedgerInv, Serving, NEW d \in Device,
         d \in DOMAIN enrolled, enrolled[d].token = TokenOf(d), ~enrolled[d].revoked,
         NEW q, RequestOK(composed, q), q.device = d,
         Fit(env(d), lastTime), About(d, env(d), q)
  PROVE  ExchangeError(q) = None
<1> DEFINE e == env(d)
           c == q.command
           cp == q.checkpoint
<1>1. /\ SyncInv /\ IsEnvelope(e) /\ Known(receipts, state.snapshot.history, e) /\ IsMade(composed)
  BY LedgerFacts DEF LedgerInv
<1> HIDE DEF e
<1>2. cp = Checkpoint(e.confirmed) /\ cp # None /\ q.token = TokenOf(d)
  BY DEF About, Checkpoint, AbsentIsNoCheckpoint, e
<1>3. d \in Holders(q.token)
  BY <1>2 DEF Holders
<1>4. CheckpointRefusal(cp) = None
  <2>1. IsSnapshot(e.confirmed) /\ Tipped(e.confirmed) /\ Begins(e.confirmed.history, state.snapshot.history)
    BY <1>1 DEF IsEnvelope, Known, Fit, e
  <2>2. /\ e.confirmed.generation = state.snapshot.generation
        /\ e.confirmed.revision <= state.snapshot.revision /\ e.confirmed.revision \in DOMAIN history
        /\ history[e.confirmed.revision] = e.confirmed.history
    BY <1>1, <2>1, ServedGeneration DEF Serving
  <2>3. /\ cp.generation = e.confirmed.generation /\ cp.revision = e.confirmed.revision
        /\ cp.history = e.confirmed.history
    BY <1>2 DEF Checkpoint
  <2> HIDE DEF cp
  <2> QED BY <2>2, <2>3 DEF CheckpointRefusal, ??, Require
<1>5. ReceiptRefusal(q.device, c) = None
  <2> SUFFICES ASSUME c # None, c.id \in DOMAIN receipts
               PROVE  receipts[c.id].device = q.device /\ receipts[c.id].command = c
    BY DEF ReceiptRefusal, Require
  <2>1. Meant(composed, q.device, c) /\ c.id # Founding.id
    BY <1>1 DEF RequestOK, Meant, IsMade
  <2>2. /\ receipts[c.id].command.id = c.id
        /\ Meant(composed, receipts[c.id].device, receipts[c.id].command)
    BY <2>1 DEF Serving, Remembered
  <2> QED BY <2>1, <2>2 DEF Meant
<1> HIDE DEF c, cp
<1>6. Require(c = None \/ cp # None, "Invalid") = None
  BY <1>2 DEF Require
<1>7. Require(q.device \in Holders(q.token), "Unauthorized") = None
  BY <1>3 DEF Require
<1> QED BY <1>4, <1>5, <1>6, <1>7 DEF ExchangeError, ??, c, cp

LEMMA RememberedMore ==
  ASSUME NEW made, NEW more, Grows(made, more), NEW rc, Remembered(made, rc)
  PROVE  Remembered(more, rc)
BY DEF Grows, Remembered, Meant

\* A step of one device.
LEMMA DeviceSmooth ==
  ASSUME SyncInv, Smooth, NEW d \in Device, GoesOn(d), NEW c2, NEW w2,
         Only(d, client, client', c2), Only(d, worker, worker', w2),
         Grows(composed, composed'), UNCHANGED serverVars
  PROVE  Smooth'
<1>1. UNCHANGED <<state, history, receipts, lastTime, roots, enrolled>>
  BY DEF serverVars, server
<1>2. Serving'
  BY <1>1, RememberedMore DEF Smooth, Serving
<1>3. ASSUME NEW x \in Device, ~enrolled[x].revoked
      PROVE  Unhindered(x, client'[x], worker'[x], lastTime)
  <2>1. Unhindered(x, client[x], worker[x], lastTime)
    BY <1>3 DEF Smooth
  <2>2. CASE x = d
    BY <2>1, <2>2 DEF GoesOn
  <2>3. CASE x # d
    BY <2>1, <2>3 DEF Only
  <2> QED BY <2>2, <2>3
<1> QED BY <1>1, <1>2, <1>3 DEF Smooth

LEMMA AsksSmooth ==
  ASSUME SyncInv, Smooth, NEW d \in Device, NEW command, NEW saved, Asks(d, command, saved)
  PROVE  Smooth'
<1>1. PICK c2 : client' = [client EXCEPT ![d] = c2] /\ Grows(composed, composed')
  BY EnqueueMove DEF Asks
<1>2. UNCHANGED <<serverVars, worker>>
  BY DEF Asks, Enqueue
<1>3. Only(d, client, client', c2) /\ Only(d, worker, worker', worker[d])
  BY <1>1, <1>2, OnlyOne DEF SyncInv
<1>4. GoesOn(d)
  BY EnqueueGoesOn
<1> QED BY <1>1, <1>2, <1>3, <1>4, DeviceSmooth

LEMMA TurnsSmooth ==
  ASSUME SyncInv, Smooth, NEW d \in Device, GoesOn(d),
         \E c2, w2, x, gone : Turns(d, c2, w2, x, gone)
  PROVE  Smooth'
<1>1. PICK c2, w2 : /\ client' = [client EXCEPT ![d] = c2] /\ worker' = [worker EXCEPT ![d] = w2]
                    /\ UNCHANGED <<serverVars, composed>>
  BY DEF Turns
<1>2. Only(d, client, client', c2) /\ Only(d, worker, worker', w2)
  BY <1>1, OnlyOne DEF SyncInv
<1>3. Grows(composed, composed')
  BY <1>1 DEF Grows
<1> QED BY <1>1, <1>2, <1>3, DeviceSmooth

LEMMA TickSmooth ==
  ASSUME AbsentIsNoCheckpoint, LedgerInv, Smooth, NEW d \in Device, Tick(d)
  PROVE  Smooth'
<1>1. GoesOn(d) /\ SyncInv
  BY TickGoesOn DEF Smooth, Serving, LedgerInv
<1>2. PICK c2, w2 : /\ client' = [client EXCEPT ![d] = c2] /\ worker' = [worker EXCEPT ![d] = w2]
                    /\ UNCHANGED <<serverVars, composed>>
  BY DEF Tick, TickWith
<1>3. Only(d, client, client', c2) /\ Only(d, worker, worker', w2)
  BY <1>1, <1>2, OnlyOne DEF SyncInv
<1>4. Grows(composed, composed')
  BY <1>2 DEF Grows
<1> QED BY <1>1, <1>2, <1>3, <1>4, DeviceSmooth

\* A worker is handed what can be taken.
Heard(x) ==
  /\ worker'[x] = [worker[x] EXCEPT !.result = worker'[x].result]
  /\ worker'[x].result.reason \in {None, "Network"}
  /\ ~enrolled[x].revoked /\ Answer(worker'[x]) =>
       Fitting(x, env(x), worker[x].request, worker'[x].result.response, lastTime')

\* The server goes on, and one worker may be handed what it waits for.
LEMMA ServerSmooth ==
  ASSUME SyncInv, Smooth, Serving', lastTime' \in Nat, lastTime <= lastTime',
         UNCHANGED <<client, composed, enrolled>>,
         \A x \in Device : worker'[x] = worker[x] \/ Heard(x)
  PROVE  Smooth'
<1>0. lastTime \in Nat
  BY DEF SyncInv, Stored, IsDatabase, database
<1>1. ASSUME NEW x \in Device, ~enrolled[x].revoked
      PROVE  Unhindered(x, client[x], worker'[x], lastTime')
  <2> DEFINE c == client[x]
             w == worker[x]
             w2 == worker'[x]
  <2>1. /\ Unhindered(x, c, w, lastTime)
        /\ ClientOK(composed, x, c) /\ WorkerOK(composed, x, w)
    BY <1>1 DEF Smooth, SyncInv
  <2>2. env(x) = Envelope(c)
    BY DEF env
  <2> HIDE DEF c, w
  <2>3. Unhindered(x, c, w, lastTime')
    BY <1>0, <2>1, UnhinderedLater
  <2>4. CASE w2 = worker[x]
    BY <2>3, <2>4 DEF c, w
  <2>5. CASE Heard(x)
    <3>1. /\ w2 = [w EXCEPT !.result = w2.result] /\ w2.result.reason \in {None, "Network"}
          /\ Answer(w2) => Fitting(x, Envelope(c), w.request, w2.result.response, lastTime')
      BY <1>1, <2>2, <2>5 DEF w, Heard
    <3> HIDE DEF w2
    <3>2. w2.request = w.request /\ w2.halted = w.halted
      BY <2>1, <3>1 DEF WorkerOK
    <3>3. Unhindered(x, c, w2, lastTime')
      BY <2>3, <3>1, <3>2 DEF Unhindered
    <3> QED BY <3>3 DEF c, w2
  <2> QED BY <2>4, <2>5
<1>2. UNCHANGED <<client, enrolled>>
  OBVIOUS
<1> QED BY <1>1, <1>2 DEF Smooth

LEMMA ServeSmooth ==
  ASSUME LedgerInv, Smooth, NEW d \in Device, NEW now \in 0..MaxTime, Serve(d, now) \/ ServeUnheard(d, now)
  PROVE  Smooth'
<1> DEFINE q == worker[d].request
           e == env(d)
<1>1. /\ q # None /\ Exchange(q, now) /\ SyncInv /\ Serving
      /\ UNCHANGED <<client, composed>> /\ enrolled' = enrolled
  BY DEF Serve, ServeUnheard, Handled, Waiting, LedgerInv, Smooth, Exchange
<1>2. RequestOK(composed, q) /\ q.device = d
  BY <1>1 DEF SyncInv, WorkerOK
<1> HIDE DEF q
<1>3. Serving' /\ lastTime' \in Nat /\ lastTime <= lastTime'
  BY <1>1, <1>2, ExchangeServing
<1>4. ~enrolled[d].revoked => Fitting(d, e, q, Response(q), lastTime')
  <2> SUFFICES ASSUME ~enrolled[d].revoked PROVE Fitting(d, e, q, Response(q), lastTime')
    OBVIOUS
  <2>1. EnvelopeOK(composed, d, e) /\ e \in Entries(client[d].disk)
    BY <1>1, LatestOK DEF SyncInv, env
  <2>2. Fit(e, lastTime) /\ About(d, e, q)
    BY <1>1, <2>1 DEF Smooth, Unhindered, env, q
  <2>3. Known(receipts, state.snapshot.history, e)
    BY LedgerFacts
  <2> HIDE DEF e
  <2> QED BY <1>1, <1>2, <2>1, <2>2, <2>3, ResponseFits
<1>5. PICK result : /\ Answered(d, result) /\ result.reason \in {None, "Network"}
                    /\ result.reason = None => result.response = Response(q)
  <2>1. CASE Serve(d, now)
    <3> DEFINE result == [reason |-> None, response |-> Response(q)]
    <3>1. Answered(d, result)
      BY <2>1 DEF Serve, q
    <3>2. result.reason = None /\ result.response = Response(q)
      OBVIOUS
    <3> HIDE DEF result
    <3> QED BY <3>1, <3>2
  <2>2. CASE ServeUnheard(d, now)
    BY <2>2, SyncConstants DEF ServeUnheard, Lost
  <2> QED BY <2>1, <2>2
<1>6. /\ \A x \in Device \ {d} : worker'[x] = worker[x]
      /\ worker'[d] = [worker[d] EXCEPT !.result = result]
  BY <1>1, <1>5 DEF Answered, SyncInv
<1>7. worker'[d].result = result
  <2>1. WorkerOK(composed, d, worker[d])
    BY <1>1 DEF SyncInv
  <2> QED BY <1>6, <2>1 DEF WorkerOK
<1>8. ~enrolled[d].revoked /\ Answer(worker'[d]) =>
        Fitting(d, e, worker[d].request, worker'[d].result.response, lastTime')
  BY <1>4, <1>5, <1>7 DEF Answer, q
<1> HIDE DEF e
<1>9. Heard(d)
  BY <1>5, <1>6, <1>7, <1>8 DEF Heard, e
<1> QED BY <1>1, <1>3, <1>6, <1>9, ServerSmooth

LEMMA UnservedSmooth ==
  ASSUME AbsentIsNoCheckpoint, LedgerInv, Smooth, NEW d \in Device, Refuse(d) \/ Lose(d)
  PROVE  Smooth'
<1>1. UNCHANGED <<state, history, receipts, lastTime, roots, enrolled, client, composed>>
  BY DEF Refuse, Lose, serverVars, server
<1>2. SyncInv /\ Serving' /\ lastTime' \in Nat /\ lastTime <= lastTime'
  <2>1. SyncInv /\ lastTime \in Nat
    BY DEF LedgerInv, SyncInv, Stored, IsDatabase, database
  <2> QED BY <1>1, <2>1 DEF Smooth, Serving
<1>3. PICK result : /\ Answered(d, result) /\ result.reason # None
                    /\ result.reason = "Network" \/ Refuse(d)
                    /\ worker[d].request # None
  <2>1. CASE Refuse(d)
    <3> DEFINE result == [reason |-> ExchangeError(worker[d].request), response |-> None]
    <3>1. Answered(d, result) /\ result.reason # None
      BY <2>1 DEF Refuse
    <3> HIDE DEF result
    <3> QED BY <2>1, <3>1 DEF Refuse, Waiting
  <2>2. CASE Lose(d)
    BY <2>2, SyncConstants DEF Lose, Lost, Waiting
  <2> QED BY <2>1, <2>2
<1>4. \A x \in Device : WorkerOK(composed, x, worker[x]) /\ ClientOK(composed, x, client[x])
  BY <1>2 DEF SyncInv
<1>5. /\ \A x \in Device \ {d} : worker'[x] = worker[x]
      /\ worker'[d] = [worker[d] EXCEPT !.result = result] /\ worker'[d].result = result
  BY <1>2, <1>3, <1>4 DEF Answered, SyncInv, WorkerOK
<1>6. ~enrolled[d].revoked => result.reason = "Network"
  <2> SUFFICES ASSUME ~enrolled[d].revoked, Refuse(d) PROVE FALSE
    BY <1>3
  <2>1. Unhindered(d, client[d], worker[d], lastTime) /\ env(d) \in Entries(client[d].disk)
    BY <1>4, LatestOK DEF Smooth, env
  <2>2. /\ Fit(env(d), lastTime) /\ About(d, env(d), worker[d].request)
        /\ RequestOK(composed, worker[d].request) /\ worker[d].request.device = d
    BY <1>3, <1>4, <2>1 DEF Unhindered, env, WorkerOK
  <2>3. ExchangeError(worker[d].request) = None
    BY <2>2, NothingRefused DEF Smooth
  <2> QED BY <2>3 DEF Refuse
<1>7. ~Answer(worker'[d])
  BY <1>3, <1>5 DEF Answer
<1>8. CASE enrolled[d].revoked
  <2>1. ASSUME NEW x \in Device, ~enrolled[x].revoked
        PROVE  Unhindered(x, client'[x], worker'[x], lastTime')
    <3>1. x # d
      BY <1>8, <2>1
    <3> QED BY <1>1, <1>5, <2>1, <3>1 DEF Smooth
  <2> QED BY <1>1, <1>2, <2>1 DEF Smooth
<1>9. CASE ~enrolled[d].revoked
  <2>1. result.reason \in {None, "Network"}
    BY <1>6, <1>9
  <2>2. Heard(d)
    BY <1>5, <1>7, <2>1 DEF Heard
  <2>3. UNCHANGED <<client, composed, enrolled>>
    BY <1>1
  <2> QED BY <1>2, <1>5, <2>2, <2>3, ServerSmooth
<1> QED BY <1>8, <1>9

LEMMA ArriveSmooth ==
  ASSUME LedgerInv, Smooth, NEW now \in 0..MaxTime, Arrive(now)
  PROVE  Smooth'
<1>1. PICK q \in sent : Exchange(q, now) /\ UNCHANGED <<client, worker, composed>>
  BY DEF Arrive, devices
<1>2. SyncInv /\ RequestOK(composed, q) /\ Serving /\ enrolled' = enrolled
  BY <1>1 DEF LedgerInv, SyncInv, Smooth, Exchange
<1>3. Serving' /\ lastTime' \in Nat /\ lastTime <= lastTime'
  BY <1>1, <1>2, ExchangeServing
<1>4. UNCHANGED <<client, composed, enrolled>> /\ \A x \in Device : worker'[x] = worker[x]
  BY <1>1, <1>2
<1> QED BY <1>2, <1>3, <1>4, ServerSmooth

\* Revoking a token stops nobody else.
LEMMA OperatedSmooth ==
  ASSUME SyncInv, Smooth, restores = 0, restores' = 0, Operate
  PROVE  Smooth'
<1>1. /\ UNCHANGED <<state, history, receipts, lastTime, roots, client, worker, composed>>
      /\ enrolled' = enrolled \/ \E d \in Device : Revoke(d)
  BY DEF Operate, Revoke, Backup, server, devices
<1>2. Serving'
  BY <1>1 DEF Smooth, Serving
<1>3. \A x \in Device : /\ x \in DOMAIN enrolled' /\ enrolled'[x].token = enrolled[x].token
                        /\ enrolled[x].revoked => enrolled'[x].revoked
  <2>1. CASE enrolled' = enrolled
    BY <2>1 DEF Smooth
  <2>2. ASSUME NEW d \in Device, Revoke(d)
        PROVE  \A x \in Device : /\ x \in DOMAIN enrolled' /\ enrolled'[x].token = enrolled[x].token
                                 /\ enrolled[x].revoked => enrolled'[x].revoked
    <3>1. enrolled' = [enrolled EXCEPT ![d].revoked = TRUE] /\ d \in DOMAIN enrolled
      BY <2>2 DEF Revoke
    <3>2. enrolled[d] \in [token : Nat, revoked : BOOLEAN]
      BY <3>1 DEF SyncInv, Stored, IsDatabase, database, Partial
    <3>3. enrolled'[d].token = enrolled[d].token /\ enrolled'[d].revoked
      BY <3>1, <3>2
    <3>4. \A x \in Device \ {d} : enrolled'[x] = enrolled[x]
      BY <3>1 DEF Smooth
    <3>5. DOMAIN enrolled' = DOMAIN enrolled
      BY <3>1
    <3> QED BY <3>3, <3>4, <3>5 DEF Smooth
  <2> QED BY <1>1, <2>1, <2>2
<1> QED BY <1>1, <1>2, <1>3 DEF Smooth

\* What setup gives every device.
LEMMA NewEnvelopeFit ==
  ASSUME NEW d, NEW snap, IsSnapshot(snap), SnapshotValid(snap), Tipped(snap),
         snap.initialized, Dated(snap.focus.session, 0)
  PROVE  Fit(NewEnvelope(d, snap, 0), 0)
<1> DEFINE e == NewEnvelope(d, snap, 0)
           b == [device |-> d, confirmed |-> snap, time |-> 0, pending |-> <<>>,
                 handles |-> <<>>, nextHandle |-> 1, recovery |-> <<>>,
                 suspension |-> None, settled |-> None]
<1>1. /\ b.pending = <<>> /\ b.device = d /\ b.confirmed = snap /\ b.time = 0
      /\ b.suspension = None /\ b.settled = None /\ b.recovery = <<>>
      /\ b.handles = <<>> /\ b.nextHandle = 1 /\ DOMAIN b = EnvelopeFields
  BY DEF EnvelopeFields
<1>2. e = Registered(b)
  BY DEF NewEnvelope
<1> HIDE DEF b, e
<1>3. IsEnvelope(b)
  <2>1. <<>> \in Seq(Command) /\ <<>> \in Seq({}) /\ DOMAIN <<>> = {} /\ 0 \in Nat
    OBVIOUS
  <2> QED BY <1>1, <2>1 DEF IsEnvelope
<1>4. HandlesDrawn(b)
  <2>1. Fn!IsInjective(<<>>) /\ Fn!Range(<<>>) = {}
    BY DEF Fn!IsInjective, Fn!Range
  <2> QED BY <1>1, <2>1 DEF HandlesDrawn
<1>5. /\ IsEnvelope(e) /\ HandlesDrawn(e) /\ Required(e) \subseteq DOMAIN e.handles
      /\ \A f \in EnvelopeFields \ {"handles", "nextHandle"} : e[f] = b[f]
  BY <1>2, <1>3, <1>4, RegisteredHandled, RegisteredFacts
<1>6. /\ e.pending = <<>> /\ e.confirmed = snap /\ e.time = 0 /\ e.suspension = None
      /\ e.settled = None /\ e.recovery = <<>>
  BY <1>1, <1>5 DEF EnvelopeFields
<1>7. Intents(e) \in Seq(Command) /\ DOMAIN Intents(e) = {} /\ Len(Intents(e)) = 0
  <2>1. Len(e.pending) = 0 /\ Len(e.recovery) = 0
    BY <1>6
  <2>2. Intents(e) \in Seq(Command) /\ DOMAIN Intents(e) = 1..(0 + 0)
    BY <1>5, <2>1, IntentsAre
  <2> QED BY <2>2, LenProperties
<1>8. Cardinality(Ids(Intents(e))) = 0 /\ Cardinality({i \in DOMAIN e.pending : IsFocus(e.pending[i])}) = 0
  <2>1. Ids(Intents(e)) = {}
    BY <1>7 DEF Ids
  <2>2. {i \in DOMAIN e.pending : IsFocus(e.pending[i])} = {}
    BY <1>6
  <2> QED BY <2>1, <2>2, FS_EmptySet
<1>9. Len(e.pending) <= MaxPending
  BY <1>6, ClientConstants
<1>10. EnvelopeValid(e)
  BY <1>5, <1>6, <1>7, <1>8, <1>9 DEF EnvelopeValid, HandlesDrawn, Dated
<1>11. e.nextHandle \in Nat \ {0} /\ e.time <= 0
  BY <1>5, <1>6 DEF HandlesDrawn
<1> QED BY <1>6, <1>10, <1>11 DEF Fit, e

LEMMA SmoothStarts ==
  ASSUME Init
  PROVE  LedgerInv /\ Smooth
<1> DEFINE g == FreshIn(Generation, {})
           s == state.snapshot
           h == s.history
           root == Link(g, Empty.snapshot)
           l == Link(Founding.id, s)
<1>1. LedgerInv /\ SyncInv
  BY LedgerStarts, InitOK
<1>2. /\ g \in Generation /\ Empty = NewState(g) /\ roots = {g} /\ lastTime = 0 /\ composed = <<>>
      /\ Founding \in Command /\ Founding.id \in CommandId
      /\ Sound(Empty) /\ Empty.snapshot.revision = 0 /\ Empty.snapshot.history = <<root>>
  BY Foundation DEF Init
<1>3. Sound(state) /\ h = Append(<<root>>, l) /\ s.revision = 1 /\ state = Apply(Empty, Founding, 0)
  <2>1. state = Apply(Empty, Founding, 0)
    BY DEF Init
  <2> QED BY <1>2, <2>1, ApplySound, FoundingTaken
<1>4. /\ IsSnapshot(s) /\ SnapshotValid(s) /\ IsBody(s) /\ IsBody(Empty.snapshot)
  BY <1>2, <1>3 DEF Sound, StateValid, IsState, IsSnapshot
<1>5. root.result.revision = 0 /\ l.result.revision = 1 /\ l = Link(l.by, s)
  BY <1>2, <1>3, <1>4 DEF Link, IsBody
<1> HIDE DEF g, root, l
<1>6. Len(h) = 2 /\ h[1] = root /\ h[2] = l /\ DOMAIN h = {1, 2}
  BY <1>3
<1>7. Numbered(s, history)
  <2>1. DOMAIN history = 0..1
    BY DEF Init
  <2> HIDE DEF s
  <2> QED BY <1>3, <1>5, <1>6, <2>1 DEF Numbered, Tipped
<1>8. Timed(state, receipts, roots, lastTime)
  <2>1. Timed(Empty, <<>>, roots, 0)
    BY <1>2, NewTimed
  <2>2. DOMAIN receipts = DOMAIN <<>> \cup {Founding.id}
    BY DEF Init
  <2>3. Founding.id \notin DOMAIN <<>> \cup roots
    BY <1>2, DistinctValues
  <2> DEFINE none == <<>>
  <2> HIDE DEF none
  <2>4. Timed(Empty, none, roots, 0) /\ DOMAIN receipts = DOMAIN none \cup {Founding.id}
        /\ Founding.id \notin DOMAIN none \cup roots /\ 0 \in Nat /\ 0 <= 0
    BY <2>1, <2>2, <2>3 DEF none
  <2>5. Timed(Apply(Empty, Founding, 0), receipts, roots, 0)
    BY <1>2, <2>4, ApplyTimed, FoundingTaken
  <2> QED BY <1>2, <1>3, <2>5
<1>9. Remembered(composed, receipts)
  BY DEF Init, Remembered
<1>10. ASSUME NEW d \in Device
       PROVE  /\ d \in DOMAIN enrolled /\ enrolled[d].token = TokenOf(d)
              /\ Unhindered(d, client[d], worker[d], lastTime)
  <2> DEFINE e == NewEnvelope(d, s, 0)
  <2>1. enrolled[d] = [token |-> TokenOf(d), revoked |-> FALSE] /\ d \in DOMAIN enrolled
    BY DEF Init
  <2>2. client[d].disk = <<e>> /\ worker[d] = NewWorker
    BY DEF Init
  <2>3. s.initialized /\ Dated(s.focus.session, 0) /\ Tipped(s)
    <3>1. s.initialized
      BY <1>3, <1>4 DEF SnapshotValid, StartedOnce
    <3> QED BY <1>2, <1>7, <1>8, <3>1 DEF Timed, SessionOf, Numbered
  <2>4. Fit(e, lastTime)
    BY <1>2, <1>4, <2>3, NewEnvelopeFit
  <2> HIDE DEF e, s
  <2>5. Entries(client[d].disk) = {e}
    BY <2>2, OneLog
  <2> QED BY <2>1, <2>2, <2>4, <2>5 DEF Unhindered, NewWorker, Answer
<1> HIDE DEF s
<1> QED BY <1>1, <1>7, <1>8, <1>9, <1>10 DEF Smooth, Serving, s

\* Nothing but a restore or a revoked token hinders a device.
LEMMA SmoothSteps ==
  ASSUME AbsentIsNoCheckpoint, LedgerInv, Smooth, [Next]_vars, restores' = 0
  PROVE  LedgerInv' /\ Smooth'
<1>0. SyncInv /\ restores = 0
  BY DEF LedgerInv
<1>1. LedgerInv'
  BY LedgerSteps
<1>2. ASSUME NEW d \in Device, Edit(d) \/ Focus(d) PROVE Smooth'
  <2>1. PICK command, saved : Asks(d, command, saved)
    BY <1>0, <1>2, EditAsks, FocusAsks
  <2> QED BY <1>0, <2>1, AsksSmooth
<1>3. ASSUME NEW d \in Device, Dismiss(d) \/ Retry(d) \/ Crash(d) \/ Reopen(d) PROVE Smooth'
  <2>1. \E c2, w2, x, gone : Turns(d, c2, w2, x, gone)
    BY <1>0, <1>3, DismissTurns, RetryTurns, CrashTurns, ReopenTurns
  <2>2. GoesOn(d)
    BY <1>0, <1>3, DismissGoesOn, RetryGoesOn, CrashGoesOn, ReopenGoesOn
  <2> QED BY <1>0, <2>1, <2>2, TurnsSmooth
<1>4. ASSUME NEW d \in Device, Tick(d) PROVE Smooth'
  BY <1>4, TickSmooth
<1>5. ASSUME NEW d \in Device, Refuse(d) \/ Lose(d) PROVE Smooth'
  BY <1>5, UnservedSmooth
<1>6. ASSUME NEW d \in Device, NEW now \in 0..MaxTime, Serve(d, now) \/ ServeUnheard(d, now)
      PROVE  Smooth'
  BY <1>6, ServeSmooth
<1>7. ASSUME NEW now \in 0..MaxTime, Arrive(now) PROVE Smooth'
  BY <1>7, ArriveSmooth
<1>8. CASE Operate
  BY <1>0, <1>1, <1>8, OperatedSmooth
<1>9. CASE UNCHANGED vars
  <2>1. UNCHANGED <<state, history, receipts, lastTime, roots, enrolled, client, worker, composed>>
    BY <1>9 DEF vars, serverVars, server, devices
  <2> QED BY <1>1, <2>1 DEF Smooth, Serving
<1> QED BY <1>1, <1>2, <1>3, <1>4, <1>5, <1>6, <1>7, <1>8, <1>9 DEF Next

\* While no backup came back and its token holds, a device goes on: whatever the network
\* loses, repeats or delays, whichever save fails and whenever a process dies or panics,
\* neither the worker halts nor the journal is suspended.
THEOREM SpecNeverHaltedWithoutCause ==
  ASSUME AbsentIsNoCheckpoint
  PROVE  Spec => []NeverHaltedWithoutCause
<1> DEFINE Inv == restores \in Nat /\ (restores = 0 => LedgerInv /\ Smooth)
<1>1. Init => Inv
  <2>1. Init => restores = 0
    BY DEF Init
  <2> QED BY <2>1, SmoothStarts
<1>2. Inv /\ [Next]_vars => Inv'
  <2> SUFFICES ASSUME Inv, [Next]_vars PROVE Inv'
    OBVIOUS
  <2>1. restores' \in Nat /\ (restores' = 0 => restores = 0)
    BY RestoresGrow
  <2>2. restores' = 0 => LedgerInv' /\ Smooth'
    BY <2>1, SmoothSteps
  <2> QED BY <2>1, <2>2
<1>3. Inv => NeverHaltedWithoutCause
  <2> SUFFICES ASSUME LedgerInv, Smooth, NEW d \in Device, ~enrolled[d].revoked
               PROVE  ~worker[d].halted /\ env(d).suspension = None
    BY DEF NeverHaltedWithoutCause
  <2>1. env(d) \in Entries(client[d].disk)
    BY LatestOK DEF LedgerInv, SyncInv, env
  <2>2. Unhindered(d, client[d], worker[d], lastTime)
    BY DEF Smooth
  <2> QED BY <2>1, <2>2 DEF Unhindered, Fit
<1> HIDE DEF Inv
<1> QED BY <1>1, <1>2, <1>3, PTL DEF Spec

(***************************************************************************)
(* Forecasts                                                               *)
(***************************************************************************)
\* Two records of a task, made at different times.
Alike(x, y) ==
  x.title = y.title /\ x.tag = y.tag /\ x.bucket = y.bucket /\ x.versions = y.versions

\* Two queues that look the same.
SameQueue(s, r) ==
  /\ s.generation = r.generation /\ s.initialized = r.initialized
  /\ s.order = r.order /\ Live(s) = Live(r)
  /\ \A t \in Live(s) : Alike(s.task[t], r.task[t])

\* Two states that look the same to whoever creates no task but those of `drawn`.
Agree(st, rt, drawn) ==
  /\ SameQueue(st.snapshot, rt.snapshot)
  /\ \A t \in drawn : t \in st.used <=> t \in rt.used

LEMMA AgreedRefusal ==
  ASSUME NEW st, NEW rt, NEW drawn, Agree(st, rt, drawn), NEW a \in Queued,
         a.op = "Create" => a.task \in drawn
  PROVE  QueuedRefusal(st, a) = QueuedRefusal(rt, a)
<1> DEFINE s == st.snapshot
           r == rt.snapshot
<1>1. Live(s) = Live(r) /\ \A t \in Live(s) : Alike(s.task[t], r.task[t])
  BY DEF Agree, SameQueue
<1>2. ASSUME NEW t, NEW bucket, NEW before
      PROVE  AnchorRefusal(s, t, bucket, before) = AnchorRefusal(r, t, bucket, before)
  <2>1. CASE before = None
    BY <2>1 DEF AnchorRefusal
  <2>2. CASE before # None /\ before.task \in Live(s)
    <3>1. /\ s.task[before.task].bucket = r.task[before.task].bucket
          /\ s.task[before.task].versions.placement = r.task[before.task].versions.placement
      BY <1>1, <2>2 DEF Alike
    <3> QED BY <1>1, <2>2, <3>1 DEF AnchorRefusal
  <2>3. CASE before # None /\ before.task \notin Live(s)
    <3> USE DistinctValues DEF Reason
    <3> QED BY <1>1, <2>3 DEF AnchorRefusal, Require, ??
  <2> QED BY <2>1, <2>2, <2>3
<1>3. CASE a.op = "Create"
  <2>1. a.task \in st.used <=> a.task \in rt.used
    BY <1>3 DEF Agree
  <2>2. CreateRefusal(st, a.task) = CreateRefusal(rt, a.task)
    BY <1>1, <2>1 DEF CreateRefusal, Require, ??
  <2> QED BY <1>3, <2>2 DEF QueuedRefusal
<1>4. CASE a.op # "Create" /\ a.task \notin Live(s)
  <2>1. "MissingTask" # None
    BY DistinctValues DEF Reason
  <2> QED BY <1>1, <1>4, <2>1 DEF QueuedRefusal, Require, ??
<1>5. CASE a.op # "Create" /\ a.task \in Live(s)
  <2>1. /\ s.task[a.task].versions = r.task[a.task].versions
        /\ s.task[a.task].bucket = r.task[a.task].bucket
    BY <1>1, <1>5 DEF Alike
  <2>2. a.op \in {"Rename", "SetTag", "MoveBefore", "Delete"}
    BY <1>5 DEF Queued
  <2>3. AnchorRefusal(s, a.task, a.bucket, a.before) = AnchorRefusal(r, a.task, a.bucket, a.before)
    BY <1>2
  <2>4. Require(a.task \in Live(s), "MissingTask") = Require(a.task \in Live(r), "MissingTask")
    BY <1>1
  <2>5. CASE a.op = "Rename"
    BY <2>1, <2>4, <2>5 DEF QueuedRefusal
  <2>6. CASE a.op = "SetTag"
    BY <2>1, <2>4, <2>6 DEF QueuedRefusal
  <2>7. CASE a.op = "MoveBefore"
    BY <2>1, <2>3, <2>4, <2>7 DEF QueuedRefusal
  <2>8. CASE a.op = "Delete"
    BY <2>1, <2>4, <2>8 DEF QueuedRefusal
  <2> QED BY <2>2, <2>5, <2>6, <2>7, <2>8
<1> QED BY <1>3, <1>4, <1>5

\* A task is put at the same place of two queues that look the same.
LEMMA AgreedPlace ==
  ASSUME NEW s, Listed(s), NEW r, Listed(r), SameQueue(s, r), NEW t \in Live(s),
         NEW bucket \in Bucket, NEW before \in (Live(s) \ {t}) \cup {None}, NEW command \in Token
  PROVE  SameQueue(Place(s, t, bucket, before, command), Place(r, t, bucket, before, command))
<1> DEFINE rest == RemoveAt(s.order, Position(s.order, t))
           ins == PlacesIn(rest, s.task, bucket, None)
           inr == PlacesIn(rest, r.task, bucket, None)
           p == Place(s, t, bucket, before, command)
           q == Place(r, t, bucket, before, command)
<1>1. /\ s.order = r.order /\ Live(s) = Live(r) /\ s.order \in Seq(TaskId)
      /\ Injective(s.order) /\ Elements(s.order) = Live(s)
      /\ \A u \in Live(s) : Alike(s.task[u], r.task[u])
  BY OrderedOnceIsElements DEF SameQueue, Listed, IsBody
<1>2. Elements(rest) = Live(s) \ {t}
  BY <1>1, RemoveElement
<1>3. ins = inr
  <2>1. \A i \in DOMAIN rest : rest[i] \in Live(s)
    <3> HIDE DEF rest
    <3> QED BY <1>2 DEF Elements
  <2> HIDE DEF rest
  <2> QED BY <1>1, <2>1 DEF PlacesIn, Alike
<1> DEFINE at(in) == IF before # None THEN Position(rest, before)
                     ELSE IF in = {} THEN Len(rest) + 1 ELSE Greatest(in) + 1
           Moved(x) == [x EXCEPT ![t].bucket = bucket, ![t].versions.placement = command]
<1>4. p.order = InsertAt(rest, at(ins), t) /\ q.order = InsertAt(rest, at(inr), t)
  BY <1>1 DEF Place, Listed, IsBody
<1>5. p.task = Moved(s.task) /\ q.task = Moved(r.task)
  BY DEF Place, Listed, IsBody
<1>6. Live(p) = Live(s) /\ Live(q) = Live(r)
  BY <1>5 DEF Live
<1>7. p.generation = s.generation /\ q.generation = r.generation
      /\ p.initialized = s.initialized /\ q.initialized = r.initialized
  <2>1. SameAround(p, s)
    BY PlaceFacts
  <2>2. SameAround(q, r)
    BY <1>1, PlaceFacts
  <2> QED BY <2>1, <2>2 DEF SameAround
<1>8. ASSUME NEW u \in Live(s) PROVE Alike(Moved(s.task)[u], Moved(r.task)[u])
  <2>1. /\ s.task[u] \in TaskRecord /\ r.task[u] \in TaskRecord
        /\ Alike(s.task[u], r.task[u]) /\ u \in DOMAIN s.task /\ u \in DOMAIN r.task
    BY <1>1 DEF Listed, IsBody, Partial, Live
  <2>2. CASE u # t
    BY <2>1, <2>2
  <2>3. CASE u = t
    <3> DEFINE x == s.task[t]
               y == r.task[t]
    <3>1. /\ Moved(s.task)[t] = [x EXCEPT !.bucket = bucket, !.versions.placement = command]
          /\ Moved(r.task)[t] = [y EXCEPT !.bucket = bucket, !.versions.placement = command]
      BY <2>1, <2>3
    <3>2. x \in TaskRecord /\ y \in TaskRecord /\ Alike(x, y)
      BY <2>1, <2>3
    <3> HIDE DEF x, y
    <3>3. Alike([x EXCEPT !.bucket = bucket, !.versions.placement = command],
                [y EXCEPT !.bucket = bucket, !.versions.placement = command])
      BY <3>2 DEF Alike, TaskRecord
    <3> QED BY <2>3, <3>1, <3>3
  <2> QED BY <2>2, <2>3
<1> HIDE DEF at, Moved, rest, ins, inr, p, q
<1>9. p.order = q.order
  BY <1>3, <1>4
<1>10. \A u \in Live(p) : Alike(p.task[u], q.task[u])
  BY <1>5, <1>6, <1>8
<1> QED BY <1>1, <1>6, <1>7, <1>9, <1>10 DEF SameQueue, p, q

\* An accepted edit that creates nothing is of a live task.
LEMMA EditedIsLive ==
  ASSUME NEW st, NEW a, a.op # "Create", QueuedRefusal(st, a) = None
  PROVE  a.task \in Live(st.snapshot)
<1>1. "MissingTask" # None
  BY DistinctValues DEF Reason
<1>2. a.task \notin Live(st.snapshot) => QueuedRefusal(st, a) = "MissingTask"
  BY <1>1 DEF QueuedRefusal, Require, ??
<1> QED BY <1>1, <1>2

\* The same edit, each at its own time.
LEMMA AgreedEdit ==
  ASSUME NEW st, Clean(st), NEW rt, Clean(rt), NEW drawn, Agree(st, rt, drawn),
         NEW a \in Queued, QueuedRefusal(st, a) = None, QueuedRefusal(rt, a) = None,
         NEW command \in Token, NEW m \in Nat, NEW n \in Nat
  PROVE  Agree(QueuedEffect(st, command, a, m), QueuedEffect(rt, command, a, n), drawn)
<1> DEFINE s == st.snapshot
           r == rt.snapshot
           p == QueuedEffect(st, command, a, m)
           q == QueuedEffect(rt, command, a, n)
<1>1. /\ StateShape(st) /\ StateShape(rt) /\ Shape(s) /\ Shape(r) /\ Listed(s) /\ Listed(r)
      /\ Partial(s.task, TaskId, TaskRecord) /\ Partial(r.task, TaskId, TaskRecord)
  BY DEF Clean, Base, Listed, IsBody, Shape
<1>2. /\ s.generation = r.generation /\ s.initialized = r.initialized /\ s.order = r.order
      /\ Live(s) = Live(r) /\ \A t \in Live(s) : Alike(s.task[t], r.task[t])
      /\ \A t \in drawn : t \in st.used <=> t \in rt.used
  BY DEF Agree, SameQueue
<1>3. CASE a.op = "Create"
  <2> DEFINE t == a.task
             New(f, time) == [u \in DOMAIN f \cup {t} |->
               IF u = t THEN [title |-> a.title, tag |-> a.tag, bucket |-> a.bucket,
                              created |-> time, versions |-> Versions(command)]
               ELSE f[u]]
  <2>1. /\ p = CreateTask(st, command, t, a.title, a.tag, a.bucket, m)
        /\ q = CreateTask(rt, command, t, a.title, a.tag, a.bucket, n)
    BY <1>3 DEF QueuedEffect
  <2>2. ASSUME NEW z, StateShape(z), Shape(z.snapshot), NEW time,
               NEW c, c = CreateTask(z, command, t, a.title, a.tag, a.bucket, time)
        PROVE  /\ c.snapshot.order = Append(z.snapshot.order, t)
               /\ c.snapshot.task = New(z.snapshot.task, time)
               /\ c.snapshot.generation = z.snapshot.generation
               /\ c.snapshot.initialized = z.snapshot.initialized
               /\ c.used = z.used \cup {t}
    <3> HIDE DEF t
    <3>1. c.snapshot.order = Append(z.snapshot.order, t)
      BY <2>2 DEF CreateTask, StateShape, Shape
    <3>2. c.snapshot.task = New(z.snapshot.task, time)
      BY <2>2 DEF CreateTask, StateShape, Shape
    <3>3. /\ c.snapshot.generation = z.snapshot.generation
          /\ c.snapshot.initialized = z.snapshot.initialized
      BY <2>2 DEF CreateTask, StateShape, Shape
    <3>4. c.used = z.used \cup {t}
      BY <2>2 DEF CreateTask, StateShape
    <3> HIDE DEF New
    <3> QED BY <3>1, <3>2, <3>3, <3>4
  <2> HIDE DEF New, t
  <2>3. /\ p.snapshot.order = Append(s.order, t) /\ p.snapshot.task = New(s.task, m)
        /\ p.snapshot.generation = s.generation /\ p.snapshot.initialized = s.initialized
        /\ p.used = st.used \cup {t}
        /\ q.snapshot.order = Append(r.order, t) /\ q.snapshot.task = New(r.task, n)
        /\ q.snapshot.generation = r.generation /\ q.snapshot.initialized = r.initialized
        /\ q.used = rt.used \cup {t}
    <3> HIDE DEF p, q, s, r
    <3>1. /\ p.snapshot.order = Append(s.order, t) /\ p.snapshot.task = New(s.task, m)
          /\ p.snapshot.generation = s.generation /\ p.snapshot.initialized = s.initialized
          /\ p.used = st.used \cup {t}
      BY <1>1, <2>1, <2>2 DEF s
    <3>2. /\ q.snapshot.order = Append(r.order, t) /\ q.snapshot.task = New(r.task, n)
          /\ q.snapshot.generation = r.generation /\ q.snapshot.initialized = r.initialized
          /\ q.used = rt.used \cup {t}
      BY <1>1, <2>1, <2>2 DEF r
    <3> QED BY <3>1, <3>2
  <2>4. /\ DOMAIN New(s.task, m) = Live(s) \cup {t} /\ DOMAIN New(r.task, n) = Live(r) \cup {t}
        /\ \A u \in Live(s) \cup {t} : Alike(New(s.task, m)[u], New(r.task, n)[u])
    BY <1>2 DEF Live, Alike, New
  <2> HIDE DEF p, q, s, r
  <2>5. SameQueue(p.snapshot, q.snapshot)
    BY <1>2, <2>3, <2>4 DEF SameQueue, Live
  <2> QED BY <1>2, <2>3, <2>5 DEF Agree, p, q
<1>4. ASSUME NEW x \in TaskRecord, NEW y \in TaskRecord, Alike(x, y), a.task \in Live(s),
             p = [st EXCEPT !.snapshot.task[a.task] = x], q = [rt EXCEPT !.snapshot.task[a.task] = y]
      PROVE  Agree(p, q, drawn)
  <2> HIDE DEF p, q
  <2>1. /\ p.snapshot.order = s.order /\ p.snapshot.task = [s.task EXCEPT ![a.task] = x]
        /\ p.snapshot.generation = s.generation /\ p.snapshot.initialized = s.initialized
        /\ p.used = st.used
    BY <1>1, <1>4 DEF StateShape, Shape
  <2>2. /\ q.snapshot.order = r.order /\ q.snapshot.task = [r.task EXCEPT ![a.task] = y]
        /\ q.snapshot.generation = r.generation /\ q.snapshot.initialized = r.initialized
        /\ q.used = rt.used
    BY <1>1, <1>4 DEF StateShape, Shape
  <2> HIDE DEF s, r
  <2>3. SameQueue(p.snapshot, q.snapshot)
    BY <1>2, <1>4, <2>1, <2>2 DEF SameQueue, Live
  <2> QED BY <1>2, <2>1, <2>2, <2>3 DEF Agree
<1>5. a.op # "Create" =>
        /\ a.task \in Live(s) /\ s.task[a.task] \in TaskRecord /\ r.task[a.task] \in TaskRecord
        /\ Alike(s.task[a.task], r.task[a.task])
  <2>1. a.op # "Create" => a.task \in Live(s)
    BY EditedIsLive
  <2> QED BY <1>1, <1>2, <2>1 DEF Partial, Live
<1>6. CASE a.op = "Rename"
  <2> DEFINE Renamed(x) == [x EXCEPT !.title = a.title, !.versions.title = command]
  <2>1. a.title \in Title
    BY <1>6 DEF Queued
  <2>2. ASSUME NEW x \in TaskRecord, NEW y \in TaskRecord, Alike(x, y)
        PROVE  /\ Renamed(x) \in TaskRecord /\ Renamed(y) \in TaskRecord
               /\ Alike(Renamed(x), Renamed(y))
    BY <2>1, <2>2 DEF TaskRecord, Alike
  <2>3. /\ p = [st EXCEPT !.snapshot.task[a.task] = Renamed(s.task[a.task])]
        /\ q = [rt EXCEPT !.snapshot.task[a.task] = Renamed(r.task[a.task])]
    BY <1>6 DEF QueuedEffect
  <2> HIDE DEF Renamed, p, q
  <2>4. /\ Renamed(s.task[a.task]) \in TaskRecord /\ Renamed(r.task[a.task]) \in TaskRecord
        /\ Alike(Renamed(s.task[a.task]), Renamed(r.task[a.task]))
    BY <1>5, <1>6, <2>2
  <2> QED BY <1>4, <1>5, <1>6, <2>3, <2>4 DEF p, q
<1>7. CASE a.op = "SetTag"
  <2> DEFINE Tagged(x) == [x EXCEPT !.tag = a.tag, !.versions.tag = command]
  <2>1. a.tag \in Tag \cup {None}
    BY <1>7 DEF Queued
  <2>2. ASSUME NEW x \in TaskRecord, NEW y \in TaskRecord, Alike(x, y)
        PROVE  /\ Tagged(x) \in TaskRecord /\ Tagged(y) \in TaskRecord
               /\ Alike(Tagged(x), Tagged(y))
    BY <2>1, <2>2 DEF TaskRecord, Alike
  <2>3. /\ p = [st EXCEPT !.snapshot.task[a.task] = Tagged(s.task[a.task])]
        /\ q = [rt EXCEPT !.snapshot.task[a.task] = Tagged(r.task[a.task])]
    BY <1>7 DEF QueuedEffect
  <2> HIDE DEF Tagged, p, q
  <2>4. /\ Tagged(s.task[a.task]) \in TaskRecord /\ Tagged(r.task[a.task]) \in TaskRecord
        /\ Alike(Tagged(s.task[a.task]), Tagged(r.task[a.task]))
    BY <1>5, <1>7, <2>2
  <2> QED BY <1>4, <1>5, <1>7, <2>3, <2>4 DEF p, q
<1>8. ASSUME NEW x, NEW y, SameQueue(x, y), p = [st EXCEPT !.snapshot = x],
             q = [rt EXCEPT !.snapshot = y]
      PROVE  Agree(p, q, drawn)
  <2> HIDE DEF p, q
  <2>1. p.snapshot = x /\ p.used = st.used /\ q.snapshot = y /\ q.used = rt.used
    BY <1>1, <1>8 DEF StateShape
  <2> QED BY <1>2, <1>8, <2>1 DEF Agree
<1>9. CASE a.op = "MoveBefore"
  <2> DEFINE before == AnchorTask(a.before)
             x == Place(s, a.task, a.bucket, before, command)
             y == Place(r, a.task, a.bucket, before, command)
  <2>1. /\ a.bucket \in QueueBucket /\ a.before \in Anchor \cup {None}
        /\ AnchorRefusal(s, a.task, a.bucket, a.before) = None
    BY <1>9, DistinctValues DEF Queued, QueuedRefusal, Require, ??, Reason
  <2>2. before \in (Live(s) \ {a.task}) \cup {None}
    BY <2>1, AnchorFacts
  <2>3. a.bucket \in Bucket /\ a.task \in Live(s)
    BY <1>5, <1>9, <2>1 DEF Bucket
  <2>4. SameQueue(s, r)
    BY DEF Agree
  <2> HIDE DEF before, s, r
  <2>5. SameQueue(x, y)
    <3>1. Listed(s) /\ Listed(r)
      BY <1>1
    <3> QED BY <2>2, <2>3, <2>4, <3>1, AgreedPlace
  <2>6. p = [st EXCEPT !.snapshot = x] /\ q = [rt EXCEPT !.snapshot = y]
    BY <1>9 DEF QueuedEffect, before, s, r
  <2> HIDE DEF p, q, x, y
  <2> QED BY <1>8, <2>5, <2>6 DEF p, q
<1>10. CASE a.op = "Delete"
  <2> DEFINE x == Drop(s, a.task)
             y == Drop(r, a.task)
  <2>1. /\ Live(x) = Live(s) \ {a.task} /\ SameAround(x, s)
        /\ \A u \in Live(x) : x.task[u] = s.task[u]
    BY <1>1, <1>5, <1>10, DropFacts
  <2>2. /\ Live(y) = Live(r) \ {a.task} /\ SameAround(y, r)
        /\ \A u \in Live(y) : y.task[u] = r.task[u]
    BY <1>1, <1>2, <1>5, <1>10, DropFacts
  <2>3. x.order = y.order
    BY <1>1, <1>2 DEF Drop, Shape
  <2> HIDE DEF x, y, s, r
  <2>4. SameQueue(x, y)
    BY <1>2, <2>1, <2>2, <2>3 DEF SameQueue, SameAround
  <2>5. p = [st EXCEPT !.snapshot = x] /\ q = [rt EXCEPT !.snapshot = y]
    BY <1>10 DEF QueuedEffect, x, y, s, r
  <2> HIDE DEF p, q
  <2> QED BY <1>8, <2>4, <2>5 DEF p, q
<1>11. a.op \in {"Create", "Rename", "SetTag", "MoveBefore", "Delete"}
  BY DEF Queued
<1> HIDE DEF p, q
<1> QED BY <1>3, <1>6, <1>7, <1>9, <1>10, <1>11 DEF p, q

\* The state as an edit finds it, with what the last completion left cleared.
Plain(st) == [st EXCEPT !.undo = NoUndo, !.snapshot.undo = None]

LEMMA PlainAgrees ==
  ASSUME NEW st, Sound(st), st.snapshot.initialized
  PROVE  /\ Clean(Plain(st)) /\ Plain(st).used = st.used
         /\ Plain(st).snapshot.task = st.snapshot.task /\ Plain(st).snapshot.order = st.snapshot.order
         /\ Plain(st).snapshot.generation = st.snapshot.generation
         /\ Plain(st).snapshot.initialized = st.snapshot.initialized
         /\ Plain(st).snapshot.focus = st.snapshot.focus
<1>1. StateShape(st) /\ Shape(st.snapshot)
  BY SoundFacts DEF Listed, IsBody, Shape
<1>2. Plain(st).snapshot.task = st.snapshot.task /\ Plain(st).snapshot.order = st.snapshot.order
  BY <1>1 DEF Plain, StateShape, Shape
<1> QED BY <1>2, Cleared DEF Plain

\* An accepted edit is one of the queue, and of the numbers that the queue is kept under.
LEMMA AppliedEdit ==
  ASSUME NEW st, Sound(st), NEW c \in Command, c.action \in Queued, ~IsFocus(c), ~IsUndo(c),
         c.action.op # "Initialize", NEW now \in Nat, Refusal(st, c, now) = None
  PROVE  LET r == Apply(st, c, now)
             p == QueuedEffect(Plain(st), c.id, c.action, now)
         IN /\ st.snapshot.initialized /\ QueuedRefusal(st, c.action) = None
            /\ r.used = p.used /\ r.snapshot.task = p.snapshot.task
            /\ r.snapshot.order = p.snapshot.order
            /\ r.snapshot.generation = p.snapshot.generation
            /\ r.snapshot.initialized = p.snapshot.initialized
<1> DEFINE m == Reduce(st, c, now)
           next == [m EXCEPT !.snapshot.revision = st.snapshot.revision + 1]
           r == [next EXCEPT !.snapshot.history =
                   Append(st.snapshot.history, Link(c.id, next.snapshot))]
           p == QueuedEffect(Plain(st), c.id, c.action, now)
<1>1. st.snapshot.initialized /\ QueuedRefusal(st, c.action) = None
  BY DistinctValues DEF Refusal, Require, ??, Reason
<1>2. m = p
  BY DEF Reduce, Plain
<1>3. StateShape(m) /\ Shape(m.snapshot)
  BY ReduceFacts DEF Base, Listed, IsBody, Shape
<1>4. Apply(st, c, now) = r
  BY DEF Apply
<1> HIDE DEF m, p
<1>5. /\ StateShape(next) /\ Shape(next.snapshot) /\ next.used = m.used
      /\ next.snapshot.task = m.snapshot.task /\ next.snapshot.order = m.snapshot.order
      /\ next.snapshot.generation = m.snapshot.generation
      /\ next.snapshot.initialized = m.snapshot.initialized
  BY <1>3 DEF StateShape, Shape
<1> HIDE DEF next
<1>6. /\ r.used = m.used
      /\ r.snapshot.task = m.snapshot.task /\ r.snapshot.order = m.snapshot.order
      /\ r.snapshot.generation = m.snapshot.generation
      /\ r.snapshot.initialized = m.snapshot.initialized
  BY <1>5 DEF StateShape, Shape
<1> QED BY <1>1, <1>2, <1>4, <1>6 DEF p

\* An edit is taken or refused by both states, and leaves them looking the same.
LEMMA AgreedApply ==
  ASSUME NEW st, Sound(st), NEW rt, Sound(rt), NEW drawn, Agree(st, rt, drawn),
         NEW c \in Command, ~IsFocus(c), c.action.op # "Initialize",
         CreatedTask(c) \in drawn \cup {None}, NEW m \in Nat, NEW n \in Nat
  PROVE  /\ Refusal(st, c, m) = Refusal(rt, c, n)
         /\ Refusal(st, c, m) = None => Agree(Apply(st, c, m), Apply(rt, c, n), drawn)
<1> DEFINE a == c.action
<1>1. a \in Queued /\ ~IsUndo(c) /\ c.id \in Token
  BY CommandKinds
<1>2. a.op = "Create" => a.task \in drawn
  <2>1. a.op = "Create" => a.task \in TaskId /\ CreatedTask(c) = a.task
    BY <1>1 DEF Queued, CreatedTask
  <2> QED BY <2>1, DistinctValues
<1>3. QueuedRefusal(st, a) = QueuedRefusal(rt, a)
  BY <1>1, <1>2, AgreedRefusal
<1>4. Refusal(st, c, m) = Refusal(rt, c, n)
  BY <1>3 DEF Refusal, Agree, SameQueue
<1>5. ASSUME Refusal(st, c, m) = None
      PROVE  Agree(Apply(st, c, m), Apply(rt, c, n), drawn)
  <2> DEFINE p == QueuedEffect(Plain(st), c.id, a, m)
             q == QueuedEffect(Plain(rt), c.id, a, n)
             x == Apply(st, c, m)
             y == Apply(rt, c, n)
  <2>1. /\ st.snapshot.initialized /\ QueuedRefusal(st, a) = None
        /\ x.used = p.used /\ x.snapshot.task = p.snapshot.task
        /\ x.snapshot.order = p.snapshot.order
        /\ x.snapshot.generation = p.snapshot.generation
        /\ x.snapshot.initialized = p.snapshot.initialized
    BY <1>1, <1>5, AppliedEdit
  <2>2. /\ rt.snapshot.initialized /\ QueuedRefusal(rt, a) = None
        /\ y.used = q.used /\ y.snapshot.task = q.snapshot.task
        /\ y.snapshot.order = q.snapshot.order
        /\ y.snapshot.generation = q.snapshot.generation
        /\ y.snapshot.initialized = q.snapshot.initialized
    BY <1>1, <1>4, <1>5, AppliedEdit
  <2>3. Agree(Plain(st), Plain(rt), drawn)
    BY <2>1, <2>2, PlainAgrees DEF Agree, SameQueue, Live
  <2>4. QueuedRefusal(Plain(st), a) = None /\ QueuedRefusal(Plain(rt), a) = None
    BY <2>1, <2>2, PlainAgrees, SameRefusals
  <2>5. Clean(Plain(st)) /\ Clean(Plain(rt))
    BY <2>1, <2>2, PlainAgrees
  <2>6. Agree(p, q, drawn)
    BY <1>1, <2>3, <2>4, <2>5, AgreedEdit
  <2> HIDE DEF p, q, x, y
  <2>7. Agree(x, y, drawn)
    BY <2>1, <2>2, <2>6 DEF Agree, SameQueue, Live
  <2> QED BY <2>7 DEF x, y
<1> QED BY <1>4, <1>5

\* Commands that are edits, and create no task but those of `drawn`.
EditsOf(drawn, commands) ==
  \A i \in DOMAIN commands :
    /\ ~IsFocus(commands[i]) /\ commands[i].action.op # "Initialize"
    /\ CreatedTask(commands[i]) \in drawn \cup {None}

\* So it is with a whole list of edits, the refused ones being the same.
LEMMA AgreedRuns ==
  ASSUME NEW first, IsView(first), NEW other, IsView(other), NEW drawn,
         Agree(first.state, other.state, drawn), first.conflicts = other.conflicts,
         NEW commands \in Seq(Command), EditsOf(drawn, commands),
         NEW m \in Nat, NEW n \in Nat,
         NEW f, IsRun(first, m, commands, f), NEW g, IsRun(other, n, commands, g)
  PROVE  LET v == f[Len(commands)]
             w == g[Len(commands)]
         IN /\ IsView(v) /\ IsView(w)
            /\ Agree(v.state, w.state, drawn) /\ v.conflicts = w.conflicts
<1> DEFINE N == Len(commands)
           S == {k \in 0..N : Agree(f[k].state, g[k].state, drawn) /\ f[k].conflicts = g[k].conflicts}
<1>1. N \in Nat /\ DOMAIN commands = 1..N /\ \A k \in 1..N : commands[k] \in Command
  BY LenProperties, ElementOfSeq
<1>2. \A k \in 0..N : IsView(f[k]) /\ IsView(g[k])
  BY RunSound
<1>3. /\ f[0] = first /\ \A k \in 1..N : f[k] = Foreseen(m, f[k - 1], commands[k])
      /\ g[0] = other /\ \A k \in 1..N : g[k] = Foreseen(n, g[k - 1], commands[k])
  <2>1. f[0] = first /\ \A k \in 1..N : f[k] = Foreseen(m, f[k - 1], commands[k])
    BY <1>1, RunSteps
  <2>2. g[0] = other /\ \A k \in 1..N : g[k] = Foreseen(n, g[k - 1], commands[k])
    BY <1>1, RunSteps
  <2> QED BY <2>1, <2>2
<1>4. 0 \in S
  BY <1>1, <1>3
<1>5. ASSUME NEW k \in 1..N, k - 1 \in S PROVE k \in S
  <2> DEFINE v == f[k - 1]
             w == g[k - 1]
             c == commands[k]
  <2>1. /\ IsView(v) /\ IsView(w) /\ Agree(v.state, w.state, drawn) /\ v.conflicts = w.conflicts
    BY <1>1, <1>2, <1>5
  <2>2. /\ c \in Command /\ ~IsFocus(c) /\ c.action.op # "Initialize"
        /\ CreatedTask(c) \in drawn \cup {None}
        /\ f[k] = Foreseen(m, v, c) /\ g[k] = Foreseen(n, w, c)
    BY <1>1, <1>3 DEF EditsOf
  <2> HIDE DEF v, w, c
  <2>3. /\ Refusal(v.state, c, m) = Refusal(w.state, c, n)
        /\ Refusal(v.state, c, m) = None => Agree(Apply(v.state, c, m), Apply(w.state, c, n), drawn)
    BY <2>1, <2>2, AgreedApply DEF IsView
  <2>4. /\ Agree(Foreseen(m, v, c).state, Foreseen(n, w, c).state, drawn)
        /\ Foreseen(m, v, c).conflicts = Foreseen(n, w, c).conflicts
    BY <2>1, <2>2, <2>3 DEF Foreseen, IsView
  <2> QED BY <1>1, <2>2, <2>4
<1>6. \A k \in 1..N : k - 1 \in S => k \in S
  BY <1>5
<1> HIDE DEF N, S
<1>7. \A k \in 0..N : k \in S
  BY <1>1, <1>4, <1>6, Induction
<1>8. N \in 0..N
  BY <1>1
<1> QED BY <1>2, <1>7, <1>8 DEF S, N

\* What the server would make of the pending edits now.
Served(e) ==
  LET Run(view, command) ==
        IF Refusal(view.state, command, lastTime) = None
        THEN [view EXCEPT !.state = Apply(@, command, lastTime)]
        ELSE [view EXCEPT !.conflicts = @ \cup {command.id}]
      ran[n \in 0..Len(e.pending)] ==
        IF n = 0 THEN [state |-> state, conflicts |-> {}] ELSE Run(ran[n - 1], e.pending[n])
  IN ran[Len(e.pending)]

LEMMA ServedRuns ==
  ASSUME NEW e, Len(e.pending) \in Nat, \A i \in 1..Len(e.pending) : ~IsFocus(e.pending[i])
  PROVE  \E g : /\ IsRun([state |-> state, conflicts |-> {}], lastTime, e.pending, g)
                /\ Served(e) = g[Len(e.pending)]
<1> DEFINE N == Len(e.pending)
           other == [state |-> state, conflicts |-> {}]
           Run(view, command) ==
             IF Refusal(view.state, command, lastTime) = None
             THEN [view EXCEPT !.state = Apply(@, command, lastTime)]
             ELSE [view EXCEPT !.conflicts = @ \cup {command.id}]
           Ran(f) == f = [n \in 0..N |-> IF n = 0 THEN other ELSE Run(f[n - 1], e.pending[n])]
<1>1. ASSUME NEW f PROVE Ran(f) <=> IsRun(other, lastTime, e.pending, f)
  <2>1. \A n \in 1..N : Foreseen(lastTime, f[n - 1], e.pending[n]) = Run(f[n - 1], e.pending[n])
    BY DEF Foreseen
  <2> HIDE DEF Run, other
  <2>2. \A n \in 0..N : (IF n = 0 THEN other ELSE Run(f[n - 1], e.pending[n]))
                          = IF n = 0 THEN other ELSE Foreseen(lastTime, f[n - 1], e.pending[n])
    BY <2>1
  <2>3. [n \in 0..N |-> IF n = 0 THEN other ELSE Run(f[n - 1], e.pending[n])]
          = [n \in 0..N |-> IF n = 0 THEN other ELSE Foreseen(lastTime, f[n - 1], e.pending[n])]
    BY <2>2
  <2> QED BY <2>3 DEF IsRun
<1>2. \E f : Ran(f)
  <2>1. PICK f : IsRun(other, lastTime, e.pending, f)
    BY Runs
  <2> HIDE DEF Ran
  <2> QED BY <1>1, <2>1
<1> DEFINE g == CHOOSE f : Ran(f)
<1>3. Ran(g)
  <2> HIDE DEF Ran
  <2> QED BY <1>2
<1>4. Served(e) = g[N]
  BY DEF Served
<1>5. IsRun(other, lastTime, e.pending, g)
  <2> HIDE DEF Ran, g
  <2> QED BY <1>1, <1>3
<1> HIDE DEF Ran, g
<1> QED BY <1>4, <1>5

SeedIds == {Seeds[i].id : i \in DOMAIN Seeds}

\* A task identity was drawn for one command, and for no seed.
DrawnOnce(made) ==
  \A c \in DOMAIN made :
    LET t == CreatedTask(made[c].command)
    IN t # None => /\ t \notin SeedIds
                   /\ \A b \in DOMAIN made : CreatedTask(made[b].command) = t => b = c

\* What the server remembers as used came with the founding, or with a command it applied.
Sourced(made, st) ==
  \A t \in st.used :
    \/ t \in SeedIds
    \/ \E c \in DOMAIN made : c \in Applies(st.snapshot) /\ CreatedTask(made[c].command) = t

Traced == DrawnOnce(composed) /\ Sourced(composed, state)

\* No task that a pending edit creates was ever on the server.
LEMMA PendingUnused ==
  ASSUME LedgerInv, Traced, NEW d \in Device, env(d).confirmed = state.snapshot,
         NEW t \in Created(env(d).pending)
  PROVE  t \notin state.used
<1> DEFINE e == env(d)
<1>1. /\ EnvelopeOK(composed, d, e) /\ \A c \in Ids(e.pending) : c \notin Applies(e.confirmed)
  BY LatestOK DEF LedgerInv, SyncInv, InStep, JournalOK, Known, env
<1>2. PICK i \in DOMAIN e.pending : t = CreatedTask(e.pending[i]) /\ t # None
  BY DEF Created
<1> DEFINE k == e.pending[i].id
<1>3. k \in DOMAIN composed /\ composed[k].command = e.pending[i] /\ k \in Ids(e.pending)
  BY <1>1 DEF EnvelopeOK, Meant, Ids
<1> HIDE DEF k, e
<1>4. t \notin SeedIds /\ \A b \in DOMAIN composed : CreatedTask(composed[b].command) = t => b = k
  BY <1>2, <1>3 DEF Traced, DrawnOnce
<1>5. k \notin Applies(state.snapshot)
  BY <1>1, <1>3 DEF e
<1> QED BY <1>4, <1>5 DEF Traced, Sourced

LEMMA ForecastHolds ==
  ASSUME LedgerInv, Traced
  PROVE  Forecast
<1> SUFFICES ASSUME NEW d \in Device, env(d).confirmed = state.snapshot,
                    \A i \in DOMAIN env(d).pending : ~IsFocus(env(d).pending[i])
             PROVE  LET shown == Projection(env(d))
                        real == Served(env(d))
                    IN /\ shown.conflicts = real.conflicts
                       /\ shown.state.snapshot.order = real.state.snapshot.order
                       /\ \A t \in Live(shown.state.snapshot) :
                            [shown.state.snapshot.task[t] EXCEPT !.created = 0]
                              = [real.state.snapshot.task[t] EXCEPT !.created = 0]
  BY DEF Forecast, Served
<1> DEFINE e == env(d)
           N == Len(e.pending)
           drawn == Created(e.pending)
           first == Confirmed(e)
           other == [state |-> state, conflicts |-> {}]
<1>1. /\ EnvelopeOK(composed, d, e) /\ IsEnvelope(e) /\ IsMade(composed)
  BY LatestOK DEF LedgerInv, SyncInv, EnvelopeOK, env
<1>2. /\ e.pending \in Seq(Command) /\ N \in Nat /\ DOMAIN e.pending = 1..N /\ e.time \in Nat
      /\ \A i \in 1..N : ~IsFocus(e.pending[i])
  BY <1>1, LenProperties DEF IsEnvelope
<1>3. Sound(state) /\ lastTime \in Nat
  BY DEF LedgerInv, SyncInv, Stored, Good, IsDatabase, database
<1>4. IsView(first) /\ IsView(other) /\ first.conflicts = other.conflicts
  BY <1>1, <1>3, ConfirmedSound DEF IsView, Confirmed
<1>5. Agree(first.state, state, drawn)
  <2>1. SameQueue(first.state.snapshot, state.snapshot)
    <3>1. first.state.snapshot = [state.snapshot EXCEPT !.undo = None]
      BY DEF Confirmed
    <3>2. Shape(state.snapshot)
      BY <1>3, SoundFacts DEF Listed, IsBody, Shape
    <3> QED BY <3>1, <3>2 DEF SameQueue, Alike, Shape, Live
  <2>2. \A t \in drawn : t \notin state.used
    BY PendingUnused
  <2>3. \A t \in drawn : t \notin first.state.used
    <3>1. Live(e.confirmed) \subseteq state.used
      BY <1>3, SoundFacts
    <3> QED BY <2>2, <3>1 DEF Confirmed
  <2> QED BY <2>1, <2>2, <2>3 DEF Agree
<1>6. EditsOf(drawn, e.pending)
  BY <1>1, <1>2 DEF EnvelopeOK, Meant, IsMade, Created, EditsOf
<1>7. PICK f : IsRun(first, e.time, e.pending, f) /\ Projection(e) = f[N]
  BY <1>2, ForecastRuns
<1>8. PICK g : IsRun(other, lastTime, e.pending, g) /\ Served(e) = g[N]
  BY <1>2, ServedRuns
<1> DEFINE v == Projection(e)
           w == Served(e)
<1>9. /\ IsView(v) /\ IsView(w) /\ Agree(v.state, w.state, drawn) /\ v.conflicts = w.conflicts
  <2> DEFINE commands == e.pending
             x == f[Len(commands)]
             y == g[Len(commands)]
  <2>1. /\ commands \in Seq(Command) /\ e.time \in Nat /\ lastTime \in Nat
        /\ IsRun(first, e.time, commands, f) /\ IsRun(other, lastTime, commands, g)
    BY <1>2, <1>3, <1>7, <1>8
  <2>2. Agree(first.state, other.state, drawn)
    BY <1>5
  <2>3. v = x /\ w = y
    BY <1>7, <1>8
  <2> HIDE DEF v, w, drawn, first, other
  <2>4. EditsOf(drawn, commands)
    BY <1>6
  <2> HIDE DEF commands
  <2>5. /\ IsView(x) /\ IsView(y) /\ Agree(x.state, y.state, drawn)
        /\ x.conflicts = y.conflicts
    BY <1>4, <2>1, <2>2, <2>4, AgreedRuns
  <2> HIDE DEF x, y
  <2> QED BY <2>3, <2>5
<1> HIDE DEF v, w
<1>10. ASSUME NEW t \in Live(v.state.snapshot)
       PROVE  [v.state.snapshot.task[t] EXCEPT !.created = 0]
                = [w.state.snapshot.task[t] EXCEPT !.created = 0]
  <2> DEFINE x == v.state.snapshot.task[t]
             y == w.state.snapshot.task[t]
  <2>1. Alike(x, y)
    BY <1>9 DEF Agree, SameQueue
  <2>2. x \in TaskRecord /\ y \in TaskRecord
    <3>1. Listed(v.state.snapshot) /\ Listed(w.state.snapshot)
      BY <1>9, SoundFacts DEF IsView
    <3>2. Live(v.state.snapshot) = Live(w.state.snapshot)
      BY <1>9 DEF Agree, SameQueue
    <3> QED BY <3>1, <3>2 DEF Listed, IsBody, Partial, Live
  <2> HIDE DEF x, y
  <2>3. ASSUME NEW z \in TaskRecord
        PROVE  [z EXCEPT !.created = 0]
                 = [title |-> z.title, tag |-> z.tag, bucket |-> z.bucket, created |-> 0,
                    versions |-> z.versions]
    BY DEF TaskRecord
  <2>4. [x EXCEPT !.created = 0] = [y EXCEPT !.created = 0]
    BY <2>1, <2>2, <2>3 DEF Alike
  <2> QED BY <2>4 DEF x, y
<1> QED BY <1>9, <1>10 DEF Agree, SameQueue, v, w, e

(***************************************************************************)
(* Where the identities of tasks come from                                 *)
(***************************************************************************)
\* The tasks a command names that were not there.
Names(c) == IF c.action.op = "Initialize"
            THEN {c.action.seeds[i].id : i \in DOMAIN c.action.seeds}
            ELSE {CreatedTask(c)} \ {None}

LEMMA CreateUses ==
  ASSUME NEW st, StateShape(st), NEW command, NEW t, NEW title, NEW tag, NEW bucket, NEW now
  PROVE  LET r == CreateTask(st, command, t, title, tag, bucket, now)
         IN r.used = st.used \cup {t} /\ DOMAIN r = {"snapshot", "used", "undo"}
BY DEF CreateTask, StateShape

LEMMA QueuedUses ==
  ASSUME NEW st, StateShape(st), NEW command, NEW a \in Queued, NEW now
  PROVE  QueuedEffect(st, command, a, now).used
           \subseteq st.used \cup (IF a.op = "Create" THEN {a.task} ELSE {})
<1> DEFINE r == QueuedEffect(st, command, a, now)
<1>1. CASE a.op = "Create"
  <2>1. r = CreateTask(st, command, a.task, a.title, a.tag, a.bucket, now)
    BY <1>1 DEF QueuedEffect
  <2> HIDE DEF r
  <2> QED BY <1>1, <2>1, CreateUses DEF r
<1>2. ASSUME NEW f, r = [st EXCEPT !.snapshot.task = f] PROVE r.used = st.used
  BY <1>2 DEF StateShape
<1>3. ASSUME NEW s, r = [st EXCEPT !.snapshot = s] PROVE r.used = st.used
  BY <1>3 DEF StateShape
<1>4. CASE a.op = "Rename"
  <2>1. r = [st EXCEPT !.snapshot.task[a.task] =
               [@ EXCEPT !.title = a.title, !.versions.title = command]]
    BY <1>4 DEF QueuedEffect
  <2> HIDE DEF r
  <2>2. r.used = st.used
    BY <2>1 DEF StateShape
  <2> QED BY <2>2 DEF r
<1>5. CASE a.op = "SetTag"
  <2>1. r = [st EXCEPT !.snapshot.task[a.task] =
               [@ EXCEPT !.tag = a.tag, !.versions.tag = command]]
    BY <1>5 DEF QueuedEffect
  <2> HIDE DEF r
  <2>2. r.used = st.used
    BY <2>1 DEF StateShape
  <2> QED BY <2>2 DEF r
<1>6. CASE a.op \in {"MoveBefore", "Delete"}
  <2>1. \E s : r = [st EXCEPT !.snapshot = s]
    BY <1>6 DEF QueuedEffect
  <2> HIDE DEF r
  <2>2. r.used = st.used
    BY <1>3, <2>1
  <2> QED BY <2>2 DEF r
<1>7. a.op \in {"Create", "Rename", "SetTag", "MoveBefore", "Delete"}
  BY DEF Queued
<1> HIDE DEF r
<1> QED BY <1>1, <1>4, <1>5, <1>6, <1>7 DEF r

LEMMA FocusUses ==
  ASSUME NEW st, StateShape(st), NEW command, NEW a \in Focused, NEW now
  PROVE  FocusEffect(st, command, a, now).used
           \subseteq st.used \cup (IF a.op = "CreateNow" THEN {a.task} ELSE {})
<1> DEFINE m == FocusMove(st, command, a, now)
           fields == {"snapshot", "used", "undo"}
<1>1. /\ DOMAIN m = fields
      /\ m.used \subseteq st.used \cup (IF a.op = "CreateNow" THEN {a.task} ELSE {})
  <2>1. ASSUME NEW s, m = [st EXCEPT !.snapshot = s] PROVE m.used = st.used /\ DOMAIN m = fields
    <3> HIDE DEF m
    <3> QED BY <2>1 DEF StateShape
  <2>2. CASE a.op = "CreateNow"
    <3> DEFINE made == CreateTask(st, command, a.task, a.title, a.tag, "next", now)
    <3>1. m = [made EXCEPT !.snapshot = Promote(@, a.task, command, now)]
      BY <2>2 DEF FocusMove
    <3> HIDE DEF made, m
    <3>2. made.used = st.used \cup {a.task} /\ DOMAIN made = fields
      BY CreateUses DEF made
    <3>3. m.used = st.used \cup {a.task} /\ DOMAIN m = fields
      BY <3>1, <3>2
    <3> QED BY <2>2, <3>3
  <2>3. CASE a.op \in {"Promote", "Remove", "MoveToQueue"}
    <3>1. \E s : m = [st EXCEPT !.snapshot = s]
      BY <2>3 DEF FocusMove
    <3> HIDE DEF m
    <3> QED BY <2>1, <3>1
  <2>4. CASE a.op = "SetPaused"
    <3>1. m = [st EXCEPT !.snapshot.focus.session = Repaused(@, a.paused, now)]
      BY <2>4 DEF FocusMove
    <3> HIDE DEF m
    <3> QED BY <3>1 DEF StateShape
  <2>5. CASE a.op \in {"Complete", "Undo"}
    <3>1. \E s, u : m = [st EXCEPT !.undo = u, !.snapshot = s]
      <4>1. CASE a.op = "Complete"
        <5>1. m = Complete(st, command, now)
          BY <4>1 DEF FocusMove
        <5> HIDE DEF m
        <5> QED BY <5>1 DEF Complete
      <4>2. CASE a.op = "Undo"
        <5>1. m = [st EXCEPT !.snapshot = Restored(@, st.undo.before, command), !.undo = NoUndo]
          BY <4>2 DEF FocusMove
        <5> HIDE DEF m
        <5>2. m = [st EXCEPT !.undo = NoUndo,
                             !.snapshot = Restored(st.snapshot, st.undo.before, command)]
          BY <5>1 DEF StateShape
        <5> QED BY <5>2
      <4> QED BY <2>5, <4>1, <4>2
    <3> HIDE DEF m
    <3> QED BY <3>1 DEF StateShape
  <2>6. a.op \in {"Promote", "CreateNow", "Complete", "Remove", "MoveToQueue", "SetPaused", "Undo"}
    BY DEF Focused
  <2> QED BY <2>2, <2>3, <2>4, <2>5, <2>6
<1>2. FocusEffect(st, command, a, now) = [m EXCEPT !.snapshot.focus.version = command]
  BY DEF FocusEffect
<1> HIDE DEF m
<1>3. FocusEffect(st, command, a, now).used = m.used
  BY <1>1, <1>2
<1> QED BY <1>1, <1>3

\* A command makes no identity used but those it names.
LEMMA ApplyUses ==
  ASSUME NEW st, Sound(st), NEW c \in Command, NEW now \in Nat, Refusal(st, c, now) = None
  PROVE  Apply(st, c, now).used \subseteq st.used \cup Names(c)
<1> DEFINE m == Reduce(st, c, now)
           a == c.action
           clear == IF IsUndo(c) THEN st ELSE Plain(st)
           next == [m EXCEPT !.snapshot.revision = st.snapshot.revision + 1]
           r == [next EXCEPT !.snapshot.history =
                   Append(st.snapshot.history, Link(c.id, next.snapshot))]
<1>1. StateShape(clear) /\ clear.used = st.used
  <2>1. StateShape(st)
    BY SoundFacts
  <2>2. StateShape(Plain(st)) /\ Plain(st).used = st.used
    BY Cleared DEF Plain
  <2> QED BY <2>1, <2>2
<1>2. m = IF a.op = "Initialize" THEN Initialize(clear, c.id, a, now)
          ELSE IF IsFocus(c) THEN FocusEffect(clear, c.id, a, now)
          ELSE QueuedEffect(clear, c.id, a, now)
  BY DEF Reduce, Plain
<1>3. StateShape(m)
  BY ReduceFacts DEF Base
<1>4. Apply(st, c, now) = r
  BY DEF Apply
<1> HIDE DEF m, clear
<1>5. r.used = m.used
  <2>1. StateShape(next) /\ next.used = m.used
    BY <1>3 DEF StateShape
  <2> HIDE DEF next
  <2> QED BY <2>1 DEF StateShape
<1>6. m.used \subseteq st.used \cup Names(c)
  <2>1. CASE a.op = "Initialize"
    <3> DEFINE ids == [i \in DOMAIN a.seeds |-> a.seeds[i].id]
               i0 == Initialize(clear, c.id, a, now)
    <3>1. i0.used = clear.used \cup {ids[i] : i \in DOMAIN ids}
      BY <1>1 DEF Initialize, StateShape
    <3>2. {ids[i] : i \in DOMAIN ids} = Names(c)
      BY <2>1 DEF Names
    <3> HIDE DEF ids, i0
    <3> QED BY <1>1, <1>2, <2>1, <3>1, <3>2 DEF i0
  <2>2. CASE a \in Focused /\ IsFocus(c) /\ a.op # "Initialize"
    <3>1. m.used \subseteq clear.used \cup (IF a.op = "CreateNow" THEN {a.task} ELSE {})
      BY <1>1, <1>2, <2>2, FocusUses
    <3>2. a.op = "CreateNow" => Names(c) = {a.task}
      <4>1. a.op = "CreateNow" => a.task \in TaskId /\ CreatedTask(c) = a.task
        BY <2>2 DEF Focused, CreatedTask
      <4> QED BY <2>2, <4>1, DistinctValues DEF Names
    <3> QED BY <1>1, <3>1, <3>2
  <2>3. CASE a \in Queued /\ ~IsFocus(c) /\ a.op # "Initialize"
    <3>1. m.used \subseteq clear.used \cup (IF a.op = "Create" THEN {a.task} ELSE {})
      BY <1>1, <1>2, <2>3, QueuedUses
    <3>2. a.op = "Create" => Names(c) = {a.task}
      <4>1. a.op = "Create" => a.task \in TaskId /\ CreatedTask(c) = a.task
        BY <2>3 DEF Queued, CreatedTask
      <4> QED BY <2>3, <4>1, DistinctValues DEF Names
    <3> QED BY <1>1, <3>1, <3>2
  <2> QED BY <2>1, <2>2, <2>3, CommandKinds
<1> HIDE DEF next, r
<1> QED BY <1>4, <1>5, <1>6

\* What users ask creates tasks that nobody created before.
LEMMA TracedAsks ==
  ASSUME SyncInv, Traced, NEW d \in Device, NEW command, NEW saved, Asks(d, command, saved)
  PROVE  Traced'
<1> DEFINE more == With(composed, d, command, env(d).confirmed.history)
           k == command.id
<1>1. composed' = more /\ state' = state
  <2>1. composed' = more
    BY EnqueueMove DEF Asks
  <2>2. state' = state
    BY DEF Asks, Enqueue, serverVars, server
  <2> QED BY <2>1, <2>2
<1>2. /\ DOMAIN more = DOMAIN composed \cup {k} /\ more[k].command = command
      /\ \A c \in DOMAIN composed : c # k /\ more[c] = composed[c]
  BY DEF With, Asks
<1>3. LET t == CreatedTask(command)
      IN t # None => /\ t \notin SeedIds
                     /\ \A c \in DOMAIN composed : CreatedTask(composed[c].command) # t
  BY DEF Asks, TasksDrawn, SeedIds
<1> HIDE DEF more, k
<1>4. DrawnOnce(more)
  <2> SUFFICES ASSUME NEW c \in DOMAIN more, NEW t, t = CreatedTask(more[c].command), t # None
               PROVE  /\ t \notin SeedIds
                      /\ \A b \in DOMAIN more : CreatedTask(more[b].command) = t => b = c
    BY DEF DrawnOnce
  <2>1. CASE c = k
    BY <1>2, <1>3, <2>1
  <2>2. CASE c # k
    BY <1>2, <1>3, <2>2 DEF Traced, DrawnOnce
  <2> QED BY <2>1, <2>2
<1>5. Sourced(more, state)
  BY <1>2 DEF Traced, Sourced
<1> QED BY <1>1, <1>4, <1>5 DEF Traced

\* What the server does for a request is nothing, or to take the command of its device.
LEMMA ExchangeTakes ==
  ASSUME Stored, NEW request, RequestOK(composed, request), NEW sampled \in Nat,
         Exchange(request, sampled)
  PROVE  \/ UNCHANGED state
         \/ \E c \in Command, now \in Nat :
              /\ c.id \in DOMAIN composed /\ composed[c.id].command = c
              /\ Refusal(state, c, now) = None /\ state' = Apply(state, c, now)
<1> DEFINE c == request.command
           now == ServerTime(sampled)
           outcome == Outcome(c, now)
<1>1. CASE c = None \/ c.id \in DOMAIN receipts \/ outcome.status # "applied"
  BY <1>1 DEF Exchange, Execute
<1>2. CASE ~(c = None \/ c.id \in DOMAIN receipts \/ outcome.status # "applied")
  <2>1. Execute(request.device, c, now) /\ c \in Command
    BY <1>2 DEF Exchange, RequestOK
  <2>2. state' = Apply(state, c, now)
    BY <1>2, <2>1 DEF Execute
  <2>3. Refusal(state, c, now) = None
    BY <1>2 DEF Outcome, Rejected, Applied
  <2>4. now \in Nat
    BY DEF Stored, IsDatabase, database, ServerTime
  <2>5. c.id \in DOMAIN composed /\ composed[c.id].command = c
    BY <1>2 DEF RequestOK, Meant
  <2> HIDE DEF c, now
  <2> QED BY <2>1, <2>2, <2>3, <2>4, <2>5
<1> QED BY <1>1, <1>2

LEMMA TracedServes ==
  ASSUME SyncInv, Traced, NEW request, RequestOK(composed, request), NEW sampled \in Nat,
         Exchange(request, sampled), composed' = composed
  PROVE  Traced'
<1>1. CASE UNCHANGED state
  BY <1>1 DEF Traced
<1>2. ASSUME NEW c \in Command, NEW now \in Nat,
             c.id \in DOMAIN composed, composed[c.id].command = c,
             Refusal(state, c, now) = None, state' = Apply(state, c, now)
      PROVE  Traced'
  <2> DEFINE h == state.snapshot.history
             next == Apply(state, c, now)
             g == next.snapshot.history
  <2>1. Sound(state) /\ c.action.op # "Initialize"
    BY <1>2 DEF SyncInv, Stored, Good, IsMade
  <2>2. /\ Sound(next) /\ g = Append(h, Link(c.id, next.snapshot))
    BY <1>2, <2>1, ApplySound
  <2>3. next.used \subseteq state.used \cup ({CreatedTask(c)} \ {None})
    BY <1>2, <2>1, ApplyUses DEF Names
  <2> HIDE DEF next
  <2>4. Applies(state.snapshot) \cup {c.id} \subseteq Applies(next.snapshot)
    <3>1. IsChain(h) /\ IsBody(next.snapshot) /\ c.id \in Token
      BY <2>1, <2>2, CommandKinds DEF Sound, IsState, IsSnapshot
    <3> DEFINE l == Link(c.id, next.snapshot)
    <3>2. /\ DOMAIN h = 1..Len(h) /\ DOMAIN g = 1..(Len(h) + 1) /\ Len(h) \in Nat
          /\ g[Len(h) + 1] = l /\ \A i \in DOMAIN h : g[i] = h[i]
      BY <2>2, <3>1, Linked
    <3>3. l.by = c.id
      BY DEF Link
    <3> HIDE DEF l, h, g
    <3>4. /\ \A i \in DOMAIN h : i \in DOMAIN g /\ g[i] = h[i]
          /\ Len(h) + 1 \in DOMAIN g
      BY <3>2
    <3> QED BY <3>2, <3>3, <3>4, AppliesAre DEF h, g
  <2>5. Sourced(composed, next)
    <3> SUFFICES ASSUME NEW t \in next.used, t \notin SeedIds
                 PROVE  \E b \in DOMAIN composed :
                          /\ b \in Applies(next.snapshot)
                          /\ CreatedTask(composed[b].command) = t
      BY DEF Sourced
    <3>1. CASE t \in state.used
      BY <2>4, <3>1 DEF Traced, Sourced
    <3>2. CASE t = CreatedTask(c)
      BY <1>2, <2>4, <3>2
    <3> QED BY <2>3, <3>1, <3>2
  <2>6. state' = next
    BY <1>2 DEF next
  <2> QED BY <2>5, <2>6 DEF Traced
<1> QED BY <1>1, <1>2, ExchangeTakes DEF SyncInv

LEMMA TracedSteps ==
  ASSUME LedgerInv, Traced, [Next]_vars, restores' = 0
  PROVE  Traced'
<1>0. SyncInv /\ restores = 0
  BY DEF LedgerInv
<1>1. ASSUME UNCHANGED <<state, composed>> PROVE Traced'
  BY <1>1 DEF Traced
<1>2. ASSUME NEW d \in Device, Edit(d) \/ Focus(d) PROVE Traced'
  BY <1>0, <1>2, EditAsks, FocusAsks, TracedAsks
<1>3. ASSUME NEW d \in Device, \/ Dismiss(d) \/ Retry(d) \/ Tick(d) \/ Refuse(d) \/ Lose(d)
                              \/ Crash(d) \/ Reopen(d)
      PROVE  Traced'
  <2>1. Dismiss(d) \/ Retry(d) => UNCHANGED <<serverVars, composed>>
    BY DEF Dismiss, Retry
  <2>2. Tick(d) => UNCHANGED <<serverVars, composed>>
    BY DEF Tick, TickWith
  <2>3. Refuse(d) \/ Lose(d) => UNCHANGED <<serverVars, composed>>
    BY DEF Refuse, Lose
  <2>4. Crash(d) \/ Reopen(d) => UNCHANGED <<serverVars, composed>>
    BY DEF Crash, Reopen
  <2>5. UNCHANGED <<serverVars, composed>>
    BY <1>3, <2>1, <2>2, <2>3, <2>4
  <2> QED BY <1>1, <2>5 DEF serverVars, server
<1>4. ASSUME NEW now \in 0..MaxTime,
             \/ Arrive(now) \/ \E d \in Device : Serve(d, now) \/ ServeUnheard(d, now)
      PROVE  Traced'
  <2>1. PICK request : /\ RequestOK(composed, request) /\ Exchange(request, now)
                       /\ composed' = composed
    <3>1. CASE Arrive(now)
      BY <1>0, <3>1 DEF Arrive, devices, SyncInv
    <3>2. ASSUME NEW d \in Device, Serve(d, now) \/ ServeUnheard(d, now)
          PROVE  /\ RequestOK(composed, worker[d].request) /\ Exchange(worker[d].request, now)
                 /\ composed' = composed
      <4>1. /\ worker[d].request # None /\ Exchange(worker[d].request, now)
            /\ composed' = composed
        BY <3>2 DEF Serve, ServeUnheard, Handled, Waiting
      <4>2. WorkerOK(composed, d, worker[d])
        BY <1>0 DEF SyncInv
      <4> QED BY <4>1, <4>2 DEF WorkerOK
    <3> QED BY <1>4, <3>1, <3>2
  <2>2. now \in Nat
    BY SyncConstants
  <2> QED BY <1>0, <2>1, <2>2, TracedServes
<1>5. CASE Operate
  <2>1. UNCHANGED <<state, composed>>
    BY <1>0, <1>5 DEF Operate, Revoke, Backup, devices, server
  <2> QED BY <1>1, <2>1
<1>6. CASE UNCHANGED vars
  BY <1>1, <1>6 DEF vars, serverVars, server, devices
<1> QED BY <1>2, <1>3, <1>4, <1>5, <1>6 DEF Next

LEMMA TracedStarts ==
  ASSUME Init
  PROVE  Traced
<1>1. composed = <<>> /\ state = Apply(Empty, Founding, 0)
  BY DEF Init
<1>2. state.used \subseteq Empty.used \cup Names(Founding)
  BY <1>1, Foundation, FoundingTaken, ApplyUses
<1>3. Empty.used = {}
  <2>1. Empty = NewState(FreshIn(Generation, {}))
    BY DEF Empty
  <2> QED BY <2>1 DEF NewState
<1>4. Names(Founding) = SeedIds
  BY DEF Names, Founding, SeedIds
<1>5. DrawnOnce(composed)
  BY <1>1 DEF DrawnOnce
<1>6. Sourced(composed, state)
  BY <1>2, <1>3, <1>4 DEF Sourced
<1> QED BY <1>5, <1>6 DEF Traced

\* While no backup came back and nobody else has intervened - a device's confirmed queue is
\* the server's - what a device shows of its pending edits is what the server will make of
\* them: it refuses the same ones, and the rest gives the same order, contents and tokens,
\* although the device knows only the live tasks and its clock is not the server's.
THEOREM SpecForecast == Spec => [](restores = 0 => Forecast)
<1> DEFINE Inv == restores \in Nat /\ (restores = 0 => LedgerInv /\ Traced)
<1>1. Init => Inv
  <2>1. Init => restores = 0
    BY DEF Init
  <2> QED BY <2>1, LedgerStarts, TracedStarts
<1>2. Inv /\ [Next]_vars => Inv'
  <2> SUFFICES ASSUME Inv, [Next]_vars PROVE Inv'
    OBVIOUS
  <2>1. restores' \in Nat /\ (restores' = 0 => restores = 0)
    BY RestoresGrow
  <2>2. restores' = 0 => LedgerInv' /\ Traced'
    BY <2>1, LedgerSteps, TracedSteps
  <2> QED BY <2>1, <2>2
<1>3. Inv => (restores = 0 => Forecast)
  BY ForecastHolds
<1> HIDE DEF Inv
<1> QED BY <1>1, <1>2, <1>3, PTL DEF Spec
=============================================================================
