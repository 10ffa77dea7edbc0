----------------------------- MODULE ShellProofs -----------------------------
(***************************************************************************)
(* The panel never goes back in time and a service that was told to quit   *)
(* stays stopped, for any number of requests, changes, crashes, quits and  *)
(* starts.                                                                 *)
(***************************************************************************)
EXTENDS ShellSession, Integers, SequenceTheorems, FiniteSetTheorems, TLAPS

(***************************************************************************)
(* Sequences of which some elements are left out                           *)
(***************************************************************************)
\* A bounded set of numbers has a least one.
LEMMA LeastOne ==
  ASSUME NEW n \in Nat, NEW I \in SUBSET (1..n), I # {}
  PROVE  \E m \in I : \A j \in I : m <= j
<1> DEFINE Below(i) == {j \in I : j <= i}
           Order == StrictSubsetOrdering(1..n)
           All == {Below(i) : i \in I}
<1>1. IsWellFoundedOn(Order, FiniteSubsetsOf(1..n))
  BY FS_StrictSubsetOrderingWellFounded
<1>2. All \subseteq FiniteSubsetsOf(1..n)
  <2>1. IsFiniteSet(1..n)
    BY FS_Interval
  <2>2. FiniteSubsetsOf(1..n) = SUBSET (1..n)
    BY <2>1, FS_FiniteSubsetsOfFinite
  <2>3. All \subseteq SUBSET (1..n)
    BY Zenon
  <2> QED BY <2>2, <2>3, Zenon
<1>3. All # {}
  OBVIOUS
<1>4. PICK D \in All : \A E \in All : <<E, D>> \notin Order
  <2> HIDE DEF All, Order
  <2> QED BY <1>1, <1>2, <1>3, WFMin
<1>5. PICK m \in I : D = Below(m)
  BY <1>4
<1>6. \A j \in I : m <= j
  <2> SUFFICES ASSUME NEW j \in I, j < m PROVE FALSE
    OBVIOUS
  <2>3. /\ \A x \in I : x <= j => x <= m
        /\ m <= m /\ ~(m <= j)
    OBVIOUS
  <2>1. Below(j) \subseteq Below(m) /\ m \in Below(m) /\ m \notin Below(j)
    BY <2>3, Zenon
  <2>2. <<Below(j), D>> \in Order
    BY <2>1, <1>5 DEF StrictSubsetOrdering
  <2> QED BY <2>2, <1>4
<1> QED BY <1>6

LEMMA UpTo ==
  ASSUME NEW n \in Nat, NEW S, 0 \in S, \A i \in 1..n : i - 1 \in S => i \in S
  PROVE  n \in S
<1> DEFINE I == {i \in 1..n : i \notin S}
<1> SUFFICES ASSUME n \notin S PROVE FALSE
  OBVIOUS
<1>1. I \in SUBSET (1..n) /\ n \in I
  OBVIOUS
<1> HIDE DEF I
<1>2. PICK m \in I : \A j \in I : m <= j
  BY <1>1, LeastOne
<1>3. m \in 1..n /\ m \notin S
  BY <1>2 DEF I
<1>4. m - 1 \notin I
  BY <1>2, <1>3
<1>5. m - 1 \in S
  BY <1>3, <1>4 DEF I
<1> QED BY <1>3, <1>5

\* t is what is left of s at the places h, in order.
Thins(t, s, h) ==
  /\ h \in [1..Len(t) -> 1..Len(s)]
  /\ \A i \in 1..Len(t) : t[i] = s[h[i]]
  /\ \A i, j \in 1..Len(t) : i < j => h[i] < h[j]

\* The places are the kept ones up to n.
Keeps(h, kept, n) == \A k \in 1..n : k \in kept <=> \E i \in DOMAIN h : h[i] = k

LEMMA OnlyKeeps ==
  ASSUME NEW S, NEW seq \in Seq(S), NEW kept
  PROVE  /\ Only(seq, kept) \in Seq(S)
         /\ \E h : Thins(Only(seq, kept), seq, h) /\ Keeps(h, kept, Len(seq))
<1> DEFINE N == Len(seq)
           Body(f, n) == IF n = 0 THEN <<>>
                         ELSE IF n \in kept THEN Append(f[n - 1], seq[n]) ELSE f[n - 1]
           Upto(m, f) == f = [n \in 0..m |-> Body(f, n)]
           Runs1 == {m \in 0..N : \E f : Upto(m, f)}
<1>1. N \in Nat /\ \A i \in 1..N : seq[i] \in S
  BY LenProperties, ElementOfSeq
<1>2. \E f : Upto(N, f)
  <2>1. 0 \in Runs1
    <3> DEFINE f == [n \in 0..0 |-> <<>>]
    <3>1. f = [n \in 0..0 |-> Body(f, n)]
      OBVIOUS
    <3> HIDE DEF f
    <3> QED BY <1>1, <3>1
  <2>2. ASSUME NEW m \in 1..N, m - 1 \in Runs1 PROVE m \in Runs1
    <3>1. PICK g : Upto(m - 1, g)
      BY <2>2
    <3> DEFINE f == [n \in 0..m |-> IF n = m THEN Body(g, m) ELSE g[n]]
    <3>2. \A n \in 0..m : f[n] = Body(f, n)
      <4> SUFFICES ASSUME NEW n \in 0..m PROVE f[n] = Body(f, n)
        OBVIOUS
      <4>1. n # 0 => f[n - 1] = g[n - 1]
        OBVIOUS
      <4>2. CASE n = m
        BY <4>1, <4>2
      <4>3. CASE n # m
        <5>1. n \in 0..(m - 1) /\ f[n] = g[n]
          BY <4>3
        <5>2. g[n] = Body(g, n)
          BY <3>1, <5>1
        <5> QED BY <4>1, <5>1, <5>2
      <4> QED BY <4>2, <4>3
    <3>3. f = [n \in 0..m |-> f[n]]
      OBVIOUS
    <3> HIDE DEF f
    <3>4. Upto(m, f)
      BY <3>2, <3>3
    <3>5. m \in 0..N
      BY <1>1
    <3> QED BY <3>4, <3>5
  <2> HIDE DEF Runs1
  <2>3. N \in Runs1
    BY <1>1, <2>1, <2>2, UpTo
  <2> QED BY <2>3 DEF Runs1
<1> DEFINE part == CHOOSE f : Upto(N, f)
<1>3. Upto(N, part)
  BY <1>2
<1>4. Only(seq, kept) = part[N]
  BY DEF Only
<1> HIDE DEF part
<1>5. \A n \in 0..N : part[n] = Body(part, n)
  BY <1>3
<1> DEFINE Good(n) == /\ part[n] \in Seq(S)
                      /\ \E h : /\ h \in [1..Len(part[n]) -> 1..n]
                                /\ \A i \in 1..Len(part[n]) : part[n][i] = seq[h[i]]
                                /\ \A i, j \in 1..Len(part[n]) : i < j => h[i] < h[j]
                                /\ Keeps(h, kept, n)
           Goods == {n \in 0..N : Good(n)}
<1>6. 0 \in Goods
  <2>1. part[0] = <<>>
    BY <1>1, <1>5
  <2> DEFINE h == [i \in 1..0 |-> 0]
  <2>2. h \in [1..0 -> 1..0] /\ Keeps(h, kept, 0)
    BY DEF Keeps
  <2>3. Len(part[0]) = 0 /\ part[0] \in Seq(S)
    BY <2>1
  <2> HIDE DEF h
  <2> QED BY <1>1, <2>2, <2>3
<1>7. ASSUME NEW n \in 1..N, n - 1 \in Goods PROVE n \in Goods
  <2>0. n \in 0..N
    BY <1>1
  <2> DEFINE old == part[n - 1]
  <2>1. PICK h : /\ h \in [1..Len(old) -> 1..(n - 1)]
                 /\ \A i \in 1..Len(old) : old[i] = seq[h[i]]
                 /\ \A i, j \in 1..Len(old) : i < j => h[i] < h[j]
                 /\ Keeps(h, kept, n - 1)
    BY <1>7
  <2>2. old \in Seq(S) /\ Len(old) \in Nat
    BY <1>7, LenProperties
  <2>3. part[n] = IF n \in kept THEN Append(old, seq[n]) ELSE old
    BY <1>1, <1>5
  <2> HIDE DEF old
  <2>4. CASE n \notin kept
    <3>1. part[n] = old
      BY <2>3, <2>4
    <3>2. h \in [1..Len(old) -> 1..n] /\ DOMAIN h = 1..Len(old)
      BY <2>1
    <3>3. Keeps(h, kept, n)
      <4> SUFFICES ASSUME NEW k \in 1..n PROVE k \in kept <=> \E i \in DOMAIN h : h[i] = k
        BY DEF Keeps
      <4>1. CASE k = n
        <5>1. \A i \in DOMAIN h : h[i] \in 1..(n - 1)
          BY <2>1
        <5> QED BY <2>4, <4>1, <5>1
      <4>2. CASE k # n
        <5>1. k \in 1..(n - 1)
          BY <4>2
        <5> QED BY <2>1, <5>1 DEF Keeps
      <4> QED BY <4>1, <4>2
    <3>4. Good(n)
      BY <2>1, <2>2, <3>1, <3>2, <3>3
    <3> QED BY <2>0, <3>4
  <2>5. CASE n \in kept
    <3> DEFINE l == Len(old) + 1
               g == [i \in 1..l |-> IF i = l THEN n ELSE h[i]]
               new == Append(old, seq[n])
    <3>1. part[n] = new
      BY <2>3, <2>5
    <3>2. seq[n] \in S
      BY <1>1
    <3>3. /\ new \in Seq(S) /\ Len(new) = l
          /\ \A i \in 1..Len(old) : new[i] = old[i]
          /\ new[l] = seq[n]
      BY <2>2, <3>2, AppendProperties
    <3>4. l \in Nat \ {0} /\ \A i \in 1..l : i = l \/ i \in 1..Len(old)
      BY <2>2
    <3>5. g \in [1..l -> 1..n] /\ DOMAIN g = 1..l
      BY <2>1, <3>4
    <3>6. g[l] = n /\ \A i \in 1..Len(old) : i \in 1..l /\ i # l /\ g[i] = h[i] /\ h[i] \in 1..(n - 1)
      BY <2>1, <2>2
    <3> HIDE DEF g, new
    <3>7. \A i \in 1..l : new[i] = seq[g[i]]
      BY <2>1, <3>3, <3>4, <3>6
    <3>8. \A i, j \in 1..l : i < j => g[i] < g[j]
      <4> SUFFICES ASSUME NEW i \in 1..l, NEW j \in 1..l, i < j PROVE g[i] < g[j]
        OBVIOUS
      <4>1. i \in 1..Len(old)
        BY <2>2
      <4>2. CASE j = l
        BY <3>6, <4>1, <4>2
      <4>3. CASE j # l
        <5>1. j \in 1..Len(old)
          BY <3>4, <4>3
        <5> QED BY <2>1, <3>6, <4>1, <5>1
      <4> QED BY <4>2, <4>3
    <3>9. Keeps(g, kept, n)
      <4> SUFFICES ASSUME NEW k \in 1..n PROVE k \in kept <=> \E i \in DOMAIN g : g[i] = k
        BY DEF Keeps
      <4>1. CASE k = n
        BY <2>5, <3>4, <3>5, <3>6, <4>1
      <4>2. CASE k # n
        <5>1. k \in 1..(n - 1) /\ DOMAIN h = 1..Len(old)
          BY <2>1, <4>2
        <5>2. k \in kept <=> \E i \in DOMAIN h : h[i] = k
          BY <2>1, <5>1 DEF Keeps
        <5>3. (\E i \in DOMAIN h : h[i] = k) <=> (\E i \in DOMAIN g : g[i] = k)
          BY <3>4, <3>5, <3>6, <4>2, <5>1
        <5> QED BY <5>2, <5>3
      <4> QED BY <4>1, <4>2
    <3>10. Good(n)
      BY <3>1, <3>3, <3>5, <3>7, <3>8, <3>9
    <3> QED BY <2>0, <3>10
  <2> QED BY <2>4, <2>5
<1>8. N \in Goods
  <2> HIDE DEF Goods
  <2> QED BY <1>1, <1>6, <1>7, UpTo
<1> QED BY <1>1, <1>4, <1>8, LenProperties DEF Thins

(***************************************************************************)
(* Types                                                                   *)
(***************************************************************************)
Key == {"queue", "sync", "settings"}
Snapshot == [queue : Nat, sync : Nat]
Settings == [settings : Nat]

PhoneCall == [what : {"ask", "state", "settings"}, to : Nat \cup {None}, live : BOOLEAN]

Connection ==
  [owner : Nat \cup {None}, stopping : BOOLEAN, retry : BOOLEAN,
   stateReady : BOOLEAN, settingsReady : BOOLEAN,
   reads : SUBSET {"settings", "state"}, behind : BOOLEAN, asked : Int,
   queue : Nat \cup {None}, sync : Nat \cup {None}, settings : Nat \cup {None},
   out : Seq(PhoneCall)]

Message ==
  [kind : {"owner"}, sender : Nat \cup {None}]
  \cup [kind : {"Changed", "SyncStatusChanged"}, sender : Nat, value : Snapshot]
  \cup [kind : {"SettingsChanged"}, sender : Nat, value : Settings]
  \cup [kind : {"Stopping"}, sender : Nat, value : {None}]
  \cup [kind : {"answer"}, what : {"ask"}, error : {None, "failed", "unavailable"}, value : {None}]
  \cup [kind : {"answer"}, what : {"state", "settings"}, error : {"failed", "unavailable"},
        value : {None}]
  \cup [kind : {"answer"}, what : {"state"}, error : {None}, value : Snapshot]
  \cup [kind : {"answer"}, what : {"settings"}, error : {None}, value : Settings]

\* What a message tells of the queue, the status and the settings.
Carries(m, k) ==
  \/ m.kind = "Changed" /\ k \in {"queue", "sync"}
  \/ m.kind = "SyncStatusChanged" /\ k = "sync"
  \/ m.kind = "SettingsChanged" /\ k = "settings"
  \/ /\ m.kind = "answer" /\ m.error = None
     /\ \/ m.what = "state" /\ k \in {"queue", "sync"}
        \/ m.what = "settings" /\ k = "settings"

LEMMA MessageKinds ==
  ASSUME NEW m \in Message
  PROVE  /\ m.kind \in {"owner", "Changed", "SyncStatusChanged", "SettingsChanged", "Stopping", "answer"}
         /\ m.kind = "owner" => m.sender \in Nat \cup {None}
         /\ m.kind \in {"Changed", "SyncStatusChanged"} => m.sender \in Nat /\ m.value \in Snapshot
         /\ m.kind = "SettingsChanged" => m.sender \in Nat /\ m.value \in Settings
         /\ m.kind = "Stopping" => m.sender \in Nat
         /\ m.kind = "answer" =>
              /\ m.what \in {"ask", "state", "settings"}
              /\ m.error \in {None, "failed", "unavailable"}
              /\ m.what = "state" /\ m.error = None => m.value \in Snapshot
              /\ m.what = "settings" /\ m.error = None => m.value \in Settings
BY NoneAssumption DEF Message

LEMMA CarriedTyped ==
  ASSUME NEW m \in Message, NEW k \in Key, Carries(m, k)
  PROVE  m.value[k] \in Nat
BY MessageKinds DEF Key, Carries, Snapshot, Settings

(***************************************************************************)
(* The connection                                                          *)
(***************************************************************************)
\* A connection between two messages.
AtRest(c) == c \in Connection /\ c.out = <<>>

\* What a handler leaves alone or may only forget.
Forgets(c, r) ==
  /\ r \in Connection
  /\ \A k \in Key : r[k] \in {None, c[k]}
  /\ c.behind => r.behind \/ ~Awaits(r, "state")
  /\ \A i \in DOMAIN r.out : r.out[i].to = r.owner
  /\ r.owner = c.owner

LEMMA RefreshForgets ==
  ASSUME NEW c, AtRest(c)
  PROVE  LET r == Refresh(c)
         IN /\ Forgets(c, r)
            /\ c.stopping => r = c
            /\ \A k \in Key : r[k] = c[k]
            /\ ~c.stopping => r.stopping = FALSE
<1> DEFINE out == <<Call("settings", c), Call("state", c)>>
           r == Refresh(c)
<1>1. CASE c.stopping
  <2>1. r = c
    BY <1>1 DEF Refresh
  <2>2. c \in Connection /\ DOMAIN c.out = {}
    BY DEF AtRest
  <2> QED BY <1>1, <2>1, <2>2 DEF Forgets
<1>2. CASE ~c.stopping
  <2>1. c \in Connection
    BY DEF AtRest
  <2>2. Call("settings", c) \in PhoneCall /\ Call("state", c) \in PhoneCall
    BY <2>1 DEF Call, PhoneCall, Connection
  <2>3. out \in Seq(PhoneCall) /\ DOMAIN out = 1..2
    BY <2>2
  <2>4. /\ out[1] = Call("settings", c) /\ out[2] = Call("state", c)
        /\ out[2].what = "state" /\ out[1].to = c.owner /\ out[2].to = c.owner
    BY DEF Call
  <2> HIDE DEF out
  <2>5. r = [c EXCEPT !.stateReady = FALSE, !.settingsReady = FALSE, !.reads = {"settings", "state"},
                      !.retry = FALSE, !.behind = FALSE, !.out = out]
    <3>1. r = [Unread(c) EXCEPT !.retry = FALSE, !.behind = FALSE, !.reads = {"settings", "state"}, !.out = out]
      BY <1>2 DEF Refresh, out
    <3> QED BY <2>1, <3>1 DEF Unread, Connection
  <2>6. r \in Connection
    BY <2>1, <2>3, <2>5 DEF Connection
  <2>7. /\ \A k \in Key : r[k] = c[k]
        /\ r.out = out /\ r.owner = c.owner /\ r.stopping = c.stopping
    BY <2>1, <2>5 DEF Connection, Key
  <2>8. ~Awaits(r, "state")
    BY <2>3, <2>4, <2>7 DEF Awaits
  <2>9. \A i \in DOMAIN r.out : r.out[i].to = r.owner
    BY <2>3, <2>4, <2>7
  <2>10. r.stopping = FALSE
    BY <1>2, <2>1, <2>7 DEF Connection
  <2> QED BY <1>2, <2>6, <2>7, <2>8, <2>9, <2>10 DEF Forgets
<1> QED BY <1>1, <1>2

\* Two connections that differ in nothing but when they ask again.
Alike(c, r) ==
  /\ r \in Connection
  /\ r.owner = c.owner /\ r.stopping = c.stopping /\ r.behind = c.behind /\ r.out = c.out

LEMMA TakeStateTells ==
  ASSUME NEW c \in Connection, NEW state \in Snapshot, NEW behind \in BOOLEAN
  PROVE  LET r == TakeState(c, state, behind)
         IN /\ Alike(c, r) /\ r.reads = c.reads
            /\ r.queue = state.queue /\ r.settings = c.settings
            /\ r.sync = IF behind THEN c.sync ELSE state.sync
<1> DEFINE s == [c EXCEPT !.stateReady = TRUE, !.queue = state.queue,
                          !.sync = IF behind THEN @ ELSE state.sync]
<1>1. /\ s \in Connection /\ Alike(c, s) /\ s.reads = c.reads
      /\ s.queue = state.queue /\ s.settings = c.settings
      /\ s.sync = IF behind THEN c.sync ELSE state.sync
  BY DEF Connection, Snapshot, Alike
<1> HIDE DEF s
<1>2. LET r == [s EXCEPT !.retry = FALSE]
      IN /\ Alike(s, r) /\ r.reads = s.reads
         /\ r.queue = s.queue /\ r.settings = s.settings /\ r.sync = s.sync
  BY <1>1 DEF Connection, Alike
<1>3. TakeState(c, state, behind) \in {s, [s EXCEPT !.retry = FALSE]}
  BY DEF TakeState, Recovered, s
<1> QED BY <1>1, <1>2, <1>3 DEF Alike

LEMMA TakeSettingsTells ==
  ASSUME NEW c \in Connection, NEW settings \in Nat
  PROVE  LET r == TakeSettings(c, settings)
         IN /\ Alike(c, r) /\ r.reads = c.reads
            /\ r.queue = c.queue /\ r.settings = settings /\ r.sync = c.sync
<1> DEFINE s == [c EXCEPT !.settingsReady = TRUE, !.settings = settings]
<1>1. /\ s \in Connection /\ Alike(c, s) /\ s.reads = c.reads
      /\ s.queue = c.queue /\ s.settings = settings /\ s.sync = c.sync
  BY DEF Connection, Alike
<1> HIDE DEF s
<1>2. LET r == [s EXCEPT !.retry = FALSE]
      IN /\ Alike(s, r) /\ r.reads = s.reads
         /\ r.queue = s.queue /\ r.settings = s.settings /\ r.sync = s.sync
  BY <1>1 DEF Connection, Alike
<1>3. TakeSettings(c, settings) \in {s, [s EXCEPT !.retry = FALSE]}
  BY DEF TakeSettings, Recovered, s
<1> QED BY <1>1, <1>2, <1>3 DEF Alike

LEMMA WithoutTells ==
  ASSUME NEW c \in Connection, NEW read
  PROVE  LET r == Without(c, read)
         IN /\ Alike(c, r) /\ \A k \in Key : r[k] = c[k]
            /\ r.reads = c.reads \ {read} /\ read \notin r.reads
BY DEF Without, Alike, Connection, Key

\* What a message makes of the connection: what it does not carry is kept or
\* forgotten, and what could be older than it is not waited for any more.
Handles(m, c, r) ==
  /\ r \in Connection
  /\ \A k \in Key :
       \/ r[k] \in {None, c[k]}
       \/ /\ Carries(m, k) /\ r[k] = m.value[k]
          /\ ~(k = "sync" /\ m.kind = "answer" /\ c.behind)
  /\ c.behind => r.behind \/ ~Awaits(r, "state")
  /\ \A i \in DOMAIN r.out : r.out[i].to = r.owner
  /\ m.kind = "Changed" => r = c \/ ~Awaits(r, "state")
  /\ m.kind = "SettingsChanged" => r = c \/ ~Awaits(r, "settings")
  /\ m.kind = "SyncStatusChanged" => r = c \/ r.behind
  /\ m.kind # "owner" => r.owner = c.owner /\ (c.stopping => r.stopping /\ r.out = <<>>)
  /\ m.kind = "Stopping" /\ m.sender = c.owner => r.stopping
  /\ m.kind = "owner" => /\ r.owner = m.sender
                         /\ m.sender = None /\ c.stopping => r.stopping /\ r.out = <<>>

\* A message nothing is made of.
LEMMA IgnoredHandles ==
  ASSUME NEW c, AtRest(c), NEW m, m.kind # "owner", m.kind = "Stopping" => m.sender # c.owner
  PROVE  Handles(m, c, c)
<1>1. c \in Connection /\ DOMAIN c.out = {} /\ c.out = <<>>
  BY DEF AtRest
<1> QED BY <1>1 DEF Handles

LEMMA ChangedHandles ==
  ASSUME NEW c, AtRest(c), NEW m \in Message, m.kind = "Changed"
  PROVE  Handles(m, c, Changed(c, m.value))
<1> DEFINE w == Without(c, "state")
           r == TakeState(w, m.value, FALSE)
<1>1. c \in Connection /\ c.out = <<>> /\ DOMAIN c.out = {} /\ m.value \in Snapshot
  BY MessageKinds DEF AtRest
<1>2. /\ Alike(c, w) /\ w \in Connection /\ \A k \in Key : w[k] = c[k]
      /\ "state" \notin w.reads
  BY <1>1, WithoutTells DEF Alike
<1> HIDE DEF w
<1>3. /\ Alike(w, r) /\ r.reads = w.reads
      /\ r.queue = m.value.queue /\ r.settings = w.settings /\ r.sync = m.value.sync
  BY <1>1, <1>2, TakeStateTells
<1>4. r = Changed(c, m.value)
  BY DEF Changed, w
<1> HIDE DEF r
<1>5. Carries(m, "queue") /\ Carries(m, "sync")
  BY DEF Carries
<1>6. \A k \in Key : r[k] = c[k] \/ (Carries(m, k) /\ r[k] = m.value[k])
  BY <1>2, <1>3, <1>5 DEF Key
<1>7. ~Awaits(r, "state")
  BY <1>2, <1>3 DEF Awaits
<1>8. /\ r \in Connection /\ r.out = <<>> /\ DOMAIN r.out = {}
      /\ r.owner = c.owner /\ r.stopping = c.stopping /\ r.behind = c.behind
  BY <1>1, <1>2, <1>3 DEF Alike
<1> QED BY <1>4, <1>6, <1>7, <1>8 DEF Handles

LEMMA SyncStatusChangedHandles ==
  ASSUME NEW c, AtRest(c), NEW m \in Message, m.kind = "SyncStatusChanged"
  PROVE  Handles(m, c, SyncStatusChanged(c, m.value.sync))
<1> DEFINE r == SyncStatusChanged(c, m.value.sync)
<1>1. c \in Connection /\ c.out = <<>> /\ m.value \in Snapshot /\ Carries(m, "sync")
  BY MessageKinds DEF AtRest, Carries
<1>2. /\ r \in Connection /\ r.out = c.out /\ r.owner = c.owner /\ r.stopping = c.stopping
      /\ r.behind /\ r.sync = m.value.sync /\ r.queue = c.queue /\ r.settings = c.settings
  BY <1>1 DEF SyncStatusChanged, Connection, Snapshot
<1> HIDE DEF r
<1>3. \A k \in Key : r[k] = c[k] \/ (Carries(m, k) /\ r[k] = m.value[k])
  BY <1>1, <1>2 DEF Key
<1>4. r.out = <<>> /\ DOMAIN r.out = {}
  BY <1>1, <1>2
<1> QED BY <1>2, <1>3, <1>4 DEF Handles, r

LEMMA SettingsChangedHandles ==
  ASSUME NEW c, AtRest(c), NEW m \in Message, m.kind = "SettingsChanged"
  PROVE  Handles(m, c, SettingsChanged(c, m.value.settings))
<1> DEFINE w == Without(c, "settings")
           r == TakeSettings(w, m.value.settings)
<1>1. c \in Connection /\ c.out = <<>> /\ DOMAIN c.out = {} /\ m.value.settings \in Nat
  BY MessageKinds DEF AtRest, Settings
<1>2. /\ Alike(c, w) /\ w \in Connection /\ \A k \in Key : w[k] = c[k]
      /\ "settings" \notin w.reads
  BY <1>1, WithoutTells DEF Alike
<1> HIDE DEF w
<1>3. /\ Alike(w, r) /\ r.reads = w.reads
      /\ r.queue = w.queue /\ r.settings = m.value.settings /\ r.sync = w.sync
  BY <1>1, <1>2, TakeSettingsTells
<1>4. r = SettingsChanged(c, m.value.settings)
  BY DEF SettingsChanged, w
<1> HIDE DEF r
<1>5. Carries(m, "settings")
  BY DEF Carries
<1>6. \A k \in Key : r[k] = c[k] \/ (Carries(m, k) /\ r[k] = m.value[k] /\ k = "settings")
  BY <1>2, <1>3, <1>5 DEF Key
<1>7. ~Awaits(r, "settings")
  BY <1>2, <1>3 DEF Awaits
<1>8. /\ r \in Connection /\ r.out = <<>> /\ DOMAIN r.out = {}
      /\ r.owner = c.owner /\ r.stopping = c.stopping /\ r.behind = c.behind
  BY <1>1, <1>2, <1>3 DEF Alike
<1> QED BY <1>4, <1>6, <1>7, <1>8 DEF Handles

LEMMA StoppingHandles ==
  ASSUME NEW c, AtRest(c), NEW m, m.kind = "Stopping"
  PROVE  Handles(m, c, Stopping(c))
<1> DEFINE r == Stopping(c)
<1>1. c \in Connection /\ c.out = <<>>
  BY DEF AtRest
<1>2. /\ r \in Connection /\ r.out = c.out /\ r.owner = c.owner /\ r.stopping
      /\ r.behind = c.behind /\ \A k \in Key : r[k] = c[k]
  BY <1>1 DEF Stopping, Connection, Key
<1> HIDE DEF r
<1>3. r.out = <<>> /\ DOMAIN r.out = {}
  BY <1>1, <1>2
<1> QED BY <1>2, <1>3 DEF Handles, r

\* Handlers that only forget.
LEMMA ScheduleRetryForgets ==
  ASSUME NEW c, AtRest(c)
  PROVE  LET r == ScheduleRetry(c)
         IN AtRest(r) /\ Alike(c, r) /\ \A k \in Key : r[k] = c[k]
BY DEF ScheduleRetry, AtRest, Alike, Connection, Key

LEMMA IdleForgets ==
  ASSUME NEW c, AtRest(c)
  PROVE  LET r == Idle(c)
         IN AtRest(r) /\ Alike(c, r) /\ \A k \in Key : r[k] \in {None, c[k]}
<1> DEFINE u == Unread(c)
<1>1. AtRest(u) /\ Alike(c, u) /\ \A k \in Key : u[k] = c[k]
  BY DEF Unread, AtRest, Alike, Connection, Key
<1> HIDE DEF u
<1>2. LET r == [u EXCEPT !.retry = FALSE, !.queue = None]
      IN AtRest(r) /\ Alike(u, r) /\ \A k \in Key : r[k] \in {None, u[k]}
  BY <1>1 DEF AtRest, Alike, Connection, Key
<1> QED BY <1>1, <1>2 DEF Idle, Alike, u

LEMMA AlikeHandles ==
  ASSUME NEW c, AtRest(c), NEW r, Alike(c, r), NEW m, m.kind = "answer",
         \A k \in Key :
           \/ r[k] \in {None, c[k]}
           \/ Carries(m, k) /\ r[k] = m.value[k] /\ ~(k = "sync" /\ c.behind)
  PROVE  Handles(m, c, r)
<1>1. r.out = <<>> /\ DOMAIN r.out = {}
  BY DEF AtRest, Alike
<1> QED BY <1>1 DEF Handles, Alike

LEMMA SettingsReadHandles ==
  ASSUME NEW c, AtRest(c), NEW m \in Message, m.kind = "answer", m.what = "settings"
  PROVE  Handles(m, c, SettingsRead(c, m))
<1> DEFINE w == Without(c, "settings")
           r == SettingsRead(c, m)
<1>1. c \in Connection /\ c.out = <<>>
  BY DEF AtRest
<1>2. Alike(c, w) /\ AtRest(w) /\ \A k \in Key : w[k] = c[k]
  BY <1>1, WithoutTells DEF Alike, AtRest
<1>3. CASE m.error # None
  <2>1. r = ScheduleRetry(w)
    BY <1>3 DEF SettingsRead
  <2> HIDE DEF w, r
  <2>2. Alike(w, r) /\ \A k \in Key : r[k] = w[k]
    BY <1>2, <2>1, ScheduleRetryForgets
  <2>3. Alike(c, r) /\ \A k \in Key : r[k] \in {None, c[k]}
    BY <1>2, <2>2 DEF Alike
  <2>4. Handles(m, c, r)
    BY <2>3, AlikeHandles
  <2> QED BY <2>4 DEF r
<1>4. CASE m.error = None
  <2>1. r = TakeSettings(w, m.value.settings) /\ m.value.settings \in Nat
    BY <1>4, MessageKinds DEF SettingsRead, Settings
  <2> HIDE DEF w, r
  <2>2. /\ Alike(w, r) /\ r.queue = w.queue /\ r.settings = m.value.settings /\ r.sync = w.sync
    BY <1>2, <2>1, TakeSettingsTells DEF AtRest
  <2>3. Carries(m, "settings")
    BY <1>4 DEF Carries
  <2>4. \A k \in Key : \/ r[k] \in {None, c[k]}
                       \/ Carries(m, k) /\ r[k] = m.value[k] /\ ~(k = "sync" /\ c.behind)
    BY <1>2, <2>2, <2>3 DEF Key
  <2>5. Alike(c, r)
    BY <1>2, <2>2 DEF Alike
  <2>6. Handles(m, c, r)
    BY <2>4, <2>5, AlikeHandles
  <2> QED BY <2>6 DEF r
<1> QED BY <1>3, <1>4

LEMMA StateReadHandles ==
  ASSUME NEW c, AtRest(c), NEW m \in Message, m.kind = "answer", m.what = "state"
  PROVE  Handles(m, c, StateRead(c, m))
<1> DEFINE w == Without(c, "state")
           r == StateRead(c, m)
<1>1. c \in Connection /\ c.out = <<>> /\ c.behind \in BOOLEAN
  BY DEF AtRest, Connection
<1>2. Alike(c, w) /\ AtRest(w) /\ \A k \in Key : w[k] = c[k]
  BY <1>1, WithoutTells DEF Alike, AtRest
<1>3. CASE m.error = None
  <2>1. r = TakeState(w, m.value, c.behind) /\ m.value \in Snapshot
    BY <1>3, MessageKinds DEF StateRead
  <2> HIDE DEF w, r
  <2>2. /\ Alike(w, r) /\ r.queue = m.value.queue /\ r.settings = w.settings
        /\ r.sync = IF c.behind THEN w.sync ELSE m.value.sync
    BY <1>1, <1>2, <2>1, TakeStateTells DEF AtRest
  <2>3. Carries(m, "queue") /\ Carries(m, "sync")
    BY <1>3 DEF Carries
  <2>4. \A k \in Key : \/ r[k] \in {None, c[k]}
                       \/ Carries(m, k) /\ r[k] = m.value[k] /\ ~(k = "sync" /\ c.behind)
    BY <1>2, <2>2, <2>3 DEF Key
  <2>5. Alike(c, r)
    BY <1>2, <2>2 DEF Alike
  <2>6. Handles(m, c, r)
    BY <2>4, <2>5, AlikeHandles
  <2> QED BY <2>6 DEF r
<1>4. CASE m.error # None
  <2>1. r = IF m.error = "unavailable" THEN Idle(w) ELSE ScheduleRetry([w EXCEPT !.queue = None])
    BY <1>4 DEF StateRead
  <2> HIDE DEF w, r
  <2> DEFINE v == [w EXCEPT !.queue = None]
  <2>2. AtRest(v) /\ Alike(w, v) /\ \A k \in Key : v[k] \in {None, w[k]}
    BY <1>2 DEF AtRest, Alike, Connection, Key
  <2> HIDE DEF v
  <2>3. Alike(w, Idle(w)) /\ \A k \in Key : Idle(w)[k] \in {None, w[k]}
    BY <1>2, IdleForgets
  <2>4. Alike(v, ScheduleRetry(v)) /\ \A k \in Key : ScheduleRetry(v)[k] = v[k]
    BY <2>2, ScheduleRetryForgets
  <2>5. r \in {Idle(w), ScheduleRetry(v)}
    BY <2>1 DEF v
  <2>6. Alike(c, r) /\ \A k \in Key : r[k] \in {None, c[k]}
    BY <1>2, <2>2, <2>3, <2>4, <2>5 DEF Alike
  <2>7. Handles(m, c, r)
    BY <2>6, AlikeHandles
  <2> QED BY <2>7 DEF r
<1> QED BY <1>3, <1>4

LEMMA AnsweredHandles ==
  ASSUME NEW c, AtRest(c), NEW m \in Message, m.kind = "answer", m.what = "ask"
  PROVE  Handles(m, c, Answered(c, m))
<1> DEFINE done == [c EXCEPT !.asked = @ - 1]
           r == Answered(c, m)
<1>1. AtRest(done) /\ Alike(c, done) /\ \A k \in Key : done[k] = c[k]
  BY DEF AtRest, Alike, Connection, Key
<1>2. r = IF c.stopping THEN done ELSE IF m.error = "unavailable" THEN Idle(done) ELSE Refresh(done)
  BY DEF Answered
<1> HIDE DEF done, r
<1>3. CASE c.stopping \/ m.error = "unavailable"
  <2>1. Alike(done, Idle(done)) /\ \A k \in Key : Idle(done)[k] \in {None, done[k]}
    BY <1>1, IdleForgets
  <2>2. r \in {done, Idle(done)}
    BY <1>2, <1>3
  <2>3. Alike(c, r) /\ \A k \in Key : r[k] \in {None, c[k]}
    BY <1>1, <2>1, <2>2 DEF Alike
  <2>4. Handles(m, c, r)
    BY <2>3, AlikeHandles
  <2> QED BY <2>4 DEF r
<1>4. CASE ~c.stopping /\ m.error # "unavailable"
  <2>1. r = Refresh(done)
    BY <1>2, <1>4
  <2>2. Forgets(done, r)
    BY <1>1, <2>1, RefreshForgets
  <2>3. /\ r.owner = c.owner /\ \A k \in Key : r[k] \in {None, c[k]}
        /\ c.behind => r.behind \/ ~Awaits(r, "state")
    BY <1>1, <2>2 DEF Forgets, Alike
  <2>4. Handles(m, c, r)
    BY <1>4, <2>2, <2>3 DEF Handles, Forgets
  <2> QED BY <2>4 DEF r
<1> QED BY <1>3, <1>4

LEMMA OwnerChangedHandles ==
  ASSUME NEW c, AtRest(c), NEW m \in Message, m.kind = "owner"
  PROVE  Handles(m, c, OwnerChanged(c, m.sender))
<1> DEFINE o == m.sender
           u == Unread(c)
           moved == [u EXCEPT !.owner = o, !.sync = None]
           gone == [moved EXCEPT !.asked = 0, !.queue = None]
           now == IF c.owner = None THEN moved ELSE gone
           fresh == [now EXCEPT !.stopping = FALSE, !.retry = FALSE]
           r == OwnerChanged(c, o)
<1>1. c \in Connection /\ c.out = <<>> /\ DOMAIN c.out = {} /\ o \in Nat \cup {None}
  BY MessageKinds DEF AtRest
<1>2. CASE o = c.owner
  <2>1. r = c
    BY <1>2 DEF OwnerChanged
  <2> HIDE DEF r
  <2>2. Handles(m, c, r)
    BY <1>1, <1>2, <2>1 DEF Handles
  <2> QED BY <2>2 DEF r
<1>3. CASE o # c.owner
  <2>1. r = IF o = None THEN ScheduleRetry(now) ELSE Refresh(fresh)
    BY <1>3 DEF OwnerChanged
  <2>2. AtRest(u) /\ Alike(c, u) /\ \A k \in Key : u[k] = c[k]
    BY DEF Unread, AtRest, Alike, Connection, Key
  <2> HIDE DEF u
  <2>3. /\ AtRest(moved) /\ moved.owner = o /\ moved.stopping = u.stopping /\ moved.behind = u.behind
        /\ \A k \in Key : moved[k] \in {None, u[k]}
    BY <1>1, <2>2 DEF AtRest, Connection, Key
  <2> HIDE DEF moved
  <2>4. /\ AtRest(gone) /\ gone.owner = o /\ gone.stopping = moved.stopping
        /\ gone.behind = moved.behind /\ \A k \in Key : gone[k] \in {None, moved[k]}
    <3> DEFINE held == [moved EXCEPT !.asked = 0]
    <3>0. moved \in Connection /\ moved.out = <<>> /\ moved.owner = o
      BY <2>3 DEF AtRest
    <3>1. held \in Connection /\ held.out = moved.out /\ held.owner = o
          /\ held.stopping = moved.stopping /\ held.behind = moved.behind
          /\ held.sync = moved.sync /\ held.settings = moved.settings
      BY <3>0 DEF Connection
    <3>4. gone = [held EXCEPT !.queue = None]
      OBVIOUS
    <3> HIDE DEF held, gone
    <3>2. gone \in Connection
      BY <3>1, <3>4 DEF Connection
    <3>3. /\ gone.out = <<>> /\ gone.owner = o /\ gone.stopping = moved.stopping
          /\ gone.behind = moved.behind
          /\ gone.queue = None /\ gone.sync = moved.sync /\ gone.settings = moved.settings
      BY <3>0, <3>1, <3>4 DEF Connection
    <3> QED BY <3>2, <3>3 DEF AtRest, Key
  <2> HIDE DEF gone
  <2>5. /\ AtRest(now) /\ now.owner = o /\ now.stopping = c.stopping /\ now.behind = c.behind
        /\ \A k \in Key : now[k] \in {None, c[k]}
    BY <2>2, <2>3, <2>4 DEF Alike
  <2> HIDE DEF now
  <2>6. CASE o = None
    <3>1. r = ScheduleRetry(now)
      BY <2>1, <2>6
    <3> HIDE DEF r
    <3>2. AtRest(r) /\ Alike(now, r) /\ \A k \in Key : r[k] = now[k]
      BY <2>5, <3>1, ScheduleRetryForgets
    <3>3. /\ r \in Connection /\ r.out = <<>> /\ DOMAIN r.out = {} /\ r.owner = o
          /\ r.stopping = c.stopping /\ r.behind = c.behind
          /\ \A k \in Key : r[k] \in {None, c[k]}
      BY <2>5, <3>2 DEF AtRest, Alike
    <3>4. Handles(m, c, r)
      BY <3>3 DEF Handles
    <3> QED BY <3>4 DEF r
  <2>7. CASE o # None
    <3>1. r = Refresh(fresh)
      BY <2>1, <2>7
    <3>2. /\ AtRest(fresh) /\ fresh.owner = o /\ fresh.behind = c.behind
          /\ \A k \in Key : fresh[k] = now[k]
      BY <2>5 DEF AtRest, Connection, Key
    <3> HIDE DEF fresh, r
    <3>3. Forgets(fresh, r)
      BY <3>1, <3>2, RefreshForgets
    <3>4. /\ r \in Connection /\ r.owner = o /\ \A k \in Key : r[k] \in {None, c[k]}
          /\ c.behind => r.behind \/ ~Awaits(r, "state")
          /\ \A i \in DOMAIN r.out : r.out[i].to = r.owner
      BY <2>5, <3>2, <3>3 DEF Forgets
    <3>5. Handles(m, c, r)
      BY <2>7, <3>4 DEF Handles
    <3> QED BY <3>5 DEF r
  <2> QED BY <2>6, <2>7
<1> QED BY <1>2, <1>3

LEMMA HandledHandles ==
  ASSUME AtRest(conn), NEW m \in Message
  PROVE  Handles(m, conn, Handled(m))
<1> DEFINE r == Handled(m)
<1>1. m.kind \in {"owner", "Changed", "SyncStatusChanged", "SettingsChanged", "Stopping", "answer"}
  BY MessageKinds
<1>2. CASE m.kind = "owner"
  <2>1. r = OwnerChanged(conn, m.sender)
    BY <1>2 DEF Handled
  <2> QED BY <1>2, <2>1, OwnerChangedHandles
<1>3. CASE m.kind = "answer"
  <2>1. r = Reply(conn, m) /\ m.what \in {"ask", "state", "settings"}
    BY <1>3, MessageKinds DEF Handled
  <2>2. CASE m.what = "settings"
    <3>1. r = SettingsRead(conn, m)
      BY <2>1, <2>2 DEF Reply
    <3> QED BY <1>3, <2>2, <3>1, SettingsReadHandles
  <2>3. CASE m.what = "state"
    <3>1. r = StateRead(conn, m)
      BY <2>1, <2>3 DEF Reply
    <3> QED BY <1>3, <2>3, <3>1, StateReadHandles
  <2>4. CASE m.what = "ask"
    <3>1. r = Answered(conn, m)
      BY <2>1, <2>4 DEF Reply
    <3> QED BY <1>3, <2>4, <3>1, AnsweredHandles
  <2> QED BY <2>1, <2>2, <2>3, <2>4
<1>4. CASE m.kind \notin {"owner", "answer"} /\ m.sender = conn.owner
  <2>1. CASE m.kind = "Stopping"
    <3>1. r = Stopping(conn)
      BY <1>4, <2>1 DEF Handled
    <3> QED BY <2>1, <3>1, StoppingHandles
  <2>2. CASE m.kind = "Changed"
    <3>1. r = Changed(conn, m.value)
      BY <1>4, <2>2 DEF Handled
    <3> QED BY <2>2, <3>1, ChangedHandles
  <2>3. CASE m.kind = "SyncStatusChanged"
    <3>1. r = SyncStatusChanged(conn, m.value.sync)
      BY <1>4, <2>3 DEF Handled
    <3> QED BY <2>3, <3>1, SyncStatusChangedHandles
  <2>4. CASE m.kind = "SettingsChanged"
    <3>1. r = SettingsChanged(conn, m.value.settings)
      BY <1>4, <2>4 DEF Handled
    <3> QED BY <2>4, <3>1, SettingsChangedHandles
  <2> QED BY <1>1, <1>4, <2>1, <2>2, <2>3, <2>4
<1>5. CASE m.kind \notin {"owner", "answer"} /\ m.sender # conn.owner
  <2>1. r = conn
    BY <1>5 DEF Handled
  <2> QED BY <1>5, <2>1, IgnoredHandles
<1> QED BY <1>2, <1>3, <1>4, <1>5

(***************************************************************************)
(* What the shell does to the messages                                     *)
(***************************************************************************)
Counted(h) == DOMAIN h = Key /\ \A k \in Key : h[k] \in Nat

Typed ==
  /\ AtRest(conn)
  /\ DOMAIN service = {"phase", "gen", "has"}
  /\ service.phase \in {"absent", "starting", "ready", "stopping"}
  /\ service.gen \in Nat /\ Counted(service.has)
  /\ calls \in Seq(PhoneCall) /\ inbound \in Seq(Message)
  /\ wanted \in BOOLEAN /\ Counted(seen)

LEMMA MaxOfTwo ==
  ASSUME NEW a \in Nat, NEW b \in Nat
  PROVE  FS!Max({a, b}) = IF a <= b THEN b ELSE a
BY DEF FS!Max

LEMMA Removed ==
  ASSUME NEW S, NEW s \in Seq(S), NEW i \in 1..Len(s)
  PROVE  LET t == Sq!RemoveAt(s, i)
         IN /\ t \in Seq(S) /\ Len(t) = Len(s) - 1
            /\ \A j \in 1..Len(t) : t[j] = s[IF j < i THEN j ELSE j + 1]
<1> DEFINE a == SubSeq(s, 1, i - 1)
           b == SubSeq(s, i + 1, Len(s))
<1>1. Len(s) \in Nat /\ \A j \in 1..Len(s) : s[j] \in S
  BY LenProperties, ElementOfSeq
<1>2. /\ a \in Seq(S) /\ Len(a) = i - 1
      /\ \A j \in 1..(i - 1) : a[j] = s[j]
  <2>1. 1 \in Int /\ i - 1 \in Int /\ \A j \in 1..(i - 1) : s[j] \in S
    BY <1>1
  <2>2. /\ a \in Seq(S) /\ Len(a) = IF 1 <= i - 1 THEN (i - 1) - 1 + 1 ELSE 0
        /\ \A j \in 1..((i - 1) - 1 + 1) : a[j] = s[1 + j - 1]
    BY <2>1, SubSeqProperties
  <2> HIDE DEF a
  <2>3. Len(a) = i - 1
    BY <1>1, <2>2
  <2>4. \A j \in 1..(i - 1) : a[j] = s[j]
    <3> SUFFICES ASSUME NEW j \in 1..(i - 1) PROVE a[j] = s[j]
      OBVIOUS
    <3>1. j \in 1..((i - 1) - 1 + 1) /\ 1 + j - 1 = j
      BY <1>1
    <3> QED BY <2>2, <3>1
  <2> QED BY <2>2, <2>3, <2>4
<1>3. /\ b \in Seq(S) /\ Len(b) = Len(s) - i
      /\ \A j \in 1..(Len(s) - i) : b[j] = s[i + j]
  <2>1. i + 1 \in Int /\ Len(s) \in Int /\ \A j \in (i + 1)..Len(s) : s[j] \in S
    BY <1>1
  <2>2. /\ b \in Seq(S) /\ Len(b) = IF i + 1 <= Len(s) THEN Len(s) - (i + 1) + 1 ELSE 0
        /\ \A j \in 1..(Len(s) - (i + 1) + 1) : b[j] = s[(i + 1) + j - 1]
    BY <2>1, SubSeqProperties
  <2> HIDE DEF b
  <2>3. Len(b) = Len(s) - i
    BY <1>1, <2>2
  <2>4. \A j \in 1..(Len(s) - i) : b[j] = s[i + j]
    <3> SUFFICES ASSUME NEW j \in 1..(Len(s) - i) PROVE b[j] = s[i + j]
      OBVIOUS
    <3>1. j \in 1..(Len(s) - (i + 1) + 1) /\ (i + 1) + j - 1 = i + j
      BY <1>1
    <3> QED BY <2>2, <3>1
  <2> QED BY <2>2, <2>3, <2>4
<1> DEFINE t == a \o b
<1>4. Sq!RemoveAt(s, i) = t
  BY DEF Sq!RemoveAt
<1> HIDE DEF a, b
<1>5. /\ t \in Seq(S) /\ Len(t) = Len(a) + Len(b)
      /\ \A j \in 1..(Len(a) + Len(b)) : t[j] = IF j <= Len(a) THEN a[j] ELSE b[j - Len(a)]
  BY <1>2, <1>3, ConcatProperties
<1> HIDE DEF t
<1>6. Len(t) = Len(s) - 1
  BY <1>1, <1>2, <1>3, <1>5
<1>7. ASSUME NEW j \in 1..Len(t) PROVE t[j] = s[IF j < i THEN j ELSE j + 1]
  <2>1. j \in 1..(Len(a) + Len(b)) /\ j \in Int
    BY <1>5
  <2>2. CASE j < i
    <3>1. j \in 1..(i - 1) /\ j <= Len(a)
      BY <1>2, <2>1, <2>2
    <3> QED BY <1>2, <1>5, <2>1, <2>2, <3>1
  <2>3. CASE ~(j < i)
    <3>1. j - (i - 1) \in 1..(Len(s) - i) /\ ~(j <= Len(a)) /\ i + (j - (i - 1)) = j + 1
      BY <1>1, <1>2, <1>6, <2>1, <2>3
    <3>2. t[j] = b[j - (i - 1)]
      BY <1>2, <1>5, <2>1, <3>1
    <3> QED BY <1>3, <2>3, <3>1, <3>2
  <2> QED BY <2>2, <2>3
<1> QED BY <1>4, <1>5, <1>6, <1>7

\* What comes in after the shell took the i-th message (none if i is 0) and became c.
Passes(i, c, g) ==
  /\ g \in [1..Len(inbound') -> 1..Len(inbound)]
  /\ \A j \in 1..Len(inbound') :
       /\ g[j] # i /\ inbound'[j] = inbound[g[j]]
       /\ inbound'[j].kind = "answer" => Awaits(c, inbound'[j].what)
  /\ \A j, l \in 1..Len(inbound') : j < l => g[j] < g[l]
  /\ \A n \in 1..Len(inbound) :
       n # i /\ inbound[n].kind # "answer" => \E j \in 1..Len(inbound') : g[j] = n

Taken(i, rest) ==
  \/ i = 0 /\ rest = inbound
  \/ i \in 1..Len(inbound) /\ rest = Sq!RemoveAt(inbound, i)

LEMMA RestOf ==
  ASSUME Typed, NEW i, NEW rest, Taken(i, rest)
  PROVE  /\ rest \in Seq(Message)
         /\ \E f : /\ f \in [1..Len(rest) -> 1..Len(inbound)]
                   /\ \A j \in 1..Len(rest) : f[j] # i /\ rest[j] = inbound[f[j]]
                   /\ \A j, l \in 1..Len(rest) : j < l => f[j] < f[l]
                   /\ \A n \in 1..Len(inbound) : n # i => \E j \in 1..Len(rest) : f[j] = n
<1>1. inbound \in Seq(Message) /\ Len(inbound) \in Nat
  BY LenProperties DEF Typed
<1>2. CASE i = 0
  <2> DEFINE f == [j \in 1..Len(rest) |-> j]
  <2>1. rest = inbound
    BY <1>1, <1>2 DEF Taken
  <2>2. /\ f \in [1..Len(rest) -> 1..Len(inbound)]
        /\ \A j \in 1..Len(rest) : f[j] = j
    BY <2>1
  <2> HIDE DEF f
  <2> QED BY <1>1, <1>2, <2>1, <2>2
<1>3. CASE i # 0
  <2>1. i \in 1..Len(inbound) /\ rest = Sq!RemoveAt(inbound, i)
    BY <1>3 DEF Taken
  <2>2. /\ rest \in Seq(Message) /\ Len(rest) = Len(inbound) - 1
        /\ \A j \in 1..Len(rest) : rest[j] = inbound[IF j < i THEN j ELSE j + 1]
    BY <1>1, <2>1, Removed
  <2> DEFINE f == [j \in 1..Len(rest) |-> IF j < i THEN j ELSE j + 1]
  <2>3. /\ f \in [1..Len(rest) -> 1..Len(inbound)]
        /\ \A j \in 1..Len(rest) : f[j] = IF j < i THEN j ELSE j + 1
    BY <1>1, <2>1, <2>2
  <2> HIDE DEF f
  <2>4. \A j \in 1..Len(rest) : f[j] # i /\ rest[j] = inbound[f[j]]
    <3> SUFFICES ASSUME NEW j \in 1..Len(rest) PROVE f[j] # i /\ rest[j] = inbound[f[j]]
      OBVIOUS
    <3>1. f[j] = IF j < i THEN j ELSE j + 1
      BY <2>3
    <3>2. rest[j] = inbound[f[j]]
      BY <2>2, <3>1
    <3>3. f[j] # i
      BY <1>1, <2>1, <3>1
    <3> QED BY <3>2, <3>3
  <2>5. \A j, l \in 1..Len(rest) : j < l => f[j] < f[l]
    BY <1>1, <2>1, <2>2, <2>3
  <2>6. \A n \in 1..Len(inbound) : n # i => \E j \in 1..Len(rest) : f[j] = n
    <3> SUFFICES ASSUME NEW n \in 1..Len(inbound), n # i
                 PROVE  \E j \in 1..Len(rest) : f[j] = n
      OBVIOUS
    <3>1. CASE n < i
      <4>1. n \in 1..Len(rest) /\ f[n] = n
        BY <1>1, <2>1, <2>2, <2>3, <3>1
      <4> QED BY <4>1
    <3>2. CASE ~(n < i)
      <4>1. n - 1 \in 1..Len(rest) /\ f[n - 1] = n
        BY <1>1, <2>1, <2>2, <2>3, <3>2
      <4> QED BY <4>1
    <3> QED BY <3>1, <3>2
  <2> QED BY <2>2, <2>3, <2>4, <2>5, <2>6
<1> QED BY <1>2, <1>3

LEMMA ShellPasses ==
  ASSUME Typed, NEW c, NEW i, NEW rest, Taken(i, rest), Shell(c, rest)
  PROVE  inbound' \in Seq(Message) /\ \E g : Passes(i, c, g)
<1> DEFINE kept == {j \in DOMAIN rest : rest[j].kind = "answer" => Awaits(c, rest[j].what)}
<1>1. inbound' = Only(rest, kept)
  BY DEF Shell
<1>2. rest \in Seq(Message)
  BY RestOf
<1>3. PICK f : /\ f \in [1..Len(rest) -> 1..Len(inbound)]
               /\ \A j \in 1..Len(rest) : f[j] # i /\ rest[j] = inbound[f[j]]
               /\ \A j, l \in 1..Len(rest) : j < l => f[j] < f[l]
               /\ \A n \in 1..Len(inbound) : n # i => \E j \in 1..Len(rest) : f[j] = n
  BY RestOf
<1>4. DOMAIN rest = 1..Len(rest) /\ Len(rest) \in Nat
  BY <1>2, LenProperties
<1>5. /\ \A j \in kept : rest[j].kind = "answer" => Awaits(c, rest[j].what)
      /\ \A j \in 1..Len(rest) : rest[j].kind # "answer" => j \in kept
  BY <1>4
<1> HIDE DEF kept
<1>6. inbound' \in Seq(Message)
  BY <1>1, <1>2, OnlyKeeps
<1>7. PICK h : Thins(inbound', rest, h) /\ Keeps(h, kept, Len(rest))
  BY <1>1, <1>2, OnlyKeeps
<1> DEFINE L == Len(inbound')
           g == [j \in 1..L |-> f[h[j]]]
<1>8. /\ h \in [1..L -> 1..Len(rest)] /\ DOMAIN h = 1..L
      /\ \A j \in 1..L : inbound'[j] = rest[h[j]]
      /\ \A j, l \in 1..L : j < l => h[j] < h[l]
  BY <1>7 DEF Thins
<1>9. g \in [1..L -> 1..Len(inbound)] /\ \A j \in 1..L : g[j] = f[h[j]] /\ h[j] \in 1..Len(rest)
  BY <1>3, <1>8
<1> HIDE DEF g, L
<1>10. \A j \in 1..L : h[j] \in kept
  BY <1>7, <1>8, <1>9 DEF Keeps
<1>11. \A j \in 1..L : /\ g[j] # i /\ inbound'[j] = inbound[g[j]]
                       /\ inbound'[j].kind = "answer" => Awaits(c, inbound'[j].what)
  BY <1>3, <1>5, <1>8, <1>9, <1>10
<1>12. \A j, l \in 1..L : j < l => g[j] < g[l]
  BY <1>3, <1>8, <1>9
<1>13. \A n \in 1..Len(inbound) :
         n # i /\ inbound[n].kind # "answer" => \E j \in 1..L : g[j] = n
  <2> SUFFICES ASSUME NEW n \in 1..Len(inbound), n # i, inbound[n].kind # "answer"
               PROVE  \E j \in 1..L : g[j] = n
    OBVIOUS
  <2>1. PICK l \in 1..Len(rest) : f[l] = n
    BY <1>3
  <2>2. l \in kept
    BY <1>3, <1>5, <2>1
  <2>3. PICK j \in 1..L : h[j] = l
    BY <1>7, <1>8, <2>2 DEF Keeps
  <2> QED BY <1>9, <2>1, <2>3
<1>14. Passes(i, c, g)
  BY <1>9, <1>11, <1>12, <1>13 DEF Passes, L
<1> QED BY <1>6, <1>14

\* What the shell's step leaves of the connection, the calls and what was shown.
LEMMA ShellMoves ==
  ASSUME Typed, NEW c \in Connection, NEW rest, Shell(c, rest)
  PROVE  /\ AtRest(conn') /\ \A k \in Key : conn'[k] = c[k]
         /\ conn'.owner = c.owner /\ conn'.stopping = c.stopping /\ conn'.behind = c.behind
         /\ calls' \in Seq(PhoneCall)
         /\ \A j \in 1..Len(calls') :
              \/ \E n \in 1..Len(calls) : calls'[j].to = calls[n].to
              \/ \E n \in DOMAIN c.out : calls'[j].to = c.out[n].to
         /\ Counted(seen')
         /\ \A k \in Key : seen'[k] = IF c[k] = None \/ c[k] <= seen[k] THEN seen[k] ELSE c[k]
<1>1. conn' = [c EXCEPT !.out = <<>>] /\ calls' = Kept(c) \o c.out
      /\ seen' = [k \in DOMAIN seen |-> IF c[k] = None THEN seen[k] ELSE FS!Max({seen[k], c[k]})]
  BY DEF Shell
<1>2. /\ AtRest(conn') /\ \A k \in Key : conn'[k] = c[k]
      /\ conn'.owner = c.owner /\ conn'.stopping = c.stopping /\ conn'.behind = c.behind
  <2>1. <<>> \in Seq(PhoneCall)
    BY EmptySeq
  <2> QED BY <1>1, <2>1 DEF AtRest, Connection, Key
<1>3. /\ Counted(seen')
      /\ \A k \in Key : seen'[k] = IF c[k] = None \/ c[k] <= seen[k] THEN seen[k] ELSE c[k]
  <2>1. DOMAIN seen = Key /\ \A k \in Key : seen[k] \in Nat
    BY DEF Typed, Counted
  <2>2. \A k \in Key : c[k] = None \/ c[k] \in Nat
    BY DEF Connection, Key
  <2>3. \A k \in Key : seen'[k] = IF c[k] = None THEN seen[k] ELSE FS!Max({seen[k], c[k]})
    BY <1>1, <2>1
  <2>4. ASSUME NEW k \in Key
        PROVE  /\ seen'[k] = IF c[k] = None \/ c[k] <= seen[k] THEN seen[k] ELSE c[k]
               /\ seen'[k] \in Nat
    <3>1. CASE c[k] = None
      BY <2>1, <2>3, <3>1
    <3>2. CASE c[k] # None
      <4>1. c[k] \in Nat /\ seen[k] \in Nat /\ seen'[k] = FS!Max({seen[k], c[k]})
        BY <2>1, <2>2, <2>3, <3>2
      <4>2. FS!Max({seen[k], c[k]}) = IF seen[k] <= c[k] THEN c[k] ELSE seen[k]
        BY <4>1, MaxOfTwo
      <4> QED BY <3>2, <4>1, <4>2
    <3> QED BY <3>1, <3>2
  <2>5. DOMAIN seen' = Key
    BY <1>1, <2>1
  <2> QED BY <2>4, <2>5 DEF Counted
<1> DEFINE marked == [i \in DOMAIN calls |-> [calls[i] EXCEPT !.live = @ /\ Awaits(c, calls[i].what)]]
           kept == {i \in DOMAIN marked : marked[i].live \/ marked[i].to = None}
           left == Kept(c)
<1>4. left = Only(marked, kept)
  BY DEF Kept
<1>5. calls \in Seq(PhoneCall) /\ DOMAIN calls = 1..Len(calls) /\ Len(calls) \in Nat
  BY LenProperties DEF Typed
<1>6. \A i \in 1..Len(calls) : marked[i] \in PhoneCall /\ marked[i].to = calls[i].to
  <2> SUFFICES ASSUME NEW i \in 1..Len(calls)
               PROVE  marked[i] \in PhoneCall /\ marked[i].to = calls[i].to
    OBVIOUS
  <2>1. calls[i] \in PhoneCall
    BY <1>5, ElementOfSeq
  <2>2. marked[i] = [calls[i] EXCEPT !.live = calls[i].live /\ Awaits(c, calls[i].what)]
    BY <1>5, <2>1
  <2> QED BY <2>1, <2>2 DEF PhoneCall
<1>7. marked \in [1..Len(calls) -> PhoneCall]
  BY <1>5, <1>6
<1> HIDE DEF marked
<1>8. marked \in Seq(PhoneCall) /\ Len(marked) = Len(calls)
  BY <1>5, <1>7
<1> HIDE DEF kept, left
<1>9. left \in Seq(PhoneCall)
  BY <1>4, <1>8, OnlyKeeps
<1>10. PICK h : Thins(left, marked, h) /\ Keeps(h, kept, Len(marked))
  BY <1>4, <1>8, OnlyKeeps
<1>11. \A j \in 1..Len(left) : \E n \in 1..Len(calls) : left[j].to = calls[n].to
  BY <1>6, <1>8, <1>10 DEF Thins
<1>12. c.out \in Seq(PhoneCall) /\ DOMAIN c.out = 1..Len(c.out) /\ Len(c.out) \in Nat
       /\ Len(left) \in Nat
  BY <1>9, LenProperties DEF Connection
<1>13. /\ calls' \in Seq(PhoneCall) /\ Len(calls') = Len(left) + Len(c.out)
       /\ \A j \in 1..(Len(left) + Len(c.out)) :
            calls'[j] = IF j <= Len(left) THEN left[j] ELSE c.out[j - Len(left)]
  <2>1. calls' = left \o c.out
    BY <1>1 DEF left
  <2> QED BY <1>9, <1>12, <2>1, ConcatProperties
<1>14. ASSUME NEW j \in 1..Len(calls')
       PROVE  \/ \E n \in 1..Len(calls) : calls'[j].to = calls[n].to
              \/ \E n \in DOMAIN c.out : calls'[j].to = c.out[n].to
  <2>1. CASE j <= Len(left)
    <3>1. j \in 1..Len(left) /\ calls'[j] = left[j]
      BY <1>12, <1>13, <2>1
    <3> QED BY <1>11, <3>1
  <2>2. CASE ~(j <= Len(left))
    <3>1. j - Len(left) \in 1..Len(c.out) /\ calls'[j] = c.out[j - Len(left)]
      BY <1>12, <1>13, <2>2
    <3> QED BY <1>12, <3>1
  <2> QED BY <2>1, <2>2
<1> QED BY <1>2, <1>3, <1>13, <1>14

LEMMA RetryForgets ==
  ASSUME NEW c, AtRest(c)
  PROVE  LET r == RetryFires(c)
         IN Forgets(c, r) /\ (c.stopping => r.stopping /\ r.out = <<>>)
<1> DEFINE w == [c EXCEPT !.retry = FALSE]
           r == Refresh(w)
<1>1. /\ AtRest(w) /\ w.owner = c.owner /\ w.stopping = c.stopping /\ w.behind = c.behind
      /\ \A k \in Key : w[k] = c[k]
  BY DEF AtRest, Connection, Key
<1> HIDE DEF w
<1>2. Forgets(w, r) /\ (w.stopping => r = w)
  BY <1>1, RefreshForgets
<1>3. RetryFires(c) = r
  BY DEF RetryFires, w
<1> HIDE DEF r
<1>4. Forgets(c, r)
  BY <1>1, <1>2 DEF Forgets
<1>5. c.stopping => r.stopping /\ r.out = <<>>
  BY <1>1, <1>2 DEF AtRest
<1> QED BY <1>3, <1>4, <1>5

LEMMA AskForgets ==
  ASSUME NEW c, AtRest(c), NEW r \in {Request(c), RefreshAsked(c)}
  PROVE  Forgets(c, r)
<1>1. CASE r = RefreshAsked(c)
  <2> DEFINE w == [c EXCEPT !.stopping = FALSE, !.retry = FALSE]
  <2>1. /\ AtRest(w) /\ w.owner = c.owner /\ w.behind = c.behind /\ \A k \in Key : w[k] = c[k]
    BY DEF AtRest, Connection, Key
  <2>2. r = Refresh(w)
    BY <1>1 DEF RefreshAsked
  <2> HIDE DEF w
  <2>3. Forgets(w, r)
    BY <2>1, <2>2, RefreshForgets
  <2> QED BY <2>1, <2>3 DEF Forgets
<1>2. CASE r = Request(c)
  <2> DEFINE out == <<Call("ask", c)>>
  <2>1. c \in Connection
    BY DEF AtRest
  <2>2. Call("ask", c) \in PhoneCall
    BY <2>1 DEF Call, PhoneCall, Connection
  <2>3. out \in Seq(PhoneCall) /\ DOMAIN out = {1} /\ out[1] = Call("ask", c) /\ out[1].to = c.owner
    BY <2>2 DEF Call
  <2> HIDE DEF out
  <2>4. r = [c EXCEPT !.stopping = FALSE, !.retry = FALSE, !.asked = @ + 1, !.out = out]
    BY <1>2 DEF Request, out
  <2>5. /\ r \in Connection /\ r.out = out /\ r.owner = c.owner /\ r.behind = c.behind
        /\ \A k \in Key : r[k] = c[k]
    <3> DEFINE w == [c EXCEPT !.stopping = FALSE, !.retry = FALSE]
               v == [w EXCEPT !.asked = @ + 1]
    <3>1. /\ w \in Connection /\ w.owner = c.owner /\ w.behind = c.behind
          /\ w.queue = c.queue /\ w.sync = c.sync /\ w.settings = c.settings
      BY <2>1 DEF Connection
    <3>2. r = [v EXCEPT !.out = out]
      BY <2>1, <2>4 DEF Connection
    <3> HIDE DEF w
    <3>3. /\ v \in Connection /\ v.owner = c.owner /\ v.behind = c.behind
          /\ v.queue = c.queue /\ v.sync = c.sync /\ v.settings = c.settings
      BY <3>1 DEF Connection
    <3> HIDE DEF v
    <3>4. /\ r \in Connection /\ r.out = out /\ r.owner = c.owner /\ r.behind = c.behind
          /\ r.queue = c.queue /\ r.sync = c.sync /\ r.settings = c.settings
      BY <2>3, <3>2, <3>3 DEF Connection
    <3> QED BY <3>4 DEF Key
  <2> QED BY <2>3, <2>5 DEF Forgets
<1> QED BY <1>1, <1>2

(***************************************************************************)
(* What is shown                                                           *)
(***************************************************************************)
\* Nothing that was shown is newer than what the service has.
Newest == \A k \in Key : seen[k] <= service.has[k] /\ conn[k] \in {None, seen[k]}

\* Nothing on its way is older than what was shown, unless it will not be shown.
Ahead ==
  \A i \in 1..Len(inbound), k \in Key : Carries(inbound[i], k) =>
    /\ inbound[i].value[k] <= service.has[k]
    /\ \/ seen[k] <= inbound[i].value[k]
       \/ k = "sync" /\ inbound[i].kind = "answer" /\ conn.behind

InOrder ==
  \A i, j \in 1..Len(inbound), k \in Key :
    i < j /\ Carries(inbound[i], k) /\ Carries(inbound[j], k) =>
      inbound[i].value[k] <= inbound[j].value[k]

Shown == Typed /\ Newest /\ Ahead /\ InOrder

\* The shell goes on as c, by itself or after the i-th message.
Turns(i, c) ==
  \/ i = 0 /\ Forgets(conn, c)
  \/ /\ i \in 1..Len(inbound) /\ Handles(inbound[i], conn, c)
     /\ i > 1 => inbound[i].kind \notin {"answer", "owner"}
     /\ \A j \in 1..(i - 1) : inbound[j].kind = "answer"

LEMMA TurnShows ==
  ASSUME Shown, NEW c \in Connection, NEW i, NEW rest, Taken(i, rest), Shell(c, rest), Turns(i, c),
         UNCHANGED service, wanted' \in BOOLEAN
  PROVE  Shown'
<1>1. /\ AtRest(conn') /\ \A k \in Key : conn'[k] = c[k]
      /\ conn'.behind = c.behind /\ calls' \in Seq(PhoneCall) /\ Counted(seen')
      /\ \A k \in Key : seen'[k] = IF c[k] = None \/ c[k] <= seen[k] THEN seen[k] ELSE c[k]
  BY ShellMoves DEF Shown
<1>2. inbound' \in Seq(Message)
  BY ShellPasses DEF Shown
<1>3. Typed'
  BY <1>1, <1>2 DEF Shown, Typed
<1>4. PICK g : Passes(i, c, g)
  BY ShellPasses DEF Shown
<1>5. Len(inbound) \in Nat /\ \A n \in 1..Len(inbound) : inbound[n] \in Message
  BY LenProperties, ElementOfSeq DEF Shown, Typed
<1>6. \A k \in Key : seen[k] \in Nat /\ service.has[k] \in Nat
  BY DEF Shown, Typed, Counted
<1> DEFINE Took(k) == /\ i \in 1..Len(inbound) /\ Carries(inbound[i], k)
                      /\ c[k] = inbound[i].value[k] /\ c[k] # conn[k] /\ c[k] # None
                      /\ ~(k = "sync" /\ inbound[i].kind = "answer" /\ conn.behind)
<1>7. \A k \in Key : c[k] \in {None, conn[k]} \/ Took(k)
  BY DEF Turns, Forgets, Handles
<1>8. ASSUME NEW k \in Key, c[k] \in {None, conn[k]}
      PROVE  seen'[k] = seen[k] /\ c[k] \in {None, seen[k]}
  BY <1>1, <1>6, <1>8 DEF Shown, Newest
<1>9. ASSUME NEW k \in Key, Took(k)
      PROVE  /\ seen'[k] = inbound[i].value[k] /\ c[k] = inbound[i].value[k]
             /\ inbound[i].value[k] \in Nat /\ inbound[i].value[k] <= service.has[k]
  <2>1. inbound[i].value[k] \in Nat
    BY <1>5, <1>9, CarriedTyped
  <2>2. seen[k] <= inbound[i].value[k] /\ inbound[i].value[k] <= service.has[k]
    BY <1>9 DEF Shown, Ahead
  <2> QED BY <1>1, <1>6, <1>9, <2>1, <2>2
<1>10. Newest'
  <2> SUFFICES ASSUME NEW k \in Key
               PROVE  seen'[k] <= service.has[k] /\ conn'[k] \in {None, seen'[k]}
    BY DEF Newest
  <2>1. CASE c[k] \in {None, conn[k]}
    BY <1>1, <1>8, <2>1 DEF Shown, Newest
  <2>2. CASE Took(k)
    <3> HIDE DEF Took
    <3> QED BY <1>1, <1>9, <2>2
  <2> QED BY <1>7, <2>1, <2>2
<1>11. ASSUME NEW j \in 1..Len(inbound')
       PROVE  /\ g[j] \in 1..Len(inbound) /\ g[j] # i /\ inbound'[j] = inbound[g[j]]
              /\ inbound'[j].kind = "answer" => Awaits(c, inbound'[j].what)
  BY <1>4 DEF Passes
<1>12. Ahead'
  <2> SUFFICES ASSUME NEW j \in 1..Len(inbound'), NEW k \in Key, Carries(inbound'[j], k)
               PROVE  /\ inbound'[j].value[k] <= service.has[k]
                      /\ \/ seen'[k] <= inbound'[j].value[k]
                         \/ k = "sync" /\ inbound'[j].kind = "answer" /\ conn'.behind
    BY DEF Ahead
  <2> DEFINE n == g[j]
             m == inbound[n]
  <2>1. /\ n \in 1..Len(inbound) /\ n # i /\ inbound'[j] = m /\ Carries(m, k)
        /\ m.kind = "answer" => Awaits(c, m.what)
    BY <1>11
  <2> HIDE DEF n
  <2>2. /\ m.value[k] <= service.has[k]
        /\ seen[k] <= m.value[k] \/ (k = "sync" /\ m.kind = "answer" /\ conn.behind)
    BY <2>1 DEF Shown, Ahead
  <2>3. m.kind = "answer" => (k \in {"queue", "sync"} => ~(~Awaits(c, "state")))
                             /\ (k = "settings" => Awaits(c, "settings"))
    BY <2>1 DEF Carries
  <2>4. CASE c[k] \in {None, conn[k]}
    <3>1. conn.behind => c.behind \/ ~Awaits(c, "state")
      BY DEF Turns, Forgets, Handles
    <3>2. seen'[k] = seen[k]
      BY <1>8, <2>4
    <3>3. k = "sync" /\ m.kind = "answer" /\ conn.behind => conn'.behind
      BY <1>1, <2>3, <3>1
    <3> QED BY <2>1, <2>2, <3>2, <3>3
  <2>5. CASE Took(k)
    <3>1. seen'[k] = inbound[i].value[k] /\ Carries(inbound[i], k) /\ i \in 1..Len(inbound)
      BY <1>9, <2>5
    <3>2. CASE i < n
      <4>1. inbound[i].value[k] <= m.value[k]
        BY <2>1, <3>1, <3>2 DEF Shown, InOrder
      <4> QED BY <2>1, <2>2, <3>1, <4>1
    <3>3. CASE ~(i < n)
      <4>1. i > 1 /\ n \in 1..(i - 1)
        BY <1>5, <2>1, <3>1, <3>3
      <4>2. i # 0
        BY <4>1
      <4>3. m.kind = "answer" /\ inbound[i].kind \notin {"answer", "owner"} /\ Handles(inbound[i], conn, c)
        BY <4>1, <4>2 DEF Turns
      <4>4. c # conn
        BY <2>5
      <4>5. inbound[i].kind \in {"Changed", "SettingsChanged", "SyncStatusChanged"}
        BY <3>1, <4>3 DEF Carries
      <4>6. CASE inbound[i].kind = "Changed"
        <5>1. k \in {"queue", "sync"} /\ ~Awaits(c, "state")
          BY <3>1, <4>3, <4>4, <4>6 DEF Carries, Handles
        <5> QED BY <2>3, <4>3, <5>1
      <4>7. CASE inbound[i].kind = "SettingsChanged"
        <5>1. k = "settings" /\ ~Awaits(c, "settings")
          BY <3>1, <4>3, <4>4, <4>7 DEF Carries, Handles
        <5> QED BY <2>3, <4>3, <5>1
      <4>8. CASE inbound[i].kind = "SyncStatusChanged"
        <5>1. k = "sync" /\ c.behind
          BY <3>1, <4>3, <4>4, <4>8 DEF Carries, Handles
        <5> QED BY <1>1, <2>1, <2>2, <4>3, <5>1
      <4> QED BY <4>5, <4>6, <4>7, <4>8
    <3> QED BY <3>2, <3>3
  <2> QED BY <1>7, <2>4, <2>5
<1>13. InOrder'
  <2> SUFFICES ASSUME NEW j \in 1..Len(inbound'), NEW l \in 1..Len(inbound'), NEW k \in Key, j < l,
                      Carries(inbound'[j], k), Carries(inbound'[l], k)
               PROVE  inbound'[j].value[k] <= inbound'[l].value[k]
    BY DEF InOrder
  <2>1. g[j] < g[l]
    BY <1>4 DEF Passes
  <2>2. g[j] \in 1..Len(inbound) /\ inbound'[j] = inbound[g[j]]
    BY <1>11
  <2>3. g[l] \in 1..Len(inbound) /\ inbound'[l] = inbound[g[l]]
    BY <1>11
  <2> QED BY <2>1, <2>2, <2>3 DEF Shown, InOrder
<1> QED BY <1>3, <1>10, <1>12, <1>13 DEF Shown

(***************************************************************************)
(* What the service and the bus say                                        *)
(***************************************************************************)
\* Messages that tell of what there is, and nothing of the name.
TellsOf(m, has) ==
  m.kind # "owner" /\ \A k \in Key : Carries(m, k) => m.value[k] = has[k]
Plain(more, has) == more \in Seq(Message) /\ \A i \in 1..Len(more) : TellsOf(more[i], has)

AnswerTo(call, error, value) ==
  [kind |-> "answer", what |-> call.what, error |-> error, value |-> value]
Says(call, error, value, has) ==
  LET m == AnswerTo(call, error, value) IN m \in Message /\ TellsOf(m, has)

LEMMA PlainConcat ==
  ASSUME NEW has, NEW a, Plain(a, has), NEW b, Plain(b, has)
  PROVE  Plain(a \o b, has)
<1> DEFINE t == a \o b
<1>1. a \in Seq(Message) /\ b \in Seq(Message) /\ Len(a) \in Nat /\ Len(b) \in Nat
  BY LenProperties DEF Plain
<1>2. /\ t \in Seq(Message) /\ Len(t) = Len(a) + Len(b)
      /\ \A i \in 1..(Len(a) + Len(b)) : t[i] = IF i <= Len(a) THEN a[i] ELSE b[i - Len(a)]
  BY <1>1, ConcatProperties
<1> HIDE DEF t
<1>3. ASSUME NEW i \in 1..Len(t)
      PROVE  \/ \E j \in 1..Len(a) : t[i] = a[j]
             \/ \E j \in 1..Len(b) : t[i] = b[j]
  <2>1. CASE i <= Len(a)
    <3>1. i \in 1..Len(a) /\ t[i] = a[i]
      BY <1>1, <1>2, <2>1
    <3> QED BY <3>1
  <2>2. CASE ~(i <= Len(a))
    <3>1. i - Len(a) \in 1..Len(b) /\ t[i] = b[i - Len(a)]
      BY <1>1, <1>2, <2>2
    <3> QED BY <3>1
  <2> QED BY <2>1, <2>2
<1>4. Plain(t, has)
  BY <1>2, <1>3 DEF Plain
<1> QED BY <1>4 DEF t

LEMMA OnePlain ==
  ASSUME NEW has, NEW m \in Message, TellsOf(m, has)
  PROVE  Plain(<<m>>, has) /\ Plain(<<>>, has)
<1>1. <<m>> \in Seq(Message) /\ Len(<<m>>) = 1 /\ <<m>>[1] = m
  OBVIOUS
<1>2. <<>> \in Seq(Message) /\ Len(<<>>) = 0
  BY EmptySeq
<1> QED BY <1>1, <1>2 DEF Plain

LEMMA AnswersTell ==
  ASSUME NEW some \in Seq(PhoneCall), NEW error, NEW value
  PROVE  LET a == Answers(some, error, value)
         IN /\ Len(a) \in Nat /\ a \in [1..Len(a) -> {a[i] : i \in 1..Len(a)}]
            /\ \A i \in 1..Len(a) : \E n \in 1..Len(some) :
                 a[i] = AnswerTo(some[n], error, value)
<1> DEFINE kept == {i \in DOMAIN some : some[i].live}
           live == Only(some, kept)
           a == Answers(some, error, value)
<1>1. a = [i \in DOMAIN live |-> [kind |-> "answer", what |-> live[i].what, error |-> error, value |-> value]]
  BY DEF Answers
<1> HIDE DEF kept, a
<1>2. live \in Seq(PhoneCall)
  BY OnlyKeeps
<1>3. PICK h : Thins(live, some, h)
  BY OnlyKeeps
<1> HIDE DEF live
<1>4. Len(live) \in Nat /\ DOMAIN live = 1..Len(live)
  BY <1>2, LenProperties
<1>5. DOMAIN a = 1..Len(live) /\ Len(a) = Len(live)
  BY <1>1, <1>4
<1>6. \A i \in 1..Len(a) : h[i] \in 1..Len(some) /\ live[i] = some[h[i]]
  BY <1>3, <1>5 DEF Thins
<1>7. \A i \in 1..Len(a) : \E n \in 1..Len(some) :
        a[i] = AnswerTo(some[n], error, value)
  BY <1>1, <1>4, <1>5, <1>6 DEF AnswerTo
<1>8. a \in [1..Len(a) -> {a[i] : i \in 1..Len(a)}]
  BY <1>1, <1>4, <1>5
<1> QED BY <1>4, <1>5, <1>7, <1>8 DEF a

LEMMA AnswersPlain ==
  ASSUME NEW some \in Seq(PhoneCall), NEW error, NEW value, NEW has,
         \A n \in 1..Len(some) : Says(some[n], error, value, has)
  PROVE  Plain(Answers(some, error, value), has)
<1> DEFINE a == Answers(some, error, value)
<1>1. /\ Len(a) \in Nat /\ a \in [1..Len(a) -> {a[i] : i \in 1..Len(a)}]
      /\ \A i \in 1..Len(a) : \E n \in 1..Len(some) : a[i] = AnswerTo(some[n], error, value)
  BY AnswersTell
<1> HIDE DEF a
<1>2. \A i \in 1..Len(a) : a[i] \in Message /\ TellsOf(a[i], has)
  BY <1>1 DEF Says
<1>3. a \in [1..Len(a) -> Message]
  BY <1>1, <1>2
<1>4. a \in Seq(Message)
  BY <1>1, <1>3
<1> QED BY <1>2, <1>4 DEF Plain, a

LEMMA FailuresPlain ==
  ASSUME NEW some \in Seq(PhoneCall), NEW error \in {"failed", "unavailable"}, NEW has
  PROVE  Plain(Failures(some, error), has)
<1>1. ASSUME NEW call \in PhoneCall PROVE Says(call, error, None, has)
  <2> DEFINE m == AnswerTo(call, error, None)
  <2>1. m \in Message
    BY DEF Message, PhoneCall, AnswerTo
  <2>2. \A k \in Key : ~Carries(m, k)
    BY NoneAssumption DEF Carries, AnswerTo
  <2>3. m.kind # "owner"
    BY DEF AnswerTo
  <2> QED BY <2>1, <2>2, <2>3 DEF Says, TellsOf
<1>2. \A n \in 1..Len(some) : Says(some[n], error, None, has)
  BY <1>1, ElementOfSeq
<1> QED BY <1>2, AnswersPlain DEF Failures

LEMMA OneAnswerPlain ==
  ASSUME NEW call \in PhoneCall, NEW value, NEW has, Says(call, None, value, has)
  PROVE  Plain(Answers(<<call>>, None, value), has)
<1> DEFINE some == <<call>>
<1>1. some \in Seq(PhoneCall) /\ \A n \in 1..Len(some) : some[n] = call
  OBVIOUS
<1> HIDE DEF some
<1>2. \A n \in 1..Len(some) : Says(some[n], None, value, has)
  BY <1>1
<1>3. Plain(Answers(some, None, value), has)
  BY <1>1, <1>2, AnswersPlain
<1> QED BY <1>3 DEF some

LEMMA ReplyPlain ==
  ASSUME Typed, NEW call \in PhoneCall
  PROVE  /\ call.what # "ask" => Plain(Answers(<<call>>, None, Value(call.what)), service.has)
         /\ \A has : call.what = "ask" => Plain(Answers(<<call>>, None, None), has)
<1>1. ASSUME call.what # "ask" PROVE Says(call, None, Value(call.what), service.has)
  <2> DEFINE v == Value(call.what)
             m == AnswerTo(call, None, v)
  <2>1. call.what \in {"state", "settings"}
    BY <1>1 DEF PhoneCall
  <2>2. service.has.queue \in Nat /\ service.has.sync \in Nat /\ service.has.settings \in Nat
    BY DEF Typed, Counted, Key
  <2>3. CASE call.what = "state"
    <3>1. v = [queue |-> service.has.queue, sync |-> service.has.sync]
      BY <2>3 DEF Value, State
    <3>2. m \in Message
      BY <2>2, <2>3, <3>1 DEF Message, Snapshot, AnswerTo
    <3>3. TellsOf(m, service.has)
      BY <2>3, <3>1 DEF Carries, Key, AnswerTo, TellsOf
    <3> QED BY <3>2, <3>3 DEF Says
  <2>4. CASE call.what = "settings"
    <3>1. v = [settings |-> service.has.settings]
      BY <2>4 DEF Value, SettingsOf
    <3>2. m \in Message
      BY <2>2, <2>4, <3>1 DEF Message, Settings, AnswerTo
    <3>3. TellsOf(m, service.has)
      BY <2>4, <3>1 DEF Carries, Key, AnswerTo, TellsOf
    <3> QED BY <3>2, <3>3 DEF Says
  <2> QED BY <2>1, <2>3, <2>4
<1>2. ASSUME NEW has, call.what = "ask" PROVE Says(call, None, None, has)
  <2> DEFINE m == AnswerTo(call, None, None)
  <2>1. m \in Message
    BY <1>2 DEF Message, AnswerTo
  <2>2. TellsOf(m, has)
    BY <1>2 DEF Carries, AnswerTo, TellsOf
  <2> QED BY <2>1, <2>2 DEF Says
<1> QED BY <1>1, <1>2, OneAnswerPlain

LEMMA AnnouncedPlain ==
  ASSUME Typed, NEW has, Counted(has), NEW parts
  PROVE  Plain(Announced(parts, has), has)
<1> DEFINE one == <<Signal("Changed", State(has))>>
           two == <<Signal("SettingsChanged", SettingsOf(has))>>
           three == <<Signal("SyncStatusChanged", State(has))>>
<1>1. has.queue \in Nat /\ has.sync \in Nat /\ has.settings \in Nat /\ service.gen \in Nat
  BY DEF Typed, Counted, Key
<1>2. Plain(one, has)
  <2> DEFINE m == Signal("Changed", State(has))
  <2>1. m = [kind |-> "Changed", sender |-> service.gen, value |-> [queue |-> has.queue, sync |-> has.sync]]
    BY DEF Signal, State
  <2>2. m \in Message
    BY <1>1, <2>1 DEF Message, Snapshot
  <2>3. TellsOf(m, has)
    BY <2>1 DEF Carries, Key, TellsOf
  <2> QED BY <2>2, <2>3, OnePlain
<1>3. Plain(two, has) /\ Plain(<<>>, has)
  <2> DEFINE m == Signal("SettingsChanged", SettingsOf(has))
  <2>1. m = [kind |-> "SettingsChanged", sender |-> service.gen, value |-> [settings |-> has.settings]]
    BY DEF Signal, SettingsOf
  <2>2. m \in Message
    BY <1>1, <2>1 DEF Message, Settings
  <2>3. TellsOf(m, has)
    BY <2>1 DEF Carries, Key, TellsOf
  <2> QED BY <2>2, <2>3, OnePlain
<1>4. Plain(three, has)
  <2> DEFINE m == Signal("SyncStatusChanged", State(has))
  <2>1. m = [kind |-> "SyncStatusChanged", sender |-> service.gen,
             value |-> [queue |-> has.queue, sync |-> has.sync]]
    BY DEF Signal, State
  <2>2. m \in Message
    BY <1>1, <2>1 DEF Message, Snapshot
  <2>3. TellsOf(m, has)
    BY <2>1 DEF Carries, Key, TellsOf
  <2> QED BY <2>2, <2>3, OnePlain
<1> DEFINE a == IF "queue" \in parts THEN one ELSE <<>>
           b == IF "settings" \in parts THEN two ELSE <<>>
           d == IF "sync" \in parts THEN three ELSE <<>>
<1>5. Announced(parts, has) = a \o b \o d
  BY DEF Announced
<1> HIDE DEF one, two, three
<1>6. Plain(a, has) /\ Plain(b, has) /\ Plain(d, has)
  BY <1>2, <1>3, <1>4
<1> HIDE DEF a, b, d
<1>7. Plain(a \o b, has)
  BY <1>6, PlainConcat
<1>8. Plain((a \o b) \o d, has)
  BY <1>6, <1>7, PlainConcat
<1> QED BY <1>5, <1>8

(***************************************************************************)
(* What the service and the bus do                                         *)
(***************************************************************************)
LEMMA ConcatPlaces ==
  ASSUME NEW S, NEW a \in Seq(S), NEW b \in Seq(S)
  PROVE  LET t == a \o b
         IN /\ t \in Seq(S) /\ Len(t) = Len(a) + Len(b)
            /\ Len(a) \in Nat /\ Len(b) \in Nat
            /\ \A i \in 1..Len(a) : i \in 1..Len(t) /\ t[i] = a[i]
            /\ \A i \in 1..Len(b) : Len(a) + i \in 1..Len(t) /\ t[Len(a) + i] = b[i]
            /\ \A i \in 1..Len(t) :
                 \/ i \in 1..Len(a) /\ t[i] = a[i]
                 \/ i - Len(a) \in 1..Len(b) /\ t[i] = b[i - Len(a)]
<1> DEFINE t == a \o b
<1>1. Len(a) \in Nat /\ Len(b) \in Nat
  BY LenProperties
<1>2. /\ t \in Seq(S) /\ Len(t) = Len(a) + Len(b)
      /\ \A i \in 1..(Len(a) + Len(b)) : t[i] = IF i <= Len(a) THEN a[i] ELSE b[i - Len(a)]
  BY ConcatProperties
<1> HIDE DEF t
<1>3. \A i \in 1..Len(a) : i \in 1..Len(t) /\ t[i] = a[i]
  BY <1>1, <1>2
<1>4. ASSUME NEW i \in 1..Len(b) PROVE Len(a) + i \in 1..Len(t) /\ t[Len(a) + i] = b[i]
  <2>1. Len(a) + i \in 1..(Len(a) + Len(b)) /\ ~(Len(a) + i <= Len(a)) /\ (Len(a) + i) - Len(a) = i
    BY <1>1
  <2> QED BY <1>2, <2>1
<1>5. ASSUME NEW i \in 1..Len(t)
      PROVE  \/ i \in 1..Len(a) /\ t[i] = a[i]
             \/ i - Len(a) \in 1..Len(b) /\ t[i] = b[i - Len(a)]
  BY <1>1, <1>2
<1>6. /\ t \in Seq(S) /\ Len(t) = Len(a) + Len(b)
      /\ Len(a) \in Nat /\ Len(b) \in Nat
      /\ \A i \in 1..Len(a) : i \in 1..Len(t) /\ t[i] = a[i]
      /\ \A i \in 1..Len(b) : Len(a) + i \in 1..Len(t) /\ t[Len(a) + i] = b[i]
      /\ \A i \in 1..Len(t) :
           \/ i \in 1..Len(a) /\ t[i] = a[i]
           \/ i - Len(a) \in 1..Len(b) /\ t[i] = b[i - Len(a)]
  BY <1>1, <1>2, <1>3, <1>4, <1>5
<1> QED BY <1>6 DEF t

LEMMA ConcatEach ==
  ASSUME NEW S, NEW a \in Seq(S), NEW b \in Seq(S)
  PROVE  /\ a \o b \in Seq(S)
         /\ \A i \in 1..Len(a \o b) : \/ \E j \in 1..Len(a) : (a \o b)[i] = a[j]
                                      \/ \E j \in 1..Len(b) : (a \o b)[i] = b[j]
<1> DEFINE t == a \o b
<1>1. /\ t \in Seq(S)
      /\ \A i \in 1..Len(t) : \/ i \in 1..Len(a) /\ t[i] = a[i]
                              \/ i - Len(a) \in 1..Len(b) /\ t[i] = b[i - Len(a)]
  BY ConcatPlaces
<1> HIDE DEF t
<1>2. ASSUME NEW i \in 1..Len(t)
      PROVE  \/ \E j \in 1..Len(a) : t[i] = a[j]
             \/ \E j \in 1..Len(b) : t[i] = b[j]
  <2>1. CASE i \in 1..Len(a) /\ t[i] = a[i]
    BY <2>1
  <2>2. CASE i - Len(a) \in 1..Len(b) /\ t[i] = b[i - Len(a)]
    <3> DEFINE j == i - Len(a)
    <3>1. j \in 1..Len(b) /\ t[i] = b[j]
      BY <2>2
    <3> QED BY <3>1
  <2> QED BY <1>1, <2>1, <2>2
<1> QED BY <1>1, <1>2 DEF t

\* Messages are added at the end, calls are only taken, and the shell waits.
TellsAll(more, has) ==
  /\ more \in Seq(Message)
  /\ \A i \in 1..Len(more), k \in Key : Carries(more[i], k) => more[i].value[k] = has[k]
Fewer(some) ==
  some \in Seq(PhoneCall) /\ \A j \in 1..Len(some) : \E n \in 1..Len(calls) : some[j] = calls[n]
ServiceTyped ==
  /\ DOMAIN service = {"phase", "gen", "has"}
  /\ service.phase \in {"absent", "starting", "ready", "stopping"}
  /\ service.gen \in Nat /\ Counted(service.has)
Serves(more) ==
  /\ inbound' = inbound \o more /\ TellsAll(more, service'.has)
  /\ UNCHANGED <<conn, seen>> /\ wanted' \in BOOLEAN
  /\ ServiceTyped' /\ \A k \in Key : service.has[k] <= service'.has[k]
  /\ Fewer(calls')

LEMMA ServesShown ==
  ASSUME Shown, NEW more, Serves(more)
  PROVE  Shown'
<1>1. inbound \in Seq(Message) /\ more \in Seq(Message) /\ inbound' = inbound \o more
  BY DEF Shown, Typed, Serves, TellsAll
<1>2. /\ inbound' \in Seq(Message) /\ Len(inbound) \in Nat
      /\ \A i \in 1..Len(inbound') :
           \/ i \in 1..Len(inbound) /\ inbound'[i] = inbound[i]
           \/ i - Len(inbound) \in 1..Len(more) /\ inbound'[i] = more[i - Len(inbound)]
  BY <1>1, ConcatPlaces
<1>3. Typed'
  BY <1>2 DEF Shown, Typed, Serves, ServiceTyped, Fewer
<1>4. \A k \in Key : /\ seen[k] \in Nat /\ service.has[k] \in Nat /\ service'.has[k] \in Nat
                     /\ seen[k] <= service.has[k] /\ service.has[k] <= service'.has[k]
                     /\ seen'[k] = seen[k] /\ conn'[k] = conn[k] /\ conn'.behind = conn.behind
  BY <1>3 DEF Shown, Typed, Newest, Counted, Serves
<1>5. Newest'
  BY <1>4 DEF Shown, Newest
<1>6. \A i \in 1..Len(inbound), k \in Key : Carries(inbound[i], k) =>
         /\ inbound[i].value[k] \in Nat /\ inbound[i].value[k] <= service.has[k]
         /\ \/ seen[k] <= inbound[i].value[k]
            \/ k = "sync" /\ inbound[i].kind = "answer" /\ conn.behind
  <2> SUFFICES ASSUME NEW i \in 1..Len(inbound), NEW k \in Key, Carries(inbound[i], k)
               PROVE  /\ inbound[i].value[k] \in Nat /\ inbound[i].value[k] <= service.has[k]
                      /\ \/ seen[k] <= inbound[i].value[k]
                         \/ k = "sync" /\ inbound[i].kind = "answer" /\ conn.behind
    OBVIOUS
  <2>1. inbound[i] \in Message
    BY <1>1, ElementOfSeq
  <2>2. inbound[i].value[k] \in Nat
    BY <2>1, CarriedTyped
  <2> QED BY <2>2 DEF Shown, Ahead
<1>7. \A i \in 1..Len(more), k \in Key : Carries(more[i], k) => more[i].value[k] = service'.has[k]
  BY DEF Serves, TellsAll
<1>8. Ahead'
  <2> SUFFICES ASSUME NEW i \in 1..Len(inbound'), NEW k \in Key, Carries(inbound'[i], k)
               PROVE  /\ inbound'[i].value[k] <= service'.has[k]
                      /\ \/ seen'[k] <= inbound'[i].value[k]
                         \/ k = "sync" /\ inbound'[i].kind = "answer" /\ conn'.behind
    BY DEF Ahead
  <2>1. CASE i \in 1..Len(inbound) /\ inbound'[i] = inbound[i]
    BY <1>4, <1>6, <2>1
  <2>2. CASE i - Len(inbound) \in 1..Len(more) /\ inbound'[i] = more[i - Len(inbound)]
    <3>1. inbound'[i].value[k] = service'.has[k]
      BY <1>7, <2>2
    <3> QED BY <1>4, <3>1
  <2> QED BY <1>2, <2>1, <2>2
<1>9. InOrder'
  <2> SUFFICES ASSUME NEW i \in 1..Len(inbound'), NEW j \in 1..Len(inbound'), NEW k \in Key, i < j,
                      Carries(inbound'[i], k), Carries(inbound'[j], k)
               PROVE  inbound'[i].value[k] <= inbound'[j].value[k]
    BY DEF InOrder
  <2>1. CASE j \in 1..Len(inbound) /\ inbound'[j] = inbound[j]
    <3>1. i \in 1..Len(inbound) /\ inbound'[i] = inbound[i]
      BY <1>2, <2>1
    <3> QED BY <2>1, <3>1 DEF Shown, InOrder
  <2>2. CASE j - Len(inbound) \in 1..Len(more) /\ inbound'[j] = more[j - Len(inbound)]
    <3>1. inbound'[j].value[k] = service'.has[k]
      BY <1>7, <2>2
    <3>2. inbound'[i].value[k] <= service'.has[k]
      BY <1>8 DEF Ahead
    <3> QED BY <3>1, <3>2
  <2> QED BY <1>2, <2>1, <2>2
<1> QED BY <1>3, <1>5, <1>8, <1>9 DEF Shown

\* The service or the bus says something, a service begins, or it is gone.
GoesOn(more) ==
  /\ \A i \in 1..Len(more) : more[i].kind # "owner"
  /\ service'.gen = service.gen
  /\ \/ service'.phase = service.phase
     \/ service.phase \in {"starting", "ready"} /\ service'.phase \in {"ready", "stopping"}
Begins(more) ==
  /\ more = <<Owner(service'.gen)>> /\ service'.gen = service.gen + 1
  /\ service.phase = "absent" /\ service'.phase = "starting"
Ends(more) ==
  /\ \A i \in 1..Len(more) : more[i].kind = "owner" => more[i].sender = None
  /\ service'.gen = service.gen
  /\ Runs /\ service'.phase = "absent"

LEMMA CallsTaken ==
  ASSUME Typed
  PROVE  /\ Fewer(calls)
         /\ calls # <<>> => Fewer(Tail(calls)) /\ Head(calls) \in PhoneCall /\ Head(calls) = calls[1]
         /\ \A i \in 1..Len(calls) : calls[i] \in PhoneCall /\ Fewer(Sq!RemoveAt(calls, i))
         /\ \A m, n \in Nat : n <= Len(calls) => SubSeq(calls, m + 1, n) \in Seq(PhoneCall)
         /\ \A n \in Nat : Fewer(SubSeq(calls, n + 1, Len(calls)))
<1>1. calls \in Seq(PhoneCall) /\ Len(calls) \in Nat /\ \A i \in 1..Len(calls) : calls[i] \in PhoneCall
  BY LenProperties, ElementOfSeq DEF Typed
<1>2. Fewer(calls)
  BY <1>1 DEF Fewer
<1>3. ASSUME calls # <<>>
      PROVE  Fewer(Tail(calls)) /\ Head(calls) \in PhoneCall /\ Head(calls) = calls[1]
  <2>1. /\ Head(calls) \in PhoneCall /\ Head(calls) = calls[1]
        /\ Tail(calls) \in Seq(PhoneCall) /\ Len(Tail(calls)) = Len(calls) - 1
        /\ \A i \in 1..Len(Tail(calls)) : Tail(calls)[i] = calls[i + 1]
    BY <1>1, <1>3, HeadTailProperties
  <2>2. \A i \in 1..Len(Tail(calls)) : i + 1 \in 1..Len(calls) /\ Tail(calls)[i] = calls[i + 1]
    BY <1>1, <2>1
  <2> QED BY <2>1, <2>2 DEF Fewer
<1>4. ASSUME NEW i \in 1..Len(calls) PROVE Fewer(Sq!RemoveAt(calls, i))
  <2> DEFINE s == Sq!RemoveAt(calls, i)
  <2>1. /\ s \in Seq(PhoneCall) /\ Len(s) = Len(calls) - 1
        /\ \A j \in 1..Len(s) : s[j] = calls[IF j < i THEN j ELSE j + 1]
    BY <1>1, Removed
  <2> HIDE DEF s
  <2>2. \A j \in 1..Len(s) : (IF j < i THEN j ELSE j + 1) \in 1..Len(calls)
    BY <1>1, <2>1
  <2>3. Fewer(s)
    BY <2>1, <2>2 DEF Fewer
  <2> QED BY <2>3 DEF s
<1>5. ASSUME NEW m \in Nat, NEW n \in Nat, n <= Len(calls)
      PROVE  /\ SubSeq(calls, m + 1, n) \in Seq(PhoneCall)
             /\ \A j \in 1..Len(SubSeq(calls, m + 1, n)) :
                  m + j \in 1..Len(calls) /\ SubSeq(calls, m + 1, n)[j] = calls[m + j]
  <2> DEFINE s == SubSeq(calls, m + 1, n)
  <2>1. m + 1 \in Int /\ n \in Int /\ \A j \in (m + 1)..n : calls[j] \in PhoneCall
    BY <1>1, <1>5
  <2>2. /\ s \in Seq(PhoneCall) /\ Len(s) = IF m + 1 <= n THEN n - (m + 1) + 1 ELSE 0
        /\ \A j \in 1..(n - (m + 1) + 1) : s[j] = calls[(m + 1) + j - 1]
    BY <2>1, SubSeqProperties
  <2> HIDE DEF s
  <2>3. ASSUME NEW j \in 1..Len(s) PROVE m + j \in 1..Len(calls) /\ s[j] = calls[m + j]
    <3>1. j \in 1..(n - (m + 1) + 1) /\ (m + 1) + j - 1 = m + j /\ m + j \in 1..Len(calls)
      BY <1>1, <1>5, <2>2
    <3> QED BY <2>2, <3>1
  <2> QED BY <2>2, <2>3 DEF s
<1>6. ASSUME NEW n \in Nat PROVE Fewer(SubSeq(calls, n + 1, Len(calls)))
  <2>1. /\ SubSeq(calls, n + 1, Len(calls)) \in Seq(PhoneCall)
        /\ \A j \in 1..Len(SubSeq(calls, n + 1, Len(calls))) :
             n + j \in 1..Len(calls) /\ SubSeq(calls, n + 1, Len(calls))[j] = calls[n + j]
    BY <1>1, <1>5
  <2> QED BY <2>1 DEF Fewer
<1> QED BY <1>1, <1>2, <1>3, <1>4, <1>5, <1>6

\* The service says what is true and stays what it is.
LEMMA SaysPlain ==
  ASSUME Typed, NEW more, inbound' = inbound \o more, Plain(more, service.has),
         UNCHANGED <<conn, seen, service>>, wanted' \in BOOLEAN, Fewer(calls')
  PROVE  Serves(more) /\ GoesOn(more)
<1>1. \A k \in Key : service.has[k] <= service'.has[k]
  BY DEF Typed, Counted
<1>2. service'.has = service.has /\ service'.gen = service.gen /\ service'.phase = service.phase
  OBVIOUS
<1>3. ServiceTyped'
  BY DEF Typed, ServiceTyped
<1> QED BY <1>1, <1>2, <1>3 DEF Plain, TellsOf, TellsAll, Serves, GoesOn

LEMMA UndeliverableServes ==
  ASSUME Typed, Undeliverable
  PROVE  \E more : Serves(more) /\ GoesOn(more)
<1> DEFINE some == <<Head(calls)>>
<1>1. some \in Seq(PhoneCall) /\ Fewer(calls')
  BY CallsTaken DEF Undeliverable
<1>2. PICK error \in {"failed", "unavailable"} : inbound' = inbound \o Failures(some, error)
  BY DEF Undeliverable, Send
<1> HIDE DEF some
<1>3. Plain(Failures(some, error), service.has)
  BY <1>1, FailuresPlain
<1>4. UNCHANGED <<conn, seen, service>> /\ wanted' \in BOOLEAN
  BY DEF Undeliverable, Typed
<1> QED BY <1>1, <1>2, <1>3, <1>4, SaysPlain

LEMMA OverflowServes ==
  ASSUME Typed, Overflow
  PROVE  \E more : Serves(more) /\ GoesOn(more)
<1> DEFINE some == <<calls[MaxHeld + 1]>>
           more == Failures(some, "failed")
<1>1. MaxHeld + 1 \in 1..Len(calls)
  <2>1. calls \in Seq(PhoneCall) /\ Len(calls) \in Nat
    BY LenProperties DEF Typed
  <2> QED BY <2>1, BoundAssumption DEF Overflow
<1>2. some \in Seq(PhoneCall) /\ Fewer(calls')
  BY <1>1, CallsTaken DEF Overflow
<1>3. inbound' = inbound \o more
  BY DEF Overflow, Send
<1>4. Plain(more, service.has)
  <2> HIDE DEF some
  <2> QED BY <1>2, FailuresPlain
<1>5. UNCHANGED <<conn, seen, service>> /\ wanted' \in BOOLEAN
  BY DEF Overflow, Typed
<1> HIDE DEF more
<1> QED BY <1>2, <1>3, <1>4, <1>5, SaysPlain

LEMMA ActivationFailsServes ==
  ASSUME Typed, ActivationFails
  PROVE  \E more : Serves(more) /\ GoesOn(more)
<1>1. PICK n \in 1..Len(calls) : /\ Send(Failures(SubSeq(calls, 1, n), "failed"))
                                 /\ calls' = SubSeq(calls, n + 1, Len(calls))
  BY DEF ActivationFails
<1> DEFINE some == SubSeq(calls, 0 + 1, n)
           more == Failures(some, "failed")
<1>2. n \in Nat /\ n <= Len(calls)
  BY LenProperties DEF Typed
<1>3. some \in Seq(PhoneCall) /\ Fewer(calls')
  BY <1>1, <1>2, CallsTaken
<1>4. inbound' = inbound \o more
  BY <1>1 DEF Send
<1>5. Plain(more, service.has)
  <2> HIDE DEF some
  <2> QED BY <1>3, FailuresPlain
<1>6. UNCHANGED <<conn, seen, service>> /\ wanted' \in BOOLEAN
  BY DEF ActivationFails, Typed
<1> HIDE DEF more
<1> QED BY <1>3, <1>4, <1>5, <1>6, SaysPlain

\* What changes is announced.
LEMMA ChangingServes ==
  ASSUME Typed, NEW parts, NEW has, has = Changing(parts), NEW more, Plain(more, has),
         inbound' = inbound \o more, service' = [service EXCEPT !.has = has],
         UNCHANGED <<conn, seen>>, wanted' \in BOOLEAN, Fewer(calls')
  PROVE  Serves(more) /\ GoesOn(more)
<1>1. Counted(has) /\ \A k \in Key : service.has[k] <= has[k]
  <2>1. DOMAIN service.has = Key /\ \A k \in Key : service.has[k] \in Nat
    BY DEF Typed, Counted
  <2>2. DOMAIN has = Key /\ \A k \in Key : has[k] = service.has[k] + (IF k \in parts THEN 1 ELSE 0)
    BY <2>1 DEF Changing
  <2>3. ASSUME NEW k \in Key PROVE has[k] \in Nat /\ service.has[k] <= has[k]
    BY <2>1, <2>2
  <2> QED BY <2>2, <2>3 DEF Counted
<1>2. service'.has = has /\ service'.gen = service.gen /\ service'.phase = service.phase
      /\ DOMAIN service' = DOMAIN service
  BY DEF Typed
<1>3. ServiceTyped'
  BY <1>1, <1>2 DEF Typed, ServiceTyped
<1> QED BY <1>1, <1>2, <1>3 DEF Plain, TellsOf, TellsAll, Serves, GoesOn

LEMMA ChangingCounted ==
  ASSUME Typed, NEW parts
  PROVE  Counted(Changing(parts))
<1>1. DOMAIN service.has = Key /\ \A k \in Key : service.has[k] \in Nat
  BY DEF Typed, Counted
<1>2. \A k \in Key : Changing(parts)[k] = service.has[k] + (IF k \in parts THEN 1 ELSE 0)
  BY <1>1 DEF Changing
<1>3. ASSUME NEW k \in Key PROVE Changing(parts)[k] \in Nat
  BY <1>1, <1>2
<1>4. DOMAIN Changing(parts) = Key
  BY <1>1 DEF Changing
<1> QED BY <1>3, <1>4 DEF Counted

LEMMA ChangeServes ==
  ASSUME Typed, Change
  PROVE  \E more : Serves(more) /\ GoesOn(more)
<1>1. PICK parts \in Parts : /\ service' = [service EXCEPT !.has = Changing(parts)]
                             /\ inbound' = inbound \o Announced(parts, Changing(parts))
  BY DEF Change, Send
<1> DEFINE has == Changing(parts)
           more == Announced(parts, has)
<1>2. Counted(has)
  BY ChangingCounted
<1>3. UNCHANGED <<conn, seen>> /\ wanted' \in BOOLEAN /\ Fewer(calls')
  BY CallsTaken DEF Change, Typed
<1>4. has = Changing(parts)
  OBVIOUS
<1> HIDE DEF has
<1>5. Plain(more, has)
  BY <1>2, AnnouncedPlain
<1>6. service' = [service EXCEPT !.has = has] /\ inbound' = inbound \o more
  BY <1>1 DEF has
<1> HIDE DEF more
<1> QED BY <1>3, <1>4, <1>5, <1>6, ChangingServes

LEMMA DispatchServes ==
  ASSUME Typed, Dispatch
  PROVE  \E more : Serves(more) /\ GoesOn(more)
<1> DEFINE call == Head(calls)
<1>1. /\ call \in PhoneCall /\ Fewer(calls') /\ UNCHANGED <<conn, seen>> /\ wanted' \in BOOLEAN
      /\ Handle(call)
  BY CallsTaken DEF Dispatch, Typed
<1> HIDE DEF call
<1>2. CASE call.what # "ask" /\ Send(Answers(<<call>>, None, Value(call.what))) /\ UNCHANGED service
  <2> DEFINE more == Answers(<<call>>, None, Value(call.what))
  <2>1. Plain(more, service.has) /\ inbound' = inbound \o more
    BY <1>1, <1>2, ReplyPlain DEF Send
  <2> HIDE DEF more
  <2> QED BY <1>1, <1>2, <2>1, SaysPlain
<1>3. CASE call.what = "ask" /\ Send(Answers(<<call>>, None, None)) /\ UNCHANGED service
  <2> DEFINE more == Answers(<<call>>, None, None)
  <2>1. Plain(more, service.has) /\ inbound' = inbound \o more
    BY <1>1, <1>3, ReplyPlain DEF Send
  <2> HIDE DEF more
  <2> QED BY <1>1, <1>3, <2>1, SaysPlain
<1>4. CASE call.what = "ask" /\ Send(Failures(<<call>>, "failed")) /\ UNCHANGED service
  <2> DEFINE some == <<call>>
             more == Failures(some, "failed")
  <2>1. some \in Seq(PhoneCall) /\ inbound' = inbound \o more
    BY <1>1, <1>4 DEF Send
  <2> HIDE DEF some
  <2>2. Plain(more, service.has)
    BY <2>1, FailuresPlain
  <2> HIDE DEF more
  <2> QED BY <1>1, <1>4, <2>1, <2>2, SaysPlain
<1>5. ASSUME NEW parts, call.what = "ask", service' = [service EXCEPT !.has = Changing(parts)],
             Send(Announced(parts, Changing(parts)) \o Answers(<<call>>, None, None))
      PROVE  \E more : Serves(more) /\ GoesOn(more)
  <2> DEFINE has == Changing(parts)
             a == Announced(parts, has)
             b == Answers(<<call>>, None, None)
             more == a \o b
  <2>1. Counted(has)
    BY ChangingCounted
  <2>2. service' = [service EXCEPT !.has = has] /\ inbound' = inbound \o more /\ has = Changing(parts)
    BY <1>5 DEF Send
  <2> HIDE DEF has
  <2>3. Plain(a, has) /\ Plain(b, has)
    BY <1>1, <1>5, <2>1, AnnouncedPlain, ReplyPlain
  <2> HIDE DEF a, b
  <2>4. Plain(more, has)
    BY <2>3, PlainConcat
  <2> HIDE DEF more
  <2> QED BY <1>1, <2>2, <2>4, ChangingServes
<1> QED BY <1>1, <1>2, <1>3, <1>4, <1>5 DEF Handle

LEMMA InitializeServes ==
  ASSUME Typed, Initialize
  PROVE  \E more : Serves(more) /\ GoesOn(more)
<1>1. service' = [service EXCEPT !.phase = "ready"] /\ service.phase = "starting"
  BY DEF Initialize
<1>2. /\ service'.has = service.has /\ service'.gen = service.gen /\ service'.phase = "ready"
      /\ DOMAIN service' = DOMAIN service
  BY <1>1 DEF Typed
<1>3. ServiceTyped' /\ \A k \in Key : service.has[k] <= service'.has[k]
  BY <1>2 DEF Typed, ServiceTyped, Counted
<1>4. Fewer(calls') /\ UNCHANGED <<conn, seen>> /\ wanted' \in BOOLEAN
  BY CallsTaken DEF Initialize, Typed
<1>5. inbound' = inbound \o <<>> /\ TellsAll(<<>>, service'.has) /\ Len(<<>>) = 0
  BY EmptySeq DEF Initialize, Typed, TellsAll
<1>6. Serves(<<>>)
  BY <1>3, <1>4, <1>5 DEF Serves
<1>7. GoesOn(<<>>)
  BY <1>1, <1>2, <1>5 DEF GoesOn
<1> QED BY <1>6, <1>7

LEMMA QuitServes ==
  ASSUME Typed, Quit
  PROVE  Serves(<<Signal("Stopping", None)>>) /\ GoesOn(<<Signal("Stopping", None)>>)
<1> DEFINE m == Signal("Stopping", None)
           more == <<m>>
<1>1. /\ service' = [service EXCEPT !.phase = "stopping"] /\ service.phase = "ready"
      /\ inbound' = inbound \o more
  BY DEF Quit, Send
<1>2. /\ service'.has = service.has /\ service'.gen = service.gen /\ service'.phase = "stopping"
      /\ DOMAIN service' = DOMAIN service
  BY <1>1 DEF Typed
<1>3. ServiceTyped' /\ \A k \in Key : service.has[k] <= service'.has[k]
  BY <1>2 DEF Typed, ServiceTyped, Counted
<1>4. Fewer(calls') /\ UNCHANGED <<conn, seen>> /\ wanted' \in BOOLEAN
  BY CallsTaken DEF Quit, Typed
<1>5. m \in Message /\ m.kind = "Stopping"
  BY DEF Signal, Message, Typed
<1> HIDE DEF m
<1>6. more \in Seq(Message) /\ Len(more) = 1 /\ more[1] = m
  BY <1>5
<1> HIDE DEF more
<1>7. TellsAll(more, service'.has)
  BY <1>5, <1>6 DEF TellsAll, Carries
<1>8. Serves(more)
  BY <1>1, <1>3, <1>4, <1>7 DEF Serves
<1>9. GoesOn(more)
  BY <1>1, <1>2, <1>5, <1>6 DEF GoesOn
<1> QED BY <1>8, <1>9 DEF more, m

LEMMA StartsServes ==
  ASSUME Typed, Starts, service.phase = "absent", UNCHANGED <<conn, calls, seen>>, wanted' \in BOOLEAN
  PROVE  \E more : Serves(more) /\ Begins(more)
<1> DEFINE m == Owner(service'.gen)
           more == <<m>>
<1>1. service' = [service EXCEPT !.phase = "starting", !.gen = @ + 1] /\ inbound' = inbound \o more
  BY DEF Starts, Send
<1>2. /\ service'.has = service.has /\ service'.gen = service.gen + 1 /\ service'.phase = "starting"
      /\ DOMAIN service' = DOMAIN service
  BY <1>1 DEF Typed
<1>3. ServiceTyped' /\ \A k \in Key : service.has[k] <= service'.has[k]
  BY <1>2 DEF Typed, ServiceTyped, Counted
<1>4. Fewer(calls')
  BY CallsTaken DEF Typed
<1>5. m \in Message /\ m.kind = "owner"
  BY <1>3 DEF Owner, Message, ServiceTyped
<1>6. more = <<Owner(service'.gen)>>
  OBVIOUS
<1> HIDE DEF m
<1>7. more \in Seq(Message) /\ Len(more) = 1 /\ more[1] = m
  BY <1>5
<1> HIDE DEF more
<1>8. TellsAll(more, service'.has)
  BY <1>5, <1>7 DEF TellsAll, Carries
<1>9. Serves(more)
  BY <1>1, <1>3, <1>4, <1>8 DEF Serves
<1>10. Begins(more)
  BY <1>2, <1>6 DEF Begins
<1> QED BY <1>9, <1>10

LEMMA GoneServes ==
  ASSUME Typed, NEW told \in Nat, Gone(told), Runs, UNCHANGED <<conn, seen>>, wanted' \in BOOLEAN
  PROVE  \E more : Serves(more) /\ Ends(more)
<1>1. PICK n \in told..Len(calls) :
        /\ service' = [service EXCEPT !.phase = "absent"]
        /\ inbound' = inbound \o (Failures(SubSeq(calls, 1, told), "failed") \o <<Owner(None)>> \o
                                  Failures(SubSeq(calls, told + 1, n), "failed"))
        /\ calls' = SubSeq(calls, n + 1, Len(calls))
  BY DEF Gone, Send
<1> DEFINE one == SubSeq(calls, 0 + 1, told)
           two == SubSeq(calls, told + 1, n)
           m == Owner(None)
           a == Failures(one, "failed")
           b == <<m>>
           d == Failures(two, "failed")
           ab == a \o b
           more == ab \o d
<1>2. n \in Nat /\ n <= Len(calls) /\ told <= Len(calls)
  BY LenProperties DEF Typed
<1>3. one \in Seq(PhoneCall) /\ two \in Seq(PhoneCall) /\ Fewer(calls')
  BY <1>1, <1>2, CallsTaken
<1>4. inbound' = inbound \o more
  BY <1>1
<1>5. /\ service'.has = service.has /\ service'.gen = service.gen /\ service'.phase = "absent"
      /\ DOMAIN service' = DOMAIN service
  BY <1>1 DEF Typed
<1>6. ServiceTyped' /\ \A k \in Key : service.has[k] <= service'.has[k]
  BY <1>5 DEF Typed, ServiceTyped, Counted
<1>7. m \in Message /\ m.kind = "owner" /\ m.sender = None
  BY DEF Owner, Message
<1> HIDE DEF one, two, m
<1>8. Plain(a, service.has) /\ Plain(d, service.has)
  BY <1>3, FailuresPlain
<1>9. b \in Seq(Message) /\ Len(b) = 1 /\ b[1] = m
  BY <1>7
<1>10. a \in Seq(Message) /\ d \in Seq(Message)
  BY <1>8 DEF Plain
<1> HIDE DEF a, b, d
<1>11. ab = a \o b /\ more = ab \o d
  OBVIOUS
<1> HIDE DEF ab, more
<1>12. /\ ab \in Seq(Message)
       /\ \A i \in 1..Len(ab) : \/ \E j \in 1..Len(a) : ab[i] = a[j]
                                \/ \E j \in 1..Len(b) : ab[i] = b[j]
  <2>1. /\ a \o b \in Seq(Message)
        /\ \A i \in 1..Len(a \o b) : \/ \E j \in 1..Len(a) : (a \o b)[i] = a[j]
                                     \/ \E j \in 1..Len(b) : (a \o b)[i] = b[j]
    BY <1>9, <1>10, ConcatEach
  <2> QED BY <1>11, <2>1
<1>13. /\ more \in Seq(Message)
       /\ \A i \in 1..Len(more) : \/ \E j \in 1..Len(ab) : more[i] = ab[j]
                                  \/ \E j \in 1..Len(d) : more[i] = d[j]
  <2>1. /\ ab \o d \in Seq(Message)
        /\ \A i \in 1..Len(ab \o d) : \/ \E j \in 1..Len(ab) : (ab \o d)[i] = ab[j]
                                      \/ \E j \in 1..Len(d) : (ab \o d)[i] = d[j]
    BY <1>10, <1>12, ConcatEach
  <2> QED BY <1>11, <2>1
<1>14. \A i \in 1..Len(more) : TellsOf(more[i], service.has) \/ more[i] = m
  <2>1. \A i \in 1..Len(ab) : TellsOf(ab[i], service.has) \/ ab[i] = m
    BY <1>8, <1>9, <1>12 DEF Plain
  <2> QED BY <1>8, <1>13, <2>1 DEF Plain
<1>15. TellsAll(more, service'.has)
  BY <1>5, <1>7, <1>13, <1>14 DEF TellsAll, TellsOf, Carries
<1>16. Serves(more)
  BY <1>3, <1>4, <1>6, <1>15 DEF Serves
<1>17. Ends(more)
  BY <1>5, <1>7, <1>14 DEF Ends, TellsOf
<1> QED BY <1>16, <1>17

(***************************************************************************)
(* Names and what a stopped service leaves behind                          *)
(***************************************************************************)
\* The bus tells of a service that has the name only once, and of none after it
\* while it runs.
Names ==
  /\ conn.owner # None => conn.owner <= service.gen
  /\ \A i \in 1..Len(inbound) : inbound[i].kind = "owner" /\ inbound[i].sender # None =>
       inbound[i].sender <= service.gen
  /\ Runs => \A i, j \in 1..Len(inbound) :
       i < j /\ inbound[i].kind = "owner" /\ inbound[i].sender = service.gen =>
         inbound[j].kind # "owner"
  /\ Runs /\ conn.owner = service.gen => \A i \in 1..Len(inbound) : inbound[i].kind # "owner"

\* The word of the last service that it is about to stop.
LastWord(m, gen) == m.kind = "Stopping" /\ m.sender = gen
Told == conn.stopping \/ \E i \in 1..Len(inbound) : LastWord(inbound[i], service.gen)

\* Nothing that is under way starts a service that was told to quit.
Quiet ==
  /\ service.phase \in {"stopping", "absent"}
  /\ service.phase = "stopping" => Told
  /\ \A i \in 1..Len(calls) : calls[i].to # None
  /\ conn.owner \in {None, service.gen}
  /\ conn.owner = None => conn.stopping
  /\ \A i \in 1..Len(inbound) : inbound[i].kind = "owner" =>
       /\ inbound[i].sender = None
       /\ conn.stopping \/ \E j \in 1..Len(inbound) : j < i /\ LastWord(inbound[j], service.gen)

LEMMA TurnNames ==
  ASSUME Shown, Names, NEW c \in Connection, NEW i, NEW rest, Taken(i, rest), Shell(c, rest),
         Turns(i, c), UNCHANGED service
  PROVE  Names'
<1>1. conn'.owner = c.owner
  BY ShellMoves DEF Shown
<1>2. PICK g : Passes(i, c, g)
  BY ShellPasses DEF Shown
<1>3. /\ \A j \in 1..Len(inbound') : g[j] \in 1..Len(inbound) /\ g[j] # i /\ inbound'[j] = inbound[g[j]]
      /\ \A j, l \in 1..Len(inbound') : j < l => g[j] < g[l]
  BY <1>2 DEF Passes
<1>4. \A j \in 1..Len(inbound') : inbound'[j].kind = "owner" /\ inbound'[j].sender # None =>
        inbound'[j].sender <= service'.gen
  BY <1>3 DEF Names
<1>5. Runs' => \A j, l \in 1..Len(inbound') :
        j < l /\ inbound'[j].kind = "owner" /\ inbound'[j].sender = service'.gen =>
          inbound'[l].kind # "owner"
  BY <1>3 DEF Names, Runs
<1>6. CASE c.owner = conn.owner
  <2>1. conn'.owner # None => conn'.owner <= service'.gen
    BY <1>1, <1>6 DEF Names
  <2>2. Runs' /\ conn'.owner = service'.gen => \A j \in 1..Len(inbound') : inbound'[j].kind # "owner"
    BY <1>1, <1>3, <1>6 DEF Names, Runs
  <2> QED BY <1>4, <1>5, <2>1, <2>2 DEF Names
<1>7. CASE c.owner # conn.owner
  <2>1. i = 1 /\ i \in 1..Len(inbound) /\ inbound[i].kind = "owner" /\ c.owner = inbound[i].sender
    <3>1. i \in 1..Len(inbound) /\ inbound[i].kind = "owner" /\ c.owner = inbound[i].sender
      BY <1>7 DEF Turns, Forgets, Handles
    <3>2. ~(i > 1)
      BY <3>1 DEF Turns
    <3> QED BY <3>1, <3>2
  <2>2. conn'.owner # None => conn'.owner <= service'.gen
    BY <1>1, <2>1 DEF Names
  <2>3. Runs' /\ conn'.owner = service'.gen => \A j \in 1..Len(inbound') : inbound'[j].kind # "owner"
    <3> SUFFICES ASSUME Runs, c.owner = service.gen, NEW j \in 1..Len(inbound')
                 PROVE  inbound'[j].kind # "owner"
      BY <1>1 DEF Runs
    <3>1. g[j] \in 1..Len(inbound) /\ g[j] > i /\ inbound'[j] = inbound[g[j]]
      BY <1>3, <2>1
    <3> QED BY <2>1, <3>1 DEF Names
  <2> QED BY <1>4, <1>5, <2>2, <2>3 DEF Names
<1> QED BY <1>6, <1>7

LEMMA ServesNames ==
  ASSUME Typed, Names, NEW more, Serves(more), GoesOn(more) \/ Begins(more) \/ Ends(more)
  PROVE  Names'
<1>1. inbound \in Seq(Message) /\ more \in Seq(Message) /\ inbound' = inbound \o more
  BY DEF Typed, Serves, TellsAll
<1>2. /\ Len(inbound) \in Nat
      /\ \A i \in 1..Len(inbound') :
           \/ i \in 1..Len(inbound) /\ inbound'[i] = inbound[i]
           \/ i - Len(inbound) \in 1..Len(more) /\ inbound'[i] = more[i - Len(inbound)]
  BY <1>1, ConcatPlaces
<1>3. conn' = conn /\ service.gen \in Nat /\ service'.gen \in Nat
  BY DEF Typed, Serves, ServiceTyped
<1>4. conn.owner \in Nat \cup {None} /\ \A i \in 1..Len(inbound) :
        inbound[i].kind = "owner" => inbound[i].sender \in Nat \cup {None}
  <2>1. conn.owner \in Nat \cup {None}
    BY DEF Typed, AtRest, Connection
  <2>2. \A i \in 1..Len(inbound) : inbound[i] \in Message
    BY <1>1, ElementOfSeq
  <2> QED BY <2>1, <2>2, MessageKinds
<1>5. service.gen <= service'.gen
  BY <1>3 DEF GoesOn, Begins, Ends
<1>6. conn'.owner # None => conn'.owner <= service'.gen
  BY <1>3, <1>4, <1>5 DEF Names
<1>7. \A i \in 1..Len(inbound) : inbound[i].kind = "owner" /\ inbound[i].sender # None =>
        inbound[i].sender <= service.gen /\ inbound[i].sender <= service'.gen
  BY <1>3, <1>4, <1>5 DEF Names
<1>8. CASE GoesOn(more)
  <2>1. \A i \in 1..Len(inbound') : inbound'[i].kind = "owner" =>
          i \in 1..Len(inbound) /\ inbound'[i] = inbound[i]
    BY <1>2, <1>8 DEF GoesOn
  <2>2. (Runs' => Runs) /\ service'.gen = service.gen
    BY <1>8 DEF GoesOn, Runs
  <2>3. \A i \in 1..Len(inbound') : inbound'[i].kind = "owner" /\ inbound'[i].sender # None =>
          inbound'[i].sender <= service'.gen
    BY <1>7, <2>1
  <2>4. Runs' => \A i, j \in 1..Len(inbound') :
          i < j /\ inbound'[i].kind = "owner" /\ inbound'[i].sender = service'.gen =>
            inbound'[j].kind # "owner"
    <3> SUFFICES ASSUME Runs, NEW i \in 1..Len(inbound'), NEW j \in 1..Len(inbound'), i < j,
                        inbound'[i].kind = "owner", inbound'[i].sender = service.gen,
                        inbound'[j].kind = "owner"
                 PROVE  FALSE
      BY <2>2
    <3>1. i \in 1..Len(inbound) /\ inbound'[i] = inbound[i] /\ j \in 1..Len(inbound) /\ inbound'[j] = inbound[j]
      BY <2>1
    <3> QED BY <3>1 DEF Names
  <2>5. Runs' /\ conn'.owner = service'.gen => \A i \in 1..Len(inbound') : inbound'[i].kind # "owner"
    BY <1>3, <2>1, <2>2 DEF Names
  <2> QED BY <1>6, <2>3, <2>4, <2>5 DEF Names
<1>9. CASE Begins(more)
  <2>1. more = <<Owner(service'.gen)>> /\ service'.gen = service.gen + 1
    BY <1>9 DEF Begins
  <2>2. Len(more) = 1 /\ more[1].kind = "owner" /\ more[1].sender = service'.gen
    BY <2>1 DEF Owner
  <2>3. \A i \in 1..Len(inbound') :
          \/ i \in 1..Len(inbound) /\ inbound'[i] = inbound[i]
          \/ i = Len(inbound) + 1 /\ inbound'[i].sender = service'.gen
    BY <1>2, <2>2
  <2>4. \A i \in 1..Len(inbound') : inbound'[i].kind = "owner" /\ inbound'[i].sender # None =>
          inbound'[i].sender <= service'.gen
    BY <1>3, <1>7, <2>3
  <2>5. ASSUME NEW i \in 1..Len(inbound'), NEW j \in 1..Len(inbound'), i < j,
               inbound'[i].kind = "owner", inbound'[i].sender = service'.gen
        PROVE  FALSE
    <3>1. i \in 1..Len(inbound) /\ inbound'[i] = inbound[i]
      BY <1>2, <2>3, <2>5
    <3>2. inbound[i].sender \in Nat /\ inbound[i].sender <= service.gen
      BY <1>3, <1>7, <2>1, <2>5, <3>1, NoneAssumption
    <3> QED BY <1>3, <2>1, <2>5, <3>1, <3>2
  <2>6. conn'.owner # service'.gen
    <3>1. conn.owner \in Nat => conn.owner <= service.gen
      BY NoneAssumption DEF Names
    <3> QED BY <1>3, <1>4, <2>1, <3>1, NoneAssumption
  <2> QED BY <1>6, <2>4, <2>5, <2>6 DEF Names
<1>10. CASE Ends(more)
  <2>1. ~Runs'
    BY <1>10 DEF Ends, Runs
  <2>2. \A i \in 1..Len(inbound') : inbound'[i].kind = "owner" /\ inbound'[i].sender # None =>
          inbound'[i].sender <= service'.gen
    BY <1>2, <1>7, <1>10 DEF Ends
  <2> QED BY <1>6, <2>1, <2>2 DEF Names
<1> QED BY <1>8, <1>9, <1>10

LEMMA TurnQuiet ==
  ASSUME Shown, Quiet, NEW c \in Connection, NEW i, NEW rest, Taken(i, rest), Shell(c, rest),
         Turns(i, c), i = 0 /\ conn.stopping => c.stopping /\ c.out = <<>>, UNCHANGED service
  PROVE  Quiet'
<1>1. /\ conn'.owner = c.owner /\ conn'.stopping = c.stopping
      /\ \A j \in 1..Len(calls') : \/ \E n \in 1..Len(calls) : calls'[j].to = calls[n].to
                                   \/ \E n \in DOMAIN c.out : calls'[j].to = c.out[n].to
  BY ShellMoves DEF Shown
<1>2. PICK g : Passes(i, c, g)
  BY ShellPasses DEF Shown
<1>3. /\ \A j \in 1..Len(inbound') : g[j] \in 1..Len(inbound) /\ g[j] # i /\ inbound'[j] = inbound[g[j]]
      /\ \A j, l \in 1..Len(inbound') : j < l => g[j] < g[l]
      /\ \A n \in 1..Len(inbound) :
           n # i /\ inbound[n].kind # "answer" => \E j \in 1..Len(inbound') : g[j] = n
  BY <1>2 DEF Passes
<1>4. service.gen \in Nat /\ service.gen # None
  BY NoneAssumption DEF Shown, Typed
<1>5. conn.stopping => c.stopping /\ c.out = <<>>
  <2>1. CASE i = 0
    BY <2>1
  <2>2. CASE i # 0 /\ inbound[i].kind # "owner"
    BY <2>2 DEF Turns, Handles
  <2>3. CASE i # 0 /\ inbound[i].kind = "owner"
    <3>1. i \in 1..Len(inbound) /\ Handles(inbound[i], conn, c)
      BY <2>3 DEF Turns
    <3>2. inbound[i].sender = None
      BY <2>3, <3>1 DEF Quiet
    <3> QED BY <2>3, <3>1, <3>2 DEF Handles
  <2> QED BY <2>1, <2>2, <2>3
<1>6. CASE i \in 1..Len(inbound) /\ inbound[i].kind = "owner"
  <2>1. Handles(inbound[i], conn, c) /\ inbound[i].sender = None /\ ~(i > 1)
    BY <1>6 DEF Turns, Quiet
  <2>2. conn.stopping
    <3>1. ~\E j \in 1..Len(inbound) : j < i /\ LastWord(inbound[j], service.gen)
      BY <1>6, <2>1
    <3> QED BY <1>6, <3>1 DEF Quiet
  <2>3. c.owner = None /\ c.stopping /\ c.out = <<>>
    BY <1>5, <1>6, <2>1, <2>2 DEF Handles
  <2>4. \A j \in 1..Len(calls') : calls'[j].to # None
    <3>1. DOMAIN c.out = {}
      BY <2>3
    <3> QED BY <1>1, <3>1 DEF Quiet
  <2>5. \A j \in 1..Len(inbound') : inbound'[j].kind = "owner" => inbound'[j].sender = None
    BY <1>3 DEF Quiet
  <2> QED BY <1>1, <2>3, <2>4, <2>5 DEF Quiet, Told
<1>7. CASE ~(i \in 1..Len(inbound) /\ inbound[i].kind = "owner")
  <2>1. c.owner = conn.owner /\ \A n \in DOMAIN c.out : c.out[n].to = c.owner
    BY <1>7 DEF Turns, Forgets, Handles
  <2>2. c.owner = None => c.stopping /\ c.out = <<>>
    BY <1>5, <2>1 DEF Quiet
  <2>3. \A j \in 1..Len(calls') : calls'[j].to # None
    <3>1. c.owner = None => DOMAIN c.out = {}
      BY <2>2
    <3> QED BY <1>1, <2>1, <3>1 DEF Quiet
  <2>4. ASSUME NEW n \in 1..Len(inbound), LastWord(inbound[n], service.gen)
        PROVE  \/ c.stopping
               \/ \E j \in 1..Len(inbound') : g[j] = n /\ LastWord(inbound'[j], service.gen)
    <3>1. inbound[n].kind = "Stopping" /\ inbound[n].sender = service.gen
      BY <2>4 DEF LastWord
    <3>2. CASE n # i
      <4>1. PICK j \in 1..Len(inbound') : g[j] = n
        BY <1>3, <3>1, <3>2
      <4>2. inbound'[j] = inbound[n]
        BY <1>3, <4>1
      <4> QED BY <3>1, <4>1, <4>2 DEF LastWord
    <3>3. CASE n = i
      <4>1. Handles(inbound[i], conn, c)
        BY <1>4, <3>3 DEF Turns
      <4>2. CASE conn.owner = service.gen
        BY <3>1, <3>3, <4>1, <4>2 DEF Handles
      <4>3. CASE conn.owner = None
        BY <2>1, <2>2, <4>3
      <4> QED BY <4>2, <4>3 DEF Quiet
    <3> QED BY <3>2, <3>3
  <2>5. service'.phase = "stopping" => Told'
    <3> SUFFICES ASSUME service.phase = "stopping", ~c.stopping PROVE Told'
      BY <1>1 DEF Told
    <3>1. PICK n \in 1..Len(inbound) : LastWord(inbound[n], service.gen)
      BY <1>5 DEF Quiet, Told
    <3> QED BY <2>4, <3>1 DEF Told
  <2>6. ASSUME NEW j \in 1..Len(inbound'), inbound'[j].kind = "owner"
        PROVE  /\ inbound'[j].sender = None
               /\ conn'.stopping \/ \E l \in 1..Len(inbound') : l < j /\ LastWord(inbound'[l], service.gen)
    <3>1. g[j] \in 1..Len(inbound) /\ inbound[g[j]].kind = "owner" /\ inbound'[j] = inbound[g[j]]
      BY <1>3, <2>6
    <3>2. inbound'[j].sender = None
      BY <3>1 DEF Quiet
    <3>3. ASSUME ~c.stopping PROVE \E l \in 1..Len(inbound') : l < j /\ LastWord(inbound'[l], service.gen)
      <4>1. PICK n \in 1..Len(inbound) : n < g[j] /\ LastWord(inbound[n], service.gen)
        BY <1>5, <3>1, <3>3 DEF Quiet
      <4>2. PICK l \in 1..Len(inbound') : g[l] = n /\ LastWord(inbound'[l], service.gen)
        BY <2>4, <3>3, <4>1
      <4>3. ~(j < l) /\ j # l
        BY <1>3, <3>1, <4>1, <4>2
      <4>4. l \in Int /\ j \in Int
        OBVIOUS
      <4> QED BY <4>2, <4>3, <4>4
    <3> QED BY <1>1, <3>2, <3>3
  <2> QED BY <1>1, <2>1, <2>2, <2>3, <2>5, <2>6 DEF Quiet
<1> QED BY <1>6, <1>7

LEMMA ServesQuiet ==
  ASSUME Typed, Quiet, NEW more, Serves(more), GoesOn(more) \/ Ends(more)
  PROVE  Quiet'
<1>1. inbound \in Seq(Message) /\ more \in Seq(Message) /\ inbound' = inbound \o more
  BY DEF Typed, Serves, TellsAll
<1>2. /\ Len(inbound) \in Nat
      /\ \A i \in 1..Len(inbound) : i \in 1..Len(inbound') /\ inbound'[i] = inbound[i]
      /\ \A i \in 1..Len(inbound') :
           \/ i \in 1..Len(inbound) /\ inbound'[i] = inbound[i]
           \/ i - Len(inbound) \in 1..Len(more) /\ inbound'[i] = more[i - Len(inbound)]
  BY <1>1, ConcatPlaces
<1>3. conn' = conn /\ service'.gen = service.gen
  BY DEF Serves, GoesOn, Ends
<1>4. \A i \in 1..Len(calls') : calls'[i].to # None
  BY DEF Serves, Fewer, Quiet
<1>5. Told => Told'
  BY <1>2, <1>3 DEF Told, LastWord
<1>6. /\ service'.phase \in {"stopping", "absent"}
      /\ service'.phase = "stopping" => service.phase = "stopping"
      /\ Ends(more) => service.phase = "stopping"
  BY DEF GoesOn, Ends, Quiet, Runs
<1>7. ASSUME NEW i \in 1..Len(inbound'), inbound'[i].kind = "owner"
      PROVE  /\ inbound'[i].sender = None
             /\ conn'.stopping \/ \E j \in 1..Len(inbound') : j < i /\ LastWord(inbound'[j], service.gen)
  <2>1. CASE i \in 1..Len(inbound) /\ inbound'[i] = inbound[i]
    <3>1. /\ inbound[i].sender = None
          /\ conn.stopping \/ \E j \in 1..Len(inbound) : j < i /\ LastWord(inbound[j], service.gen)
      BY <1>7, <2>1 DEF Quiet
    <3> QED BY <1>2, <1>3, <2>1, <3>1 DEF LastWord
  <2>2. CASE i - Len(inbound) \in 1..Len(more) /\ inbound'[i] = more[i - Len(inbound)]
    <3>1. Ends(more)
      BY <1>7, <2>2 DEF GoesOn
    <3>2. inbound'[i].sender = None
      BY <1>7, <2>2, <3>1 DEF Ends
    <3>3. conn.stopping \/ \E j \in 1..Len(inbound) : LastWord(inbound[j], service.gen)
      BY <1>6, <3>1 DEF Quiet, Told
    <3>4. \A j \in 1..Len(inbound) : j < i
      BY <1>2, <2>2
    <3> QED BY <1>2, <1>3, <3>2, <3>3, <3>4 DEF LastWord
  <2> QED BY <1>2, <2>1, <2>2
<1> QED BY <1>3, <1>4, <1>5, <1>6, <1>7 DEF Quiet

LEMMA QuitQuiet ==
  ASSUME Typed, Names, Quit, ~wanted'
  PROVE  Quiet'
<1> DEFINE m == Signal("Stopping", None)
           more == <<m>>
<1>1. Serves(more)
  BY QuitServes
<1>2. /\ Runs /\ conn.owner = service.gen /\ \A i \in DOMAIN calls : calls[i].to # None
      /\ service' = [service EXCEPT !.phase = "stopping"] /\ calls' = calls
  BY DEF Quit, Runs
<1>3. service'.gen = service.gen /\ service'.phase = "stopping" /\ service.gen \in Nat
  BY <1>2 DEF Typed
<1>4. m.kind = "Stopping" /\ m.sender = service.gen
  BY DEF Signal
<1> HIDE DEF m
<1>5. Len(more) = 1 /\ more[1] = m
  OBVIOUS
<1> HIDE DEF more
<1>6. inbound \in Seq(Message) /\ more \in Seq(Message) /\ inbound' = inbound \o more /\ conn' = conn
  BY <1>1 DEF Typed, Serves, TellsAll
<1>7. /\ Len(inbound) \in Nat
      /\ \A i \in 1..Len(more) : Len(inbound) + i \in 1..Len(inbound') /\ inbound'[Len(inbound) + i] = more[i]
      /\ \A i \in 1..Len(inbound') :
           \/ i \in 1..Len(inbound) /\ inbound'[i] = inbound[i]
           \/ i - Len(inbound) \in 1..Len(more) /\ inbound'[i] = more[i - Len(inbound)]
  BY <1>6, ConcatPlaces
<1>8. \A i \in 1..Len(inbound') : inbound'[i].kind # "owner"
  BY <1>2, <1>4, <1>5, <1>7 DEF Names
<1>9. Told'
  <2>1. Len(inbound) + 1 \in 1..Len(inbound') /\ inbound'[Len(inbound) + 1] = m
    BY <1>5, <1>7
  <2> QED BY <1>3, <1>4, <2>1 DEF Told, LastWord
<1>10. \A i \in 1..Len(calls') : calls'[i].to # None
  BY <1>2, LenProperties DEF Typed
<1>11. conn'.owner \in {None, service'.gen} /\ conn'.owner # None
  BY <1>2, <1>3, <1>6, NoneAssumption
<1> QED BY <1>3, <1>8, <1>9, <1>10, <1>11 DEF Quiet

(***************************************************************************)
(* The steps                                                               *)
(***************************************************************************)
ShellTurn ==
  /\ \E c, i, rest :
       /\ c \in Connection /\ Taken(i, rest) /\ Shell(c, rest) /\ Turns(i, c)
       /\ i = 0 /\ conn.stopping /\ ~wanted' => c.stopping /\ c.out = <<>>
  /\ UNCHANGED service /\ (wanted' = wanted \/ wanted' = TRUE)
ServiceGoes ==
  /\ \E more : Serves(more) /\ (GoesOn(more) \/ Ends(more))
  /\ wanted' = wanted \/ wanted' = TRUE
ServiceBegins ==
  /\ \E more : Serves(more) /\ Begins(more)
  /\ wanted' = TRUE \/ (wanted' = wanted /\ calls # <<>> /\ calls[1].to = None)

LEMMA TurnSteps ==
  ASSUME Typed, Ask \/ Retry \/ \E i \in DOMAIN inbound : Deliver(i)
  PROVE  ShellTurn
<1>1. AtRest(conn) /\ DOMAIN inbound = 1..Len(inbound) /\ \A i \in 1..Len(inbound) : inbound[i] \in Message
  BY LenProperties, ElementOfSeq DEF Typed
<1>2. CASE Ask
  <2>1. PICK c \in {Request(conn), RefreshAsked(conn)} : Shell(c, inbound)
    BY <1>2 DEF Ask
  <2>2. Forgets(conn, c)
    BY <1>1, AskForgets
  <2>3. c \in Connection /\ Turns(0, c) /\ Taken(0, inbound)
    BY <2>2 DEF Forgets, Turns, Taken
  <2>4. UNCHANGED service /\ wanted' = TRUE
    BY <1>2 DEF Ask
  <2> QED BY <2>1, <2>3, <2>4 DEF ShellTurn
<1>3. CASE Retry
  <2> DEFINE c == RetryFires(conn)
  <2>1. Shell(c, inbound) /\ UNCHANGED <<service, wanted>>
    BY <1>3 DEF Retry
  <2>2. Forgets(conn, c) /\ (conn.stopping => c.stopping /\ c.out = <<>>)
    BY <1>1, RetryForgets
  <2> HIDE DEF c
  <2>3. c \in Connection /\ Turns(0, c) /\ Taken(0, inbound)
    BY <2>2 DEF Forgets, Turns, Taken
  <2> QED BY <2>1, <2>2, <2>3 DEF ShellTurn
<1>4. ASSUME NEW i \in DOMAIN inbound, Deliver(i) PROVE ShellTurn
  <2> DEFINE c == Handled(inbound[i])
             rest == Sq!RemoveAt(inbound, i)
  <2>1. Shell(c, rest) /\ UNCHANGED <<service, wanted>>
    BY <1>4 DEF Deliver
  <2>2. i \in 1..Len(inbound) /\ inbound[i] \in Message
    BY <1>1
  <2>3. Handles(inbound[i], conn, c)
    BY <1>1, <2>2, HandledHandles
  <2>4. Taken(i, rest)
    BY <2>2 DEF Taken
  <2> HIDE DEF c, rest
  <2>5. c \in Connection
    BY <2>3 DEF Handles
  <2>6. Turns(i, c)
    BY <1>4, <2>2, <2>3 DEF Turns, Deliver
  <2>7. i # 0
    BY <2>2
  <2> QED BY <2>1, <2>4, <2>5, <2>6, <2>7 DEF ShellTurn
<1> QED BY <1>2, <1>3, <1>4

LEMMA ServiceSteps ==
  ASSUME Typed, \/ Undeliverable \/ Overflow \/ Dispatch \/ Initialize \/ Change
                \/ Release \/ Crash \/ InitializeFails \/ ActivationFails \/ UNCHANGED vars
  PROVE  ServiceGoes
<1>0. wanted \in BOOLEAN
  BY DEF Typed
<1>1. CASE Undeliverable
  <2>1. wanted' = wanted
    BY <1>1 DEF Undeliverable
  <2> QED BY <1>1, <2>1, UndeliverableServes DEF ServiceGoes
<1>2. CASE Overflow
  <2>1. wanted' = wanted
    BY <1>2 DEF Overflow
  <2> QED BY <1>2, <2>1, OverflowServes DEF ServiceGoes
<1>3. CASE Dispatch
  <2>1. wanted' = wanted
    BY <1>3 DEF Dispatch
  <2> QED BY <1>3, <2>1, DispatchServes DEF ServiceGoes
<1>4. CASE Initialize
  <2>1. wanted' = wanted
    BY <1>4 DEF Initialize
  <2> QED BY <1>4, <2>1, InitializeServes DEF ServiceGoes
<1>5. CASE Change
  <2>1. wanted' = wanted
    BY <1>5 DEF Change
  <2> QED BY <1>5, <2>1, ChangeServes DEF ServiceGoes
<1>6. CASE Release
  <2>1. wanted' = wanted /\ UNCHANGED <<conn, seen>> /\ Runs /\ Gone(0)
    BY <1>6 DEF Release, Runs
  <2> QED BY <1>0, <2>1, GoneServes DEF ServiceGoes
<1>7. CASE Crash
  <2>1. wanted' = TRUE /\ UNCHANGED <<conn, seen>> /\ Runs /\ Gone(0)
    BY <1>7 DEF Crash, Runs
  <2> QED BY <2>1, GoneServes DEF ServiceGoes
<1>8. CASE InitializeFails
  <2>1. PICK held \in 0..MaxHeld : Gone(held)
    BY <1>8 DEF InitializeFails
  <2>2. held \in Nat
    BY BoundAssumption
  <2>3. wanted' = TRUE /\ UNCHANGED <<conn, seen>> /\ Runs
    BY <1>8 DEF InitializeFails, Runs
  <2> QED BY <2>1, <2>2, <2>3, GoneServes DEF ServiceGoes
<1>9. CASE ActivationFails
  <2>1. wanted' = wanted
    BY <1>9 DEF ActivationFails
  <2> QED BY <1>9, <2>1, ActivationFailsServes DEF ServiceGoes
<1>10. CASE UNCHANGED vars
  <2>1. /\ UNCHANGED <<conn, seen, service>> /\ wanted' = wanted /\ calls' = calls
        /\ inbound' = inbound
    BY <1>10 DEF vars
  <2>2. inbound' = inbound \o <<>>
    BY <2>1, ConcatEmptySeq DEF Typed
  <2>3. Plain(<<>>, service.has)
    BY EmptySeq DEF Plain
  <2>4. Fewer(calls')
    BY <2>1, CallsTaken
  <2>5. Serves(<<>>) /\ GoesOn(<<>>)
    BY <1>0, <2>1, <2>2, <2>3, <2>4, SaysPlain
  <2> QED BY <2>1, <2>5 DEF ServiceGoes
<1> QED BY <1>1, <1>2, <1>3, <1>4, <1>5, <1>6, <1>7, <1>8, <1>9, <1>10

LEMMA BeginSteps ==
  ASSUME Typed, Activate \/ EnsureService
  PROVE  ServiceBegins
<1>1. CASE Activate
  <2>1. /\ Starts /\ service.phase = "absent" /\ UNCHANGED <<conn, calls, seen>> /\ wanted' = wanted
        /\ calls # <<>> /\ Head(calls).to = None
    BY <1>1 DEF Activate
  <2>2. calls[1].to = None
    BY <2>1, CallsTaken
  <2>3. wanted' \in BOOLEAN
    BY <2>1 DEF Typed
  <2> QED BY <2>1, <2>2, <2>3, StartsServes DEF ServiceBegins
<1>2. CASE EnsureService
  <2>1. Starts /\ service.phase = "absent" /\ UNCHANGED <<conn, calls, seen>> /\ wanted' = TRUE
    BY <1>2 DEF EnsureService
  <2> QED BY <2>1, StartsServes DEF ServiceBegins
<1> QED BY <1>1, <1>2

LEMMA Steps ==
  ASSUME Typed, [Next]_vars
  PROVE  ShellTurn \/ ServiceGoes \/ ServiceBegins \/ Quit
BY TurnSteps, ServiceSteps, BeginSteps DEF Next

\* What has to hold for the properties to be kept.
ShellInv == Shown /\ Names /\ (~wanted => Quiet)

LEMMA InitShellInv ==
  ASSUME Init
  PROVE  ShellInv
<1> DEFINE c == Refresh(NewConnection)
<1>1. AtRest(NewConnection)
  <2>1. <<>> \in Seq(PhoneCall)
    BY EmptySeq
  <2> QED BY <2>1 DEF NewConnection, AtRest, Connection
<1>2. /\ Forgets(NewConnection, c) /\ \A k \in Key : c[k] = NewConnection[k]
  BY <1>1, RefreshForgets DEF NewConnection
<1>3. conn = [c EXCEPT !.out = <<>>] /\ calls = c.out
  BY DEF Init
<1> HIDE DEF c
<1>4. c \in Connection /\ c.owner = None /\ \A k \in Key : c[k] = None
  BY <1>2 DEF Forgets, NewConnection, Key
<1>5. AtRest(conn) /\ conn.owner = None /\ \A k \in Key : conn[k] = None
  <2>1. <<>> \in Seq(PhoneCall)
    BY EmptySeq
  <2> QED BY <1>3, <1>4, <2>1 DEF AtRest, Connection, Key
<1>6. calls \in Seq(PhoneCall)
  BY <1>3, <1>4 DEF Connection
<1>7. /\ service = [phase |-> "absent", gen |-> 0, has |-> Initially]
      /\ inbound = <<>> /\ wanted = TRUE /\ seen = Initially
  BY DEF Init
<1>8. Counted(Initially) /\ \A k \in Key : Initially[k] = 0
  BY DEF Initially, Counted, Key
<1>9. inbound \in Seq(Message) /\ Len(inbound) = 0 /\ 1..Len(inbound) = {}
  BY <1>7, EmptySeq
<1>10. Typed
  BY <1>5, <1>6, <1>7, <1>8, <1>9 DEF Typed
<1>11. Newest
  BY <1>5, <1>7, <1>8 DEF Newest
<1>12. Ahead /\ InOrder
  BY <1>9 DEF Ahead, InOrder
<1>13. Names
  BY <1>5, <1>7, <1>9 DEF Names, Runs
<1> QED BY <1>7, <1>10, <1>11, <1>12, <1>13 DEF ShellInv, Shown

LEMMA NextShellInv ==
  ASSUME ShellInv, [Next]_vars
  PROVE  ShellInv'
<1>1. Shown /\ Typed /\ Names /\ (~wanted => Quiet)
  BY DEF ShellInv, Shown
<1>2. CASE ShellTurn
  <2>1. PICK c, i, rest :
          /\ c \in Connection /\ Taken(i, rest) /\ Shell(c, rest) /\ Turns(i, c)
          /\ i = 0 /\ conn.stopping /\ ~wanted' => c.stopping /\ c.out = <<>>
    BY <1>2 DEF ShellTurn
  <2>2. UNCHANGED service /\ (wanted' = wanted \/ wanted' = TRUE) /\ wanted' \in BOOLEAN
    BY <1>1, <1>2 DEF ShellTurn, Typed
  <2>3. Shown'
    BY <1>1, <2>1, <2>2, TurnShows
  <2>4. Names'
    BY <1>1, <2>1, <2>2, TurnNames
  <2>5. ASSUME ~wanted' PROVE Quiet'
    <3>1. ~wanted /\ Quiet /\ (i = 0 /\ conn.stopping => c.stopping /\ c.out = <<>>)
      BY <1>1, <2>1, <2>2, <2>5
    <3> QED BY <1>1, <2>1, <2>2, <3>1, TurnQuiet
  <2> QED BY <2>3, <2>4, <2>5 DEF ShellInv
<1>3. CASE ServiceGoes
  <2>1. PICK more : Serves(more) /\ (GoesOn(more) \/ Ends(more))
    BY <1>3 DEF ServiceGoes
  <2>2. Shown' /\ Names'
    BY <1>1, <2>1, ServesShown, ServesNames
  <2>3. ASSUME ~wanted' PROVE Quiet'
    <3>1. Quiet
      BY <1>1, <1>3, <2>3 DEF ServiceGoes
    <3> QED BY <1>1, <2>1, <3>1, ServesQuiet
  <2> QED BY <2>2, <2>3 DEF ShellInv
<1>4. CASE ServiceBegins
  <2>1. PICK more : Serves(more) /\ Begins(more)
    BY <1>4 DEF ServiceBegins
  <2>2. Shown' /\ Names'
    BY <1>1, <2>1, ServesShown, ServesNames
  <2>3. wanted'
    <3> SUFFICES ASSUME ~wanted' PROVE FALSE
      OBVIOUS
    <3>1. Quiet /\ calls # <<>> /\ calls[1].to = None
      BY <1>1, <1>4 DEF ServiceBegins
    <3>2. 1 \in 1..Len(calls)
      BY <1>1, <3>1, LenProperties, EmptySeq DEF Typed
    <3> QED BY <3>1, <3>2 DEF Quiet
  <2> QED BY <2>2, <2>3 DEF ShellInv
<1>5. CASE Quit
  <2>1. Serves(<<Signal("Stopping", None)>>) /\ GoesOn(<<Signal("Stopping", None)>>)
    BY <1>1, <1>5, QuitServes
  <2>2. Shown' /\ Names'
    BY <1>1, <2>1, ServesShown, ServesNames
  <2>3. ~wanted' => Quiet'
    BY <1>1, <1>5, QuitQuiet
  <2> QED BY <2>2, <2>3 DEF ShellInv
<1> QED BY <1>1, <1>2, <1>3, <1>4, <1>5, Steps

LEMMA StartsWanted ==
  ASSUME ShellInv, [Next]_vars, service.phase = "absent", service'.phase = "starting"
  PROVE  wanted'
<1>1. Typed /\ (~wanted => Quiet)
  BY DEF ShellInv, Shown
<1>2. CASE ServiceBegins
  <2> SUFFICES ASSUME ~wanted' PROVE FALSE
    OBVIOUS
  <2>1. Quiet /\ calls # <<>> /\ calls[1].to = None
    BY <1>1, <1>2 DEF ServiceBegins
  <2>2. 1 \in 1..Len(calls)
    BY <1>1, <2>1, LenProperties, EmptySeq DEF Typed
  <2> QED BY <2>1, <2>2 DEF Quiet
<1>3. ~ShellTurn
  BY DEF ShellTurn
<1>4. ~ServiceGoes
  BY DEF ServiceGoes, GoesOn, Ends
<1>5. ~Quit
  BY DEF Quit
<1> QED BY <1>1, <1>2, <1>3, <1>4, <1>5, Steps

\* What the panel shows is never replaced by something older, whichever answers
\* and signals overtake each other and whichever service they come from.
THEOREM SpecNeverOlder == Spec => []NeverOlder
<1>1. Init => ShellInv
  BY InitShellInv
<1>2. ShellInv /\ [Next]_vars => ShellInv'
  BY NextShellInv
<1>3. ShellInv => NeverOlder
  BY DEF ShellInv, Shown, Typed, Counted, Newest, NeverOlder
<1> QED BY <1>1, <1>2, <1>3, PTL DEF Spec

\* A service that `queue-focus quit` stopped is not started again before there
\* is a request, a command or a fault that asks for it.
THEOREM SpecStaysStopped == Spec => StaysStopped
<1>1. Init => ShellInv
  BY InitShellInv
<1>2. ShellInv /\ [Next]_vars => ShellInv'
  BY NextShellInv
<1>3. ShellInv /\ [Next]_vars
      => [service.phase = "absent" /\ service'.phase = "starting" => wanted']_vars
  BY StartsWanted
<1> QED BY <1>1, <1>2, <1>3, PTL DEF Spec, StaysStopped

=============================================================================
