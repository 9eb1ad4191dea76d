---------------------------- MODULE NotifierProofs ----------------------------
(***************************************************************************)
(* Theorems about the alerts of one host, for every set of containers,     *)
(* every delay and timeout, and every bound.                               *)
(***************************************************************************)
EXTENDS Notifier, TLAPS

-----------------------------------------------------------------------------
(* Types *)

Entry == [ts : Nat, status : Status, fired : BOOLEAN]

\* What a container's listing says is a status (ContainerStatus).
LEMMA StatusType == \A x \in Condition : StatusOf(x) \in Status
BY DEF Condition, Status, StatusOf

\* Folding a status into a tracked container gives a tracked container
\* (Tracker::evaluate).
LEMMA FoldType ==
    ASSUME NEW t \in Tracked, NEW cur \in Status, NEW ts \in Nat
    PROVE  /\ Since(t, cur, ts) \in Nat
           /\ Fires(t, cur, ts) \in BOOLEAN
           /\ Fold(t, cur, ts) \in Tracked
<1>1. t.pending # NoPending => t.pending \in Pending
  BY DEF Tracked
<1>2. Since(t, cur, ts) \in Nat
  BY <1>1 DEF Since, Pending
<1>3. Fires(t, cur, ts) \in BOOLEAN
  BY DEF Fires
<1>4. Fold(t, cur, ts) \in Tracked
  <2>1. CASE cur = t.notified \/ Fires(t, cur, ts)
    BY <2>1 DEF Fold, Tracked
  <2>2. CASE ~(cur = t.notified \/ Fires(t, cur, ts))
    <3>1. [to |-> cur, since |-> Since(t, cur, ts)] \in Pending
      BY <1>2 DEF Pending
    <3> QED BY <2>2, <3>1 DEF Fold, Tracked
  <2> QED BY <2>1, <2>2
<1> QED BY <1>2, <1>3, <1>4

\* The initial state has its types.
LEMMA TypeInit == Init => TypeOK
<1> SUFFICES ASSUME Init PROVE TypeOK
  OBVIOUS
<1>1. real \in [Containers -> RealState]
  BY DEF Init, RealState, Condition
<1>2. obs \in [Containers -> Seq(Entry)]
  BY DEF Init
<1> QED BY <1>1, <1>2 DEF Init, TypeOK, Entry

\* An evaluated snapshot leaves every container tracked by what it said.
LEMMA EvaluateTypes ==
    ASSUME TypeOK, Evaluate
    PROVE  /\ states' \in [Containers -> Tracked \union {NotTracked}]
           /\ posts' \in SUBSET Post
           /\ obs' \in [Containers -> Seq(Entry)]
           /\ said' \in [Containers -> Nat]
<1> DEFINE cur == [c \in Listed |-> StatusOf(reading[c])]
           fires == {c \in Listed : states[c] # NotTracked
                                      /\ Fires(states[c], cur[c], wall)}
<1>1. /\ wall \in Nat /\ mono \in Nat
      /\ states \in [Containers -> Tracked \union {NotTracked}]
      /\ posts \in SUBSET Post /\ said \in [Containers -> Nat]
      /\ obs \in [Containers -> Seq(Entry)]
  BY DEF TypeOK, Entry
<1>2. Listed \subseteq Containers /\ \A c \in Listed : cur[c] \in Status
  BY StatusType DEF Listed
<1>3. /\ states' = [c \in Containers |->
                      IF c \notin Listed THEN NotTracked
                      ELSE IF states[c] = NotTracked
                        THEN [notified |-> cur[c], pending |-> NoPending]
                      ELSE Fold(states[c], cur[c], wall)]
      /\ said' = [c \in Containers |->
                    IF c \in fires THEN said[c] + 1 ELSE said[c]]
      /\ posts' = posts \union
                    {[to |-> cur[c], container |-> c, seq |-> said[c] + 1,
                      at |-> mono] : c \in fires}
      /\ obs' = [c \in Containers |->
                   IF c \in Listed
                     THEN Append(obs[c], [ts |-> wall, status |-> cur[c],
                                          fired |-> c \in fires])
                     ELSE <<>>]
  BY DEF Evaluate
<1> HIDE DEF cur
<1>4. states' \in [Containers -> Tracked \union {NotTracked}]
  <2>1. ASSUME NEW c \in Listed
        PROVE  [notified |-> cur[c], pending |-> NoPending] \in Tracked
    BY <1>2, <2>1 DEF Tracked
  <2>2. ASSUME NEW c \in Listed, states[c] # NotTracked
        PROVE  Fold(states[c], cur[c], wall) \in Tracked
    BY <1>1, <1>2, <2>2, FoldType
  <2> QED BY <1>3, <2>1, <2>2
<1>5. posts' \in SUBSET Post
  <2>1. \A c \in fires : [to |-> cur[c], container |-> c, seq |-> said[c] + 1,
                          at |-> mono] \in Post
    BY <1>1, <1>2 DEF Post
  <2> QED BY <1>1, <1>3, <2>1
<1>6. obs' \in [Containers -> Seq(Entry)]
  <2>1. ASSUME NEW c \in Listed
        PROVE  Append(obs[c], [ts |-> wall, status |-> cur[c],
                               fired |-> c \in fires]) \in Seq(Entry)
    <3>1. [ts |-> wall, status |-> cur[c], fired |-> c \in fires] \in Entry
      BY <1>1, <1>2 DEF Entry
    <3>2. obs[c] \in Seq(Entry)
      BY <1>1, <1>2
    <3> QED BY <3>1, <3>2
  <2> QED BY <1>3, <2>1
<1>7. said' \in [Containers -> Nat]
  BY <1>1, <1>3
<1> QED BY <1>4, <1>5, <1>6, <1>7

\* Every step of the clocks, the containers, the tracker and the detached
\* tasks keeps the types.
LEMMA TypeStep == TypeOK /\ [Next]_vars => TypeOK'
<1> SUFFICES ASSUME TypeOK, [Next]_vars PROVE TypeOK'
  OBVIOUS
<1> USE DEF clocks
<1>1. CASE Advance
  <2>1. wall' \in Nat /\ mono' \in Nat
    BY <1>1 DEF Advance, TypeOK
  <2>2. UNCHANGED <<jumps, real, reading, states, posts, inbox, obs, said,
                    restarts>>
    BY <1>1 DEF Advance
  <2> QED BY <2>1, <2>2 DEF TypeOK
<1>2. CASE Adjust
  <2>1. wall' \in Nat /\ jumps' \in Nat
    BY <1>2, NotifierBounds DEF Adjust, TypeOK
  <2>2. UNCHANGED <<mono, real, reading, states, posts, inbox, obs, said,
                    restarts>>
    BY <1>2 DEF Adjust
  <2> QED BY <2>1, <2>2 DEF TypeOK
<1>3. ASSUME NEW c \in Containers, Change(c) PROVE TypeOK'
  BY <1>3 DEF Change, TypeOK, RealState
<1>4. CASE Begin
  BY <1>4 DEF Begin, TypeOK
<1>5. CASE CollectFails
  BY <1>5 DEF CollectFails, TypeOK
<1>6. CASE Evaluate
  <2>1. /\ UNCHANGED <<clocks, real, inbox, restarts>> /\ reading' = NoReading
    BY <1>6 DEF Evaluate
  <2> QED BY <1>6, <2>1, EvaluateTypes DEF TypeOK, Entry
<1>7. ASSUME NEW p \in posts, Deliver(p) \/ PostFails(p) PROVE TypeOK'
  <2>1. p \in Post
    BY DEF TypeOK
  <2> QED BY <1>7, <2>1 DEF Deliver, PostFails, TypeOK, Post
<1>8. CASE Restart
  BY <1>8 DEF Restart, TypeOK
<1>9. CASE UNCHANGED vars
  BY <1>9 DEF vars, TypeOK
<1> QED BY <1>1, <1>2, <1>3, <1>4, <1>5, <1>6, <1>7, <1>8, <1>9 DEF Next

\* Type correctness of the tracker, the detached tasks and the endpoint.
THEOREM TypeCorrect == Spec => []TypeOK
BY TypeInit, TypeStep, PTL DEF Spec

-----------------------------------------------------------------------------
(* What the tracker remembers of the snapshots *)

\* The snapshots of o, up to the i-th, that told the user something.
Told(o, i) == {1} \union {j \in 1 .. i : o[j].fired}

LastTold(o, i, m) == m \in Told(o, i) /\ \A k \in Told(o, i) : k <= m

\* Snapshot k is where the status that ends o began.
Begins(o, k) ==
    /\ \A j \in k .. Len(o) : o[j].status = o[Len(o)].status
    /\ o[k - 1].status # o[Len(o)].status

\* The tracked t sums up the snapshots o: what was told last, and, while the
\* present status differs from it, that status and when it began.
SumsUp(t, o) ==
    /\ \E m \in 1 .. Len(o) : LastTold(o, Len(o), m) /\ t.notified = o[m].status
    /\ t.pending = NoPending => o[Len(o)].status = t.notified
    /\ t.pending # NoPending =>
         /\ t.pending.to = o[Len(o)].status
         /\ t.pending.to # t.notified
         /\ \E k \in 2 .. Len(o) : Begins(o, k) /\ o[k].ts = t.pending.since

\* The properties of a single container's snapshots.
JustifiedAt(o, i) ==
    o[i].fired => /\ i > 1
                  /\ o[i].status # ToldAfter(o, i - 1)
                  /\ Persisted(o, i)

NotMissedAt(o, i) ==
    o[i].status # ToldAfter(o, i - 1) /\ Persisted(o, i) => o[i].fired

Monotone(o) == \A i, j \in DOMAIN o : i <= j => o[i].ts <= o[j].ts

\* Where there is a last snapshot that told something, ToldAfter is what it
\* said.
LEMMA ToldAfterLast ==
    ASSUME NEW o, NEW i \in Nat, NEW m \in Nat, i > 0,
           LastTold(o, i, m)
    PROVE  ToldAfter(o, i) = o[m].status
<1> DEFINE told == {1} \union {j \in 1 .. i : o[j].fired}
           last == CHOOSE j \in told : \A k \in told : k <= j
<1>1. m \in told /\ \A k \in told : k <= m
  BY DEF LastTold, Told
<1>2. told \subseteq Nat
  OBVIOUS
<1>3. last \in told /\ \A k \in told : k <= last
  <2> HIDE DEF told
  <2> QED BY <1>1
<1>4. last = m
  <2> HIDE DEF told, last
  <2> QED BY <1>1, <1>2, <1>3
<1> QED BY <1>4 DEF ToldAfter

\* One more snapshot changes nothing of what was said of those before it.
LEMMA Prefix ==
    ASSUME NEW o \in Seq(Entry), NEW e \in Entry, NEW i \in 1 .. Len(o)
    PROVE  /\ \A m : LastTold(Append(o, e), i, m) <=> LastTold(o, i, m)
           /\ Persisted(Append(o, e), i) <=> Persisted(o, i)
           /\ (\E m \in 1 .. i : LastTold(o, i, m)) =>
                ToldAfter(Append(o, e), i) = ToldAfter(o, i)
<1> DEFINE p == Append(o, e)
<1>1. \A j \in 1 .. i : p[j] = o[j]
  OBVIOUS
<1> HIDE DEF p
<1>2. Told(p, i) = Told(o, i)
  BY <1>1 DEF Told
<1>3. \A m : LastTold(p, i, m) <=> LastTold(o, i, m)
  BY <1>2 DEF LastTold
<1>4. Persisted(p, i) <=> Persisted(o, i)
  BY <1>1 DEF Persisted
<1>5. ASSUME NEW m \in 1 .. i, LastTold(o, i, m)
      PROVE  ToldAfter(p, i) = ToldAfter(o, i)
  BY <1>1, <1>3, <1>5, ToldAfterLast
<1> QED BY <1>3, <1>4, <1>5 DEF p

\* A first sighting tells the baseline and nothing is pending.
LEMMA Adopted ==
    ASSUME NEW e \in Entry, ~e.fired
    PROVE  /\ SumsUp([notified |-> e.status, pending |-> NoPending],
                     Append(<<>>, e))
           /\ LastTold(Append(<<>>, e), 1, 1)
<1> DEFINE o == Append(<<>>, e)
<1>1. Len(o) = 1 /\ o[1] = e
  OBVIOUS
<1> HIDE DEF o
<1>2. LastTold(o, 1, 1)
  BY <1>1 DEF LastTold, Told
<1> QED BY <1>1, <1>2 DEF SumsUp, o

\* One more snapshot of a tracked container: an alert goes out only if it is
\* justified, always if it is due, and the tracker sums up the longer history
\* (Tracker::evaluate).
LEMMA Folds ==
    ASSUME NEW o \in Seq(Entry), o # <<>>, NEW t \in Tracked, SumsUp(t, o),
           NEW cur \in Status, NEW ts \in Nat,
           NEW e \in Entry, e = [ts |-> ts, status |-> cur, fired |-> Fires(t, cur, ts)]
    PROVE  LET p == Append(o, e) IN
           /\ SumsUp(Fold(t, cur, ts), p)
           /\ \E m \in 1 .. Len(p) : LastTold(p, Len(p), m)
           /\ JustifiedAt(p, Len(p))
           /\ Monotone(p) => NotMissedAt(p, Len(p))
<1> DEFINE p == Append(o, e)
           n == Len(o)
<1>1. n \in Nat /\ n >= 1
  OBVIOUS
<1>2. /\ Len(p) = n + 1 /\ p[n + 1] = e
      /\ \A j \in 1 .. n : p[j] = o[j]
      /\ DOMAIN p = 1 .. n + 1
  OBVIOUS
<1>3. p \in Seq(Entry) /\ \A j \in 1 .. n + 1 : p[j] \in Entry
  <2>1. p \in Seq(Entry)
    OBVIOUS
  <2> QED BY <1>2, <2>1
<1> HIDE DEF p, n
<1>4. PICK m \in 1 .. n : LastTold(o, n, m) /\ t.notified = o[m].status
  BY DEF SumsUp, n
<1>5. LastTold(p, n, m) /\ ToldAfter(p, n) = t.notified
  <2>1. LastTold(p, n, m)
    BY <1>1, <1>4, Prefix DEF n, p
  <2> QED BY <1>1, <1>2, <1>4, <2>1, ToldAfterLast
<1>6. e.ts = ts /\ e.status = cur /\ (e.fired <=> Fires(t, cur, ts))
  OBVIOUS
<1>7. t.pending # NoPending => t.pending \in Pending
  BY DEF Tracked
<1>8. \A k \in 1 .. n + 1 : p[k].ts \in Nat
  BY <1>3 DEF Entry
<1>9. JustifiedAt(p, n + 1)
  <2> SUFFICES ASSUME Fires(t, cur, ts)
               PROVE  cur # t.notified /\ Persisted(p, n + 1)
    BY <1>1, <1>2, <1>5, <1>6 DEF JustifiedAt
  <2>1. cur # t.notified
    BY DEF Fires
  <2>2. SatSub(ts, Since(t, cur, ts)) >= DelayMs
    BY DEF Fires
  <2>3. CASE t.pending # NoPending /\ t.pending.to = cur
    <3>1. PICK k \in 2 .. n : Begins(o, k) /\ o[k].ts = t.pending.since
      BY <2>3 DEF SumsUp, n
    <3>2. o[n].status = cur
      BY <2>3 DEF SumsUp, n
    <3>3. \A j \in k .. n + 1 : p[j].status = cur
      <4>1. \A j \in k .. n : o[j].status = cur
        BY <3>1, <3>2 DEF Begins, n
      <4> QED BY <1>1, <1>2, <1>6, <4>1
    <3>4. Since(t, cur, ts) = p[k].ts
      BY <1>2, <2>3, <3>1 DEF Since
    <3>5. CASE p[k].ts + DelayMs <= ts
      BY <1>1, <1>2, <1>6, <2>1, <3>3, <3>5 DEF Persisted
    <3>6. CASE DelayMs = 0
      BY <1>1, <1>2, <1>6, <1>8, <2>1, <3>6 DEF Persisted
    <3>7. p[k].ts + DelayMs <= ts \/ DelayMs = 0
      BY <1>1, <1>8, <2>2, <3>4, DelayAssumption DEF SatSub
    <3> QED BY <3>5, <3>6, <3>7
  <2>4. CASE ~(t.pending # NoPending /\ t.pending.to = cur)
    <3>1. DelayMs = 0
      BY <2>2, <2>4, DelayAssumption DEF Since, SatSub
    <3> QED BY <1>1, <1>2, <1>6, <1>8, <2>1, <3>1 DEF Persisted
  <2> QED BY <2>3, <2>4
<1>10. ASSUME Monotone(p) PROVE NotMissedAt(p, n + 1)
  <2> SUFFICES ASSUME cur # t.notified, Persisted(p, n + 1)
               PROVE  SatSub(ts, Since(t, cur, ts)) >= DelayMs
    BY <1>1, <1>2, <1>5, <1>6 DEF NotMissedAt, Fires
  <2>1. PICK k \in 1 .. n + 1 : /\ \A j \in k .. n + 1 : p[j].status = cur
                                /\ p[k].ts + DelayMs <= ts
    BY <1>1, <1>2, <1>6 DEF Persisted
  <2>2. CASE k = n + 1
    <3>1. DelayMs = 0
      BY <1>2, <1>6, <2>1, <2>2, DelayAssumption
    <3>2. SatSub(ts, Since(t, cur, ts)) \in Nat
      BY <1>7 DEF SatSub, Since, Pending
    <3> QED BY <3>1, <3>2
  <2>3. CASE k <= n
    <3>1. o[n].status = cur
      BY <1>1, <1>2, <2>1, <2>3
    <3>2. t.pending # NoPending /\ t.pending.to = cur
      BY <3>1 DEF SumsUp, n
    <3>3. PICK b \in 2 .. n : Begins(o, b) /\ o[b].ts = t.pending.since
      BY <3>2 DEF SumsUp, n
    <3>4. b <= k
      <4>1. o[b - 1].status # cur
        BY <3>1, <3>3 DEF Begins, n
      <4> QED BY <1>1, <1>2, <2>1, <2>3, <4>1
    <3>5. p[b].ts <= p[k].ts
      BY <1>1, <1>2, <1>10, <3>4 DEF Monotone
    <3>6. Since(t, cur, ts) = p[b].ts
      BY <1>2, <3>2, <3>3 DEF Since
    <3>7. ts - p[b].ts >= DelayMs /\ ts >= p[b].ts
      BY <1>1, <1>8, <2>1, <3>5, DelayAssumption
    <3>8. SatSub(ts, p[b].ts) >= DelayMs
      BY <3>7 DEF SatSub
    <3> QED BY <3>6, <3>8
  <2> QED BY <1>1, <2>1, <2>2, <2>3
<1>11. \E l \in 1 .. n + 1 :
         /\ LastTold(p, n + 1, l)
         /\ p[l].status = IF Fires(t, cur, ts) THEN cur ELSE t.notified
  <2>1. CASE Fires(t, cur, ts)
    <3>1. LastTold(p, n + 1, n + 1)
      BY <1>1, <1>2, <1>6, <2>1 DEF LastTold, Told
    <3> QED BY <1>1, <1>2, <1>6, <2>1, <3>1
  <2>2. CASE ~Fires(t, cur, ts)
    <3>1. Told(p, n + 1) = Told(p, n)
      BY <1>1, <1>2, <1>6, <2>2 DEF Told
    <3>2. LastTold(p, n + 1, m)
      BY <1>5, <3>1 DEF LastTold
    <3> QED BY <1>1, <1>2, <1>4, <2>2, <3>2
  <2> QED BY <2>1, <2>2
<1>12. SumsUp(Fold(t, cur, ts), p)
  <2> DEFINE u == Fold(t, cur, ts)
  <2>1. CASE cur = t.notified \/ Fires(t, cur, ts)
    <3>1. u = [notified |-> cur, pending |-> NoPending]
      BY <2>1 DEF Fold
    <3>2. u.notified = cur /\ u.pending = NoPending
      BY <3>1
    <3> QED BY <1>1, <1>2, <1>6, <1>11, <2>1, <3>2 DEF SumsUp
  <2>2. CASE ~(cur = t.notified \/ Fires(t, cur, ts))
    <3>1. u = [t EXCEPT !.pending = [to |-> cur, since |-> Since(t, cur, ts)]]
      BY <2>2 DEF Fold
    <3>2. /\ u.notified = t.notified
          /\ u.pending = [to |-> cur, since |-> Since(t, cur, ts)]
      BY <3>1 DEF Tracked
    <3>3. u.pending.to = cur /\ u.pending.since = Since(t, cur, ts)
      BY <3>2
    <3>4. \E k \in 2 .. n + 1 : Begins(p, k) /\ p[k].ts = Since(t, cur, ts)
      <4>1. CASE t.pending # NoPending /\ t.pending.to = cur
        <5>1. PICK k \in 2 .. n : Begins(o, k) /\ o[k].ts = t.pending.since
          BY <4>1 DEF SumsUp, n
        <5>2. o[n].status = cur
          BY <4>1 DEF SumsUp, n
        <5>3. Begins(p, k)
          BY <1>1, <1>2, <1>6, <5>1, <5>2 DEF Begins, n
        <5> QED BY <1>1, <1>2, <4>1, <5>1, <5>3 DEF Since
      <4>2. CASE ~(t.pending # NoPending /\ t.pending.to = cur)
        <5>1. o[n].status # cur
          BY <2>2, <4>2 DEF SumsUp, n
        <5>2. Begins(p, n + 1)
          BY <1>1, <1>2, <1>6, <5>1 DEF Begins
        <5> QED BY <1>1, <1>2, <1>6, <4>2, <5>2 DEF Since
      <4> QED BY <4>1, <4>2
    <3>5. u.pending # NoPending
      <4>1. Since(t, cur, ts) \in Nat
        BY FoldType
      <4> QED BY <3>2, <4>1, NullAssumption DEF Pending
    <3> HIDE DEF u
    <3>6. \E l \in 1 .. Len(p) : LastTold(p, Len(p), l) /\ u.notified = p[l].status
      BY <1>2, <1>11, <2>2, <3>2
    <3>7. u.pending.to = p[Len(p)].status /\ u.pending.to # u.notified
      BY <1>2, <1>6, <2>2, <3>2, <3>3
    <3>8. \E k \in 2 .. Len(p) : Begins(p, k) /\ p[k].ts = u.pending.since
      BY <1>2, <3>3, <3>4
    <3>9. SumsUp(u, p)
      BY <3>5, <3>6, <3>7, <3>8 DEF SumsUp
    <3> QED BY <3>9 DEF u
  <2> QED BY <2>1, <2>2
<1> QED BY <1>2, <1>9, <1>10, <1>11, <1>12 DEF p

-----------------------------------------------------------------------------
(* Alerts are justified, and none is missed *)

\* What the tracked t and the snapshots o of a container have in common.
Kept(t, o) ==
    /\ o # <<>>
    /\ SumsUp(t, o)
    /\ \A i \in DOMAIN o : \E m \in 1 .. i : LastTold(o, i, m)
    /\ \A i \in DOMAIN o : JustifiedAt(o, i)

\* And what holds besides while nobody adjusts the wall clock, which now is w.
OnTime(o, w) ==
    /\ Monotone(o)
    /\ \A j \in DOMAIN o : o[j].ts <= w
    /\ \A i \in 2 .. Len(o) : NotMissedAt(o, i)

AlertInv ==
    /\ TypeOK
    /\ \A c \in Containers :
         \/ states[c] = NotTracked /\ obs[c] = <<>>
         \/ states[c] # NotTracked /\ Kept(states[c], obs[c])
    /\ jumps = 0 => \A c \in Containers : OnTime(obs[c], wall)

\* No snapshot, nothing to miss.
LEMMA EmptyOnTime == \A w : OnTime(<<>>, w)
BY DEF OnTime, Monotone

\* A snapshot is the container's first.
LEMMA FirstKept ==
    ASSUME NEW e \in Entry, ~e.fired, NEW w \in Nat, e.ts = w
    PROVE  /\ Kept([notified |-> e.status, pending |-> NoPending],
                   Append(<<>>, e))
           /\ OnTime(Append(<<>>, e), w)
<1> DEFINE o == Append(<<>>, e)
<1>1. Len(o) = 1 /\ o[1] = e /\ DOMAIN o = {1} /\ o # <<>>
  OBVIOUS
<1>2. SumsUp([notified |-> e.status, pending |-> NoPending], o)
      /\ LastTold(o, 1, 1)
  BY Adopted
<1> HIDE DEF o
<1>3. Kept([notified |-> e.status, pending |-> NoPending], o)
  BY <1>1, <1>2 DEF Kept, JustifiedAt
<1>4. OnTime(o, w)
  BY <1>1 DEF OnTime, Monotone
<1> QED BY <1>3, <1>4 DEF o

\* One more snapshot of a tracked container keeps all of it.
LEMMA NextKept ==
    ASSUME NEW o \in Seq(Entry), NEW t \in Tracked, Kept(t, o),
           NEW cur \in Status, NEW ts \in Nat,
           NEW e \in Entry, e = [ts |-> ts, status |-> cur, fired |-> Fires(t, cur, ts)]
    PROVE  /\ Kept(Fold(t, cur, ts), Append(o, e))
           /\ OnTime(o, ts) => OnTime(Append(o, e), ts)
<1> DEFINE p == Append(o, e)
           n == Len(o)
<1>1. n \in Nat /\ n >= 1
  BY DEF Kept
<1>2. /\ Len(p) = n + 1 /\ p[n + 1] = e /\ p # <<>>
      /\ \A j \in 1 .. n : p[j] = o[j]
      /\ DOMAIN p = 1 .. n + 1 /\ DOMAIN o = 1 .. n
  OBVIOUS
<1>3. e.ts = ts
  OBVIOUS
<1>4. /\ SumsUp(Fold(t, cur, ts), p)
      /\ \E m \in 1 .. n + 1 : LastTold(p, n + 1, m)
      /\ JustifiedAt(p, n + 1)
      /\ Monotone(p) => NotMissedAt(p, n + 1)
  <2>1. o # <<>> /\ SumsUp(t, o)
    BY DEF Kept
  <2> QED BY <1>2, <2>1, Folds
<1>5. \A i \in 1 .. n : o[i].ts \in Nat
  <2>1. \A i \in 1 .. n : o[i] \in Entry
    OBVIOUS
  <2> QED BY <2>1 DEF Entry
<1>6. ASSUME NEW i \in 1 .. n
      PROVE  /\ \A m : LastTold(p, i, m) <=> LastTold(o, i, m)
             /\ Persisted(p, i) <=> Persisted(o, i)
             /\ ToldAfter(p, i) = ToldAfter(o, i)
  <2>1. i \in 1 .. Len(o)
    OBVIOUS
  <2>2. \E m \in 1 .. i : LastTold(o, i, m)
    BY <1>2 DEF Kept
  <2> QED BY <2>1, <2>2, Prefix
<1> HIDE DEF p, n
<1>7. \A i \in 1 .. n : JustifiedAt(p, i)
  <2> SUFFICES ASSUME NEW i \in 1 .. n PROVE JustifiedAt(p, i)
    OBVIOUS
  <2>1. JustifiedAt(o, i)
    BY <1>2 DEF Kept
  <2>2. i > 1 => ToldAfter(p, i - 1) = ToldAfter(o, i - 1)
    BY <1>1, <1>6
  <2> QED BY <1>2, <1>6, <2>1, <2>2 DEF JustifiedAt
<1>8. \A i \in 1 .. n : \E m \in 1 .. i : LastTold(p, i, m)
  BY <1>2, <1>6 DEF Kept
<1>9. \A i \in 1 .. n + 1 : i \in 1 .. n \/ i = n + 1
  BY <1>1
<1>10. Kept(Fold(t, cur, ts), p)
  BY <1>2, <1>4, <1>7, <1>8, <1>9 DEF Kept
<1>11. ASSUME OnTime(o, ts) PROVE OnTime(p, ts)
  <2>1. \A j \in 1 .. n : p[j].ts <= ts
    BY <1>2, <1>11 DEF OnTime
  <2>2. \A j \in 1 .. n + 1 : p[j].ts <= ts
    BY <1>2, <1>3, <1>9, <2>1
  <2>3. Monotone(p)
    <3> SUFFICES ASSUME NEW i \in 1 .. n + 1, NEW j \in 1 .. n + 1, i <= j
                 PROVE  p[i].ts <= p[j].ts
      BY <1>2 DEF Monotone
    <3>1. CASE j = n + 1
      BY <1>2, <1>3, <2>2, <3>1
    <3>2. CASE j \in 1 .. n
      <4>1. i \in 1 .. n
        BY <1>1, <3>2
      <4> QED BY <1>2, <1>11, <3>2, <4>1 DEF OnTime, Monotone
    <3> QED BY <1>9, <3>1, <3>2
  <2>4. ASSUME NEW i \in 2 .. n PROVE NotMissedAt(p, i)
    <3>1. NotMissedAt(o, i)
      BY <1>11 DEF OnTime, n
    <3>2. /\ ToldAfter(p, i - 1) = ToldAfter(o, i - 1)
          /\ Persisted(p, i) <=> Persisted(o, i)
          /\ p[i] = o[i]
      BY <1>1, <1>2, <1>6
    <3> QED BY <3>1, <3>2 DEF NotMissedAt
  <2>5. \A i \in 2 .. n + 1 : i \in 2 .. n \/ i = n + 1
    BY <1>1
  <2> QED BY <1>2, <1>4, <2>2, <2>3, <2>4, <2>5 DEF OnTime
<1> QED BY <1>10, <1>11 DEF p

\* The initial state: nothing is tracked.
LEMMA AlertInit == Init => AlertInv
BY TypeInit, EmptyOnTime DEF Init, AlertInv

\* Evaluating a snapshot, container by container.
LEMMA AlertEvaluate == AlertInv /\ Evaluate => AlertInv'
<1> SUFFICES ASSUME AlertInv, Evaluate PROVE AlertInv'
  OBVIOUS
<1>1. TypeOK'
  BY TypeStep DEF AlertInv, Next
<1> DEFINE cur == [c \in Listed |-> StatusOf(reading[c])]
           fires == {c \in Listed : states[c] # NotTracked
                                      /\ Fires(states[c], cur[c], wall)}
           e(c) == [ts |-> wall, status |-> cur[c], fired |-> c \in fires]
<1>2. /\ wall \in Nat
      /\ states \in [Containers -> Tracked \union {NotTracked}]
      /\ obs \in [Containers -> Seq(Entry)]
  BY DEF AlertInv, TypeOK, Entry
<1>3. Listed \subseteq Containers /\ \A c \in Listed : cur[c] \in Status
  BY StatusType DEF Listed
<1>4. /\ states' = [c \in Containers |->
                      IF c \notin Listed THEN NotTracked
                      ELSE IF states[c] = NotTracked
                        THEN [notified |-> cur[c], pending |-> NoPending]
                      ELSE Fold(states[c], cur[c], wall)]
      /\ obs' = [c \in Containers |->
                   IF c \in Listed THEN Append(obs[c], e(c)) ELSE <<>>]
      /\ wall' = wall /\ jumps' = jumps
  BY DEF Evaluate, clocks
<1> HIDE DEF cur
<1>5. ASSUME NEW c \in Containers
      PROVE  /\ \/ states'[c] = NotTracked /\ obs'[c] = <<>>
                \/ states'[c] # NotTracked /\ Kept(states'[c], obs'[c])
             /\ OnTime(obs[c], wall) => OnTime(obs'[c], wall)
  <2>1. CASE c \notin Listed
    BY <1>4, <2>1, EmptyOnTime
  <2>2. CASE c \in Listed /\ states[c] = NotTracked
    <3>1. obs[c] = <<>>
      BY <2>2 DEF AlertInv, Kept
    <3>2. e(c) \in Entry /\ ~e(c).fired /\ e(c).ts = wall /\ e(c).status = cur[c]
      <4>1. (c \in fires) = FALSE
        BY <2>2
      <4>2. e(c) = [ts |-> wall, status |-> cur[c], fired |-> FALSE]
        BY <4>1
      <4> QED BY <1>2, <1>3, <2>2, <4>2 DEF Entry
    <3>3. /\ states'[c] = [notified |-> cur[c], pending |-> NoPending]
          /\ obs'[c] = Append(<<>>, e(c))
      BY <1>4, <2>2, <3>1
    <3>4. states'[c] # NotTracked
      <4>1. states'[c] \in Tracked
        BY <1>3, <2>2, <3>3 DEF Tracked
      <4> QED BY <4>1, NullAssumption
    <3> HIDE DEF e
    <3>5. /\ Kept([notified |-> cur[c], pending |-> NoPending], Append(<<>>, e(c)))
          /\ OnTime(Append(<<>>, e(c)), wall)
      BY <1>2, <3>2, FirstKept
    <3> QED BY <3>3, <3>4, <3>5
  <2>3. CASE c \in Listed /\ states[c] # NotTracked
    <3>1. states[c] \in Tracked /\ obs[c] \in Seq(Entry) /\ cur[c] \in Status
      BY <1>2, <1>3, <2>3
    <3>2. Kept(states[c], obs[c])
      BY <2>3 DEF AlertInv
    <3>3. /\ e(c) = [ts |-> wall, status |-> cur[c],
                     fired |-> Fires(states[c], cur[c], wall)]
          /\ e(c) \in Entry
      <4>1. c \in fires <=> Fires(states[c], cur[c], wall)
        BY <2>3
      <4>2. Fires(states[c], cur[c], wall) \in BOOLEAN
        BY DEF Fires
      <4>3. (c \in fires) = Fires(states[c], cur[c], wall)
        BY <4>1, <4>2
      <4> QED BY <1>2, <3>1, <4>3 DEF Entry
    <3>4. /\ states'[c] = Fold(states[c], cur[c], wall)
          /\ obs'[c] = Append(obs[c], e(c))
      BY <1>4, <2>3
    <3>5. states'[c] # NotTracked
      BY <1>2, <3>1, <3>4, FoldType, NullAssumption
    <3> HIDE DEF e, fires
    <3>6. /\ Kept(Fold(states[c], cur[c], wall), Append(obs[c], e(c)))
          /\ OnTime(obs[c], wall) => OnTime(Append(obs[c], e(c)), wall)
      BY <1>2, <3>1, <3>2, <3>3, NextKept
    <3> QED BY <3>4, <3>5, <3>6
  <2> QED BY <2>1, <2>2, <2>3
<1> QED BY <1>1, <1>4, <1>5 DEF AlertInv

\* The clocks, the containers, the POSTs and a restart.
LEMMA AlertStep == AlertInv /\ [Next]_vars => AlertInv'
<1> SUFFICES ASSUME AlertInv, [Next]_vars PROVE AlertInv'
  OBVIOUS
<1>1. TypeOK /\ TypeOK'
  BY TypeStep DEF AlertInv
<1>2. CASE Advance
  <2>1. UNCHANGED <<states, obs, jumps>> /\ wall' = wall + 1 /\ wall \in Nat
    BY <1>1, <1>2 DEF Advance, TypeOK
  <2>2. ASSUME NEW c \in Containers, OnTime(obs[c], wall)
        PROVE  OnTime(obs[c], wall + 1)
    <3>1. obs[c] \in Seq(Entry)
      BY <1>1 DEF TypeOK, Entry
    <3>2. \A j \in DOMAIN obs[c] : obs[c][j].ts \in Nat
      <4>1. \A j \in DOMAIN obs[c] : obs[c][j] \in Entry
        BY <3>1
      <4> QED BY <4>1 DEF Entry
    <3>3. \A j \in DOMAIN obs[c] : obs[c][j].ts <= wall + 1
      BY <2>1, <2>2, <3>2 DEF OnTime
    <3> QED BY <2>2, <3>3 DEF OnTime
  <2> QED BY <1>1, <2>1, <2>2 DEF AlertInv
<1>3. CASE Adjust
  <2>1. UNCHANGED <<states, obs>> /\ jumps' # 0
    BY <1>1, <1>3 DEF Adjust, TypeOK
  <2> QED BY <1>1, <2>1 DEF AlertInv
<1>4. CASE Evaluate
  BY <1>4, AlertEvaluate
<1>5. CASE Restart
  <2>1. /\ \A c \in Containers : states'[c] = NotTracked /\ obs'[c] = <<>>
        /\ UNCHANGED <<wall, jumps>>
    BY <1>5 DEF Restart, clocks
  <2> QED BY <1>1, <2>1, EmptyOnTime DEF AlertInv
<1>6. CASE UNCHANGED <<states, obs, jumps, wall>>
  BY <1>1, <1>6 DEF AlertInv
<1>7. ASSUME ~(Advance \/ Adjust \/ Evaluate \/ Restart)
      PROVE  UNCHANGED <<states, obs, jumps, wall>>
  BY <1>7 DEF Next, Change, Begin, CollectFails, Deliver, PostFails, vars, clocks
<1> QED BY <1>2, <1>3, <1>4, <1>5, <1>6, <1>7

\* The invariant says of every snapshot what the two properties say.
LEMMA AlertImplies == AlertInv => AlertJustified /\ AlertNotMissed
<1> SUFFICES ASSUME AlertInv PROVE AlertJustified /\ AlertNotMissed
  OBVIOUS
<1>1. AlertJustified
  <2> SUFFICES ASSUME NEW c \in Containers, NEW i \in DOMAIN obs[c]
               PROVE  JustifiedAt(obs[c], i)
    BY DEF AlertJustified, JustifiedAt
  <2>1. CASE obs[c] = <<>>
    BY <2>1
  <2>2. CASE Kept(states[c], obs[c])
    BY <2>2 DEF Kept
  <2> QED BY <2>1, <2>2 DEF AlertInv
<1>2. AlertNotMissed
  BY DEF AlertNotMissed, NotMissedAt, AlertInv, OnTime
<1> QED BY <1>1, <1>2

\* Every alert reports a status other than the last one told that has been
\* seen without a break over the delay (Tracker::evaluate).
THEOREM AlertsAreJustified == Spec => []AlertJustified
BY AlertInit, AlertStep, AlertImplies, PTL DEF Spec

\* A status that differs from the last one told and has been seen over the
\* delay is told, unless the wall clock was adjusted (Tracker::evaluate).
THEOREM NoAlertIsMissed == Spec => []AlertNotMissed
BY AlertInit, AlertStep, AlertImplies, PTL DEF Spec

-----------------------------------------------------------------------------
(* Alerts arrive in order *)

\* A change is pending for longer than a POST lives, so the POST in flight of
\* a container is of its last alert.
OrderInv ==
    /\ TypeOK
    /\ \A c \in Containers : inbox[c] <= said[c]
    /\ \A p \in posts : p.at <= mono /\ mono <= p.at + PostTimeout
    /\ jumps = 0 =>
         /\ wall = mono
         /\ \A p \in posts : p.seq = said[p.container]
         /\ \A c \in Containers :
              states[c] # NotTracked /\ states[c].pending # NoPending =>
                /\ states[c].pending.since <= wall
                /\ \A p \in posts :
                     p.container = c => p.at <= states[c].pending.since
    /\ \A p \in posts : p.seq <= said[p.container]

\* The initial state: no alert was sent.
LEMMA OrderInit == Init => OrderInv
BY TypeInit DEF Init, OrderInv

\* An alert that fires finds no POST of its container in flight.
LEMMA NoneInFlight ==
    ASSUME PostTimeout < DelayMs, OrderInv, jumps = 0,
           NEW c \in Containers, states[c] # NotTracked, NEW cur \in Status,
           Fires(states[c], cur, wall)
    PROVE  \A p \in posts : p.container # c
<1>1. /\ states[c] \in Tracked /\ wall \in Nat /\ mono \in Nat /\ wall = mono
      /\ posts \in SUBSET Post
  BY DEF OrderInv, TypeOK
<1>2. states[c].pending # NoPending => states[c].pending.since \in Nat
  BY <1>1 DEF Tracked, Pending
<1>3. SatSub(wall, Since(states[c], cur, wall)) > PostTimeout
  BY <1>1, <1>2, DelayAssumption DEF Fires, SatSub, Since
<1>4. /\ states[c].pending # NoPending
      /\ wall - states[c].pending.since > PostTimeout
  BY <1>1, <1>2, <1>3, DelayAssumption DEF SatSub, Since
<1>5. ASSUME NEW p \in posts, p.container = c PROVE FALSE
  <2>1. p.at \in Nat /\ p.at <= states[c].pending.since /\ mono <= p.at + PostTimeout
    BY <1>1, <1>4, <1>5 DEF OrderInv, Post
  <2> QED BY <1>1, <1>2, <1>4, <2>1, DelayAssumption
<1> QED BY <1>5

\* Evaluating a snapshot: what fires is alone, what stays pending keeps its
\* time, what becomes pending is younger than every POST.
LEMMA OrderEvaluate ==
    ASSUME PostTimeout < DelayMs, OrderInv, Evaluate
    PROVE  OrderInv'
<1>1. TypeOK /\ TypeOK'
  BY TypeStep DEF OrderInv, Next
<1> DEFINE cur == [c \in Listed |-> StatusOf(reading[c])]
           fires == {c \in Listed : states[c] # NotTracked
                                      /\ Fires(states[c], cur[c], wall)}
           post(c) == [to |-> cur[c], container |-> c, seq |-> said[c] + 1,
                       at |-> mono]
<1>2. /\ wall \in Nat /\ mono \in Nat
      /\ states \in [Containers -> Tracked \union {NotTracked}]
      /\ said \in [Containers -> Nat] /\ inbox \in [Containers -> Nat]
      /\ posts \in SUBSET Post
  BY <1>1 DEF TypeOK
<1>3. Listed \subseteq Containers /\ \A c \in Listed : cur[c] \in Status
  BY StatusType DEF Listed
<1>4. /\ states' = [c \in Containers |->
                      IF c \notin Listed THEN NotTracked
                      ELSE IF states[c] = NotTracked
                        THEN [notified |-> cur[c], pending |-> NoPending]
                      ELSE Fold(states[c], cur[c], wall)]
      /\ said' = [c \in Containers |->
                    IF c \in fires THEN said[c] + 1 ELSE said[c]]
      /\ posts' = posts \union {post(c) : c \in fires}
      /\ wall' = wall /\ mono' = mono /\ jumps' = jumps /\ inbox' = inbox
  BY DEF Evaluate, clocks
<1> HIDE DEF cur
<1>5. \A c \in fires : /\ post(c).container = c /\ post(c).seq = said[c] + 1
                       /\ post(c).at = mono
  OBVIOUS
<1>6. /\ \A c \in Containers : said'[c] = said[c] \/ said'[c] = said[c] + 1
      /\ \A c \in fires : said'[c] = said[c] + 1
      /\ \A c \in Containers : c \notin fires => said'[c] = said[c]
      /\ fires \subseteq Listed
  BY <1>3, <1>4
<1>7. ASSUME jumps = 0
      PROVE  \A c \in fires : \A p \in posts : p.container # c
  BY <1>3, <1>7, NoneInFlight
<1>8. \A p \in posts' : p \in posts \/ \E c \in fires : p = post(c)
  BY <1>4
<1> HIDE DEF fires, post
<1>9. \A c \in Containers : inbox'[c] <= said'[c]
  BY <1>2, <1>4, <1>6 DEF OrderInv
<1>10. \A p \in posts' : p.at <= mono /\ mono <= p.at + PostTimeout
  BY <1>2, <1>5, <1>8, DelayAssumption DEF OrderInv
<1>11. \A p \in posts' : p.seq <= said'[p.container]
  <2>1. ASSUME NEW p \in posts PROVE p.seq <= said'[p.container]
    BY <1>2, <1>6 DEF OrderInv, Post
  <2> QED BY <1>2, <1>3, <1>5, <1>6, <1>8, <2>1
<1>12. ASSUME jumps = 0
       PROVE  \A p \in posts' : p.seq = said'[p.container]
  <2>1. ASSUME NEW p \in posts PROVE p.seq = said'[p.container]
    <3>1. p.container \in Containers /\ p.container \notin fires
      BY <1>2, <1>7, <1>12 DEF Post
    <3> QED BY <1>6, <1>12, <3>1 DEF OrderInv
  <2> QED BY <1>5, <1>6, <1>8, <2>1
<1>13. ASSUME jumps = 0, NEW c \in Containers,
              states'[c] # NotTracked, states'[c].pending # NoPending
       PROVE  /\ states'[c].pending.since <= wall
              /\ \A p \in posts' : p.container = c => p.at <= states'[c].pending.since
  <2>1. c \in Listed /\ states[c] # NotTracked
    BY <1>4, <1>13
  <2>2. states'[c] = Fold(states[c], cur[c], wall) /\ states[c] \in Tracked
    BY <1>2, <1>4, <2>1
  <2>3. /\ ~(cur[c] = states[c].notified \/ Fires(states[c], cur[c], wall))
        /\ states'[c].pending.since = Since(states[c], cur[c], wall)
    <3>1. ~(cur[c] = states[c].notified \/ Fires(states[c], cur[c], wall))
      BY <1>13, <2>2 DEF Fold
    <3>2. states'[c] = [states[c] EXCEPT !.pending =
                          [to |-> cur[c], since |-> Since(states[c], cur[c], wall)]]
      BY <2>2, <3>1 DEF Fold
    <3> QED BY <2>2, <3>1, <3>2 DEF Tracked
  <2>4. c \notin fires
    BY <2>3 DEF fires
  <2>5. \A p \in posts' : p.container = c => p \in posts
    BY <1>5, <1>8, <2>4
  <2>6. CASE states[c].pending # NoPending /\ states[c].pending.to = cur[c]
    BY <1>13, <2>1, <2>3, <2>5, <2>6 DEF OrderInv, Since
  <2>7. CASE ~(states[c].pending # NoPending /\ states[c].pending.to = cur[c])
    <3>1. states'[c].pending.since = wall /\ wall = mono
      BY <1>13, <2>3, <2>7 DEF Since, OrderInv
    <3> QED BY <1>2, <2>5, <3>1 DEF OrderInv
  <2> QED BY <2>6, <2>7
<1> QED BY <1>1, <1>4, <1>9, <1>10, <1>11, <1>12, <1>13 DEF OrderInv

\* Every other step of the clocks, the containers and the POSTs.
LEMMA OrderStep ==
    ASSUME PostTimeout < DelayMs, OrderInv, [Next]_vars
    PROVE  OrderInv'
<1>1. TypeOK /\ TypeOK'
  BY TypeStep DEF OrderInv
<1>2. /\ wall \in Nat /\ mono \in Nat /\ posts \in SUBSET Post
      /\ said \in [Containers -> Nat] /\ inbox \in [Containers -> Nat]
      /\ states \in [Containers -> Tracked \union {NotTracked}]
  BY <1>1 DEF TypeOK
<1>3. CASE Advance
  <2>1. /\ UNCHANGED <<states, posts, inbox, said, jumps>>
        /\ wall' = wall + 1 /\ mono' = mono + 1
        /\ \A p \in posts : mono < p.at + PostTimeout
    BY <1>3 DEF Advance
  <2>2. \A p \in posts : p.at \in Nat
    BY <1>2 DEF Post
  <2>3. \A p \in posts' : p.at <= mono' /\ mono' <= p.at + PostTimeout
    BY <1>2, <2>1, <2>2, DelayAssumption DEF OrderInv
  <2>4. ASSUME jumps' = 0, NEW c \in Containers,
               states'[c] # NotTracked, states'[c].pending # NoPending
        PROVE  /\ states'[c].pending.since <= wall'
               /\ \A p \in posts' : p.container = c => p.at <= states'[c].pending.since
    <3>1. states[c].pending.since \in Nat
      BY <1>2, <2>1, <2>4 DEF Tracked, Pending
    <3> QED BY <1>2, <2>1, <2>4, <3>1 DEF OrderInv
  <2> QED BY <1>1, <2>1, <2>3, <2>4 DEF OrderInv
<1>4. CASE Adjust
  <2>1. UNCHANGED <<mono, states, posts, inbox, said>> /\ jumps' # 0
    BY <1>1, <1>4 DEF Adjust, TypeOK
  <2> QED BY <1>1, <2>1 DEF OrderInv
<1>5. CASE Evaluate
  BY <1>5, OrderEvaluate
<1>6. ASSUME NEW p \in posts, Deliver(p) PROVE OrderInv'
  <2>1. /\ UNCHANGED <<clocks, states, said>> /\ posts' \subseteq posts
        /\ inbox' = [inbox EXCEPT ![p.container] = p.seq]
    BY <1>6 DEF Deliver
  <2>2. \A c \in Containers : inbox'[c] <= said'[c]
    BY <1>2, <2>1 DEF OrderInv, Post
  <2> QED BY <1>1, <2>1, <2>2 DEF OrderInv, clocks
<1>7. ASSUME NEW p \in posts, PostFails(p) PROVE OrderInv'
  <2>1. UNCHANGED <<clocks, states, said, inbox>> /\ posts' \subseteq posts
    BY <1>7 DEF PostFails
  <2> QED BY <1>1, <2>1 DEF OrderInv, clocks
<1>8. CASE Restart
  <2>1. /\ \A c \in Containers : states'[c] = NotTracked
        /\ posts' = {} /\ UNCHANGED <<clocks, said, inbox>>
    BY <1>8 DEF Restart
  <2> QED BY <1>1, <2>1 DEF OrderInv, clocks
<1>9. CASE UNCHANGED <<clocks, states, posts, inbox, said>>
  BY <1>1, <1>9 DEF OrderInv, clocks
<1>10. ASSUME ~(Advance \/ Adjust \/ Evaluate \/ Restart
                  \/ \E p \in posts : Deliver(p) \/ PostFails(p))
       PROVE  UNCHANGED <<clocks, states, posts, inbox, said>>
  BY <1>10 DEF Next, Change, Begin, CollectFails, vars
<1> QED BY <1>3, <1>4, <1>5, <1>6, <1>7, <1>8, <1>9, <1>10

\* What is delivered is the last alert said of its container.
LEMMA InboxGrows ==
    ASSUME OrderInv, [Next]_vars, jumps = 0, NEW c \in Containers
    PROVE  inbox'[c] >= inbox[c]
<1>1. posts \in SUBSET Post /\ inbox \in [Containers -> Nat] /\ said \in [Containers -> Nat]
  BY DEF OrderInv, TypeOK
<1>2. ASSUME NEW p \in posts, Deliver(p) PROVE inbox'[c] >= inbox[c]
  BY <1>1, <1>2 DEF Deliver, OrderInv, Post
<1>3. CASE UNCHANGED inbox
  BY <1>1, <1>3
<1>4. ASSUME ~ \E p \in posts : Deliver(p) PROVE UNCHANGED inbox
  BY <1>4 DEF Next, Advance, Adjust, Change, Begin, CollectFails, Evaluate,
              PostFails, Restart, vars
<1> QED BY <1>2, <1>3, <1>4

\* The endpoint hears of a container's changes in the order they happened,
\* for every delay longer than the timeout of a POST (dispatch, whose
\* tasks are detached).
THEOREM AlertsInOrder ==
    ASSUME PostTimeout < DelayMs
    PROVE  Spec => InOrder
<1>1. OrderInv /\ [Next]_vars => OrderInv'
  BY OrderStep
<1>2. OrderInv /\ [Next]_vars
        => [jumps = 0 => \A c \in Containers : inbox'[c] >= inbox[c]]_vars
  BY InboxGrows
<1> QED BY OrderInit, <1>1, <1>2, PTL DEF Spec, InOrder
=============================================================================
