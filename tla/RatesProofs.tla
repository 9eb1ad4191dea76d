----------------------------- MODULE RatesProofs -----------------------------
(***************************************************************************)
(* Theorems about the rates, for every set of containers, every period of  *)
(* the ticker and every bound.                                             *)
(***************************************************************************)
EXTENDS Rates, TLAPS

-----------------------------------------------------------------------------
(* What two readings of a container's counters tell *)

Life == Nat \X Nat

Reading ==
    [count : Nat \union {Missing}, system : Nat \union {Missing},
     work : Nat, life : Life]

\* The life k is k2 or one before it.
NotAfter(k, k2) == k[1] <= k2[1] /\ k[2] <= k2[2]

\* A counter n, read when the work was w, and n2, read when it was w2.
Grown(n, w, k, n2, w2, k2) ==
    /\ w <= w2 /\ NotAfter(k, k2)
    /\ k[1] = k2[1] => n2 - n = w2 - w
    /\ k[1] < k2[1] => n2 <= w2 - w

\* No more work than the host had time for.
Spent(n, s, n2, s2) == s <= s2 /\ n2 - n <= s2 - s

LifeOf(c) == <<lives[c], reboots>>

-----------------------------------------------------------------------------
(* The inductive invariant *)

Shapes ==
    /\ lives \in [Containers -> Nat] /\ reboots \in Nat /\ system \in Nat
    /\ count \in [Containers -> Nat] /\ work \in [Containers -> Nat]
    /\ clock \in Nat
    /\ asked \subseteq Containers /\ DOMAIN stats \subseteq Containers
    /\ \A c \in DOMAIN stats :
         /\ stats[c] \in Reading
         /\ stats[c].count = Missing <=> stats[c].system = Missing
    /\ DOMAIN last \subseteq Containers
    /\ \A c \in DOMAIN last : last[c] \in [work : Nat, life : Life, cpu : BOOLEAN]
    /\ DOMAIN prevIo \subseteq DOMAIN last
    /\ \A c \in DOMAIN prevIo :
         prevIo[c] \in [count : Nat \union {Missing}, at : Nat]
    /\ DOMAIN prevCpu \subseteq DOMAIN last
    /\ \A c \in DOMAIN prevCpu : prevCpu[c] \in [count : Nat, system : Nat]

\* What is known of a container was learned while it existed, and one that is
\* not listed any more is gone for good.
Existed ==
    /\ \A c \in asked \union DOMAIN stats \union DOMAIN last : state[c] # "new"
    /\ ~Idle => /\ \A c \in listed : state[c] # "new"
                /\ \A c \in DOMAIN last : c \notin listed => state[c] = "gone"

\* The answer of the cycle under way and the counters now.
AnswerNow(c) ==
    /\ NotAfter(stats[c].life, LifeOf(c))
    /\ stats[c].count # Missing =>
         Grown(stats[c].count, stats[c].work, stats[c].life,
               count[c], work[c], LifeOf(c))
    /\ state[c] = "running" /\ stats[c].life = LifeOf(c) =>
         /\ stats[c].count # Missing
         /\ Spent(stats[c].count, stats[c].system, count[c], system)

\* The baselines and the counters now.
BaselineNow(c) ==
    /\ NotAfter(last[c].life, LifeOf(c))
    /\ c \in DOMAIN prevIo /\ prevIo[c].count # Missing =>
         Grown(prevIo[c].count, last[c].work, last[c].life,
               count[c], work[c], LifeOf(c))
    /\ c \in DOMAIN prevCpu /\ state[c] = "running" /\ last[c].life = LifeOf(c) =>
         Spent(prevCpu[c].count, prevCpu[c].system, count[c], system)

\* The baselines and the answer of the cycle under way.
BaselineAnswer(c) ==
    /\ NotAfter(last[c].life, stats[c].life)
    /\ c \in DOMAIN prevIo /\ prevIo[c].count # Missing /\ stats[c].count # Missing =>
         Grown(prevIo[c].count, last[c].work, last[c].life,
               stats[c].count, stats[c].work, stats[c].life)
    /\ c \in DOMAIN prevCpu /\ stats[c].count # Missing
         /\ last[c].life = stats[c].life =>
         Spent(prevCpu[c].count, prevCpu[c].system, stats[c].count, stats[c].system)

\* A container that was ever read has a CPU baseline until it is reaped.
Remembered(c) ==
    /\ c \in DOMAIN prevCpu => last[c].cpu
    /\ last[c].cpu /\ c \notin DOMAIN prevCpu =>
         state[c] = "gone" /\ (Idle \/ c \notin listed)

RatesInv ==
    /\ TypeOK
    /\ Shapes
    /\ Existed
    /\ \A c \in DOMAIN stats : AnswerNow(c)
    /\ \A c \in DOMAIN last : BaselineNow(c) /\ Remembered(c)
    /\ \A c \in DOMAIN stats \intersect DOMAIN last : BaselineAnswer(c)
    /\ ~Idle => out = NoCycle
    /\ RateHonest
    /\ SteadyReading

-----------------------------------------------------------------------------
(* The host moves on *)

HostStep == Tick \/ StartOne \/ StopOne \/ Reboot

\* What a step of the host does to one container: it works for a while, or
\* starts a new life with its counter at zero, or neither.
Moves(c) ==
    /\ NotAfter(LifeOf(c), LifeOf(c)')
    /\ state'[c] = "running" /\ state[c] # "running" => lives'[c] > lives[c]
    /\ lives'[c] = lives[c] => count'[c] - count[c] = work'[c] - work[c]
    /\ lives'[c] > lives[c] => count'[c] = 0
    /\ work[c] <= work'[c]
    /\ LifeOf(c)' = LifeOf(c) =>
         system <= system' /\ count'[c] - count[c] <= system' - system
    /\ state[c] # "new" => state'[c] # "new"
    /\ state[c] = "gone" => state'[c] = "gone"

\* What the host does to a container.
LEMMA HostMoves ==
    ASSUME TypeOK, Shapes, HostStep, NEW c \in Containers
    PROVE  Moves(c)
<1>1. /\ lives[c] \in Nat /\ reboots \in Nat /\ system \in Nat
      /\ count[c] \in Nat /\ work[c] \in Nat
      /\ lives \in [Containers -> Nat] /\ count \in [Containers -> Nat]
      /\ state \in [Containers -> {"new", "running", "stopped", "gone"}]
  BY DEF Shapes, TypeOK
<1>2. CASE Tick
  <2>1. PICK busy \in SUBSET Running :
           /\ count' = [d \in Containers |-> count[d] + IF d \in busy THEN 1 ELSE 0]
           /\ work' = [d \in Containers |-> work[d] + IF d \in busy THEN 1 ELSE 0]
    BY <1>2 DEF Tick
  <2>2. /\ system' = system + 1 /\ UNCHANGED <<state, lives, reboots>>
    BY <1>2 DEF Tick
  <2>3. /\ count'[c] = count[c] + IF c \in busy THEN 1 ELSE 0
        /\ work'[c] = work[c] + IF c \in busy THEN 1 ELSE 0
    BY <2>1
  <2> QED BY <1>1, <2>2, <2>3 DEF Moves, LifeOf, NotAfter
<1>3. CASE StartOne
  <2>1. PICK d \in Containers :
           /\ state[d] \in {"new", "stopped"}
           /\ state' = [state EXCEPT ![d] = "running"]
           /\ count' = [count EXCEPT ![d] = 0]
           /\ lives' = [lives EXCEPT ![d] = @ + 1]
    BY <1>3 DEF StartOne
  <2>2. UNCHANGED <<system, work, reboots>>
    BY <1>3 DEF StartOne
  <2>3. CASE c = d
    BY <1>1, <2>1, <2>2, <2>3 DEF Moves, LifeOf, NotAfter
  <2>4. CASE c # d
    BY <1>1, <2>1, <2>2, <2>4 DEF Moves, LifeOf, NotAfter
  <2> QED BY <2>3, <2>4
<1>4. CASE StopOne
  <2>1. PICK d \in Existing, to \in {"stopped", "gone"} :
           state' = [state EXCEPT ![d] = to]
    BY <1>4 DEF StopOne
  <2>2. UNCHANGED <<count, system, work, lives, reboots>>
    BY <1>4 DEF StopOne
  <2> QED BY <1>1, <2>1, <2>2 DEF Moves, LifeOf, NotAfter, Existing
<1>5. CASE Reboot
  <2>1. /\ system' = 0 /\ reboots' = reboots + 1
        /\ state' = [d \in Containers |->
                       IF d \in Running THEN "stopped" ELSE state[d]]
        /\ UNCHANGED <<count, work, lives>>
    BY <1>5 DEF Reboot
  <2> QED BY <1>1, <2>1 DEF Moves, LifeOf, NotAfter, Running
<1> QED BY <1>2, <1>3, <1>4, <1>5 DEF HostStep

\* What a reading tells of the counters now it tells of them a step later.
LEMMA GrownKept ==
    ASSUME Shapes, Shapes', NEW c \in Containers, Moves(c),
           NEW n \in Nat, NEW w \in Nat, NEW k \in Life,
           Grown(n, w, k, count[c], work[c], LifeOf(c))
    PROVE  Grown(n, w, k, count'[c], work'[c], LifeOf(c)')
<1>1. /\ lives[c] \in Nat /\ reboots \in Nat /\ count[c] \in Nat /\ work[c] \in Nat
      /\ lives'[c] \in Nat /\ reboots' \in Nat /\ count'[c] \in Nat /\ work'[c] \in Nat
  BY DEF Shapes
<1>2. k[1] \in Nat /\ k[2] \in Nat
  BY DEF Life
<1> QED BY <1>1, <1>2 DEF Moves, Grown, LifeOf, NotAfter

\* Work that was spent stays spent.
LEMMA SpentKept ==
    ASSUME Shapes, Shapes', NEW c \in Containers, Moves(c),
           NEW n \in Nat, NEW s \in Nat, NEW k \in Life, NotAfter(k, LifeOf(c)),
           state[c] = "running" /\ k = LifeOf(c) => Spent(n, s, count[c], system),
           state'[c] = "running", k = LifeOf(c)'
    PROVE  state[c] = "running" /\ k = LifeOf(c) /\ Spent(n, s, count'[c], system')
<1>1. /\ lives[c] \in Nat /\ reboots \in Nat /\ count[c] \in Nat /\ system \in Nat
      /\ lives'[c] \in Nat /\ reboots' \in Nat /\ count'[c] \in Nat /\ system' \in Nat
  BY DEF Shapes
<1>2. k[1] \in Nat /\ k[2] \in Nat
  BY DEF Life
<1>3. k[1] = lives'[c] /\ k[2] = reboots'
  BY DEF LifeOf
<1>4. k[1] <= lives[c] /\ k[2] <= reboots /\ lives[c] <= lives'[c]
         /\ reboots <= reboots'
  BY DEF NotAfter, LifeOf, Moves
<1>5. lives[c] = lives'[c] /\ reboots = reboots'
  BY <1>1, <1>2, <1>3, <1>4
<1>6. state[c] = "running" /\ k = LifeOf(c)
  BY <1>1, <1>5 DEF Moves, LifeOf
<1>7. Spent(n, s, count'[c], system')
  BY <1>1, <1>5, <1>6 DEF Moves, Spent, LifeOf
<1> QED BY <1>6, <1>7

\* The types of the host's variables, and what they leave alone.
LEMMA HostTypes ==
    ASSUME RatesInv, HostStep
    PROVE  /\ Shapes'
           /\ UNCHANGED <<cycle, client, due>>
           /\ TypeOK'
<1>1. /\ lives \in [Containers -> Nat] /\ reboots \in Nat /\ system \in Nat
      /\ count \in [Containers -> Nat] /\ work \in [Containers -> Nat]
      /\ clock \in Nat
      /\ state \in [Containers -> {"new", "running", "stopped", "gone"}]
      /\ \A c \in Containers : count[c] <= work[c] /\ work[c] <= clock
      /\ system <= clock
  BY DEF RatesInv, Shapes, TypeOK
<1>2. UNCHANGED <<listed, asked, stats, prevIo, prevCpu, primed, out, last, due>>
  BY DEF HostStep, Tick, StartOne, StopOne, Reboot, cycle, client
<1>3. /\ lives' \in [Containers -> Nat] /\ reboots' \in Nat /\ system' \in Nat
      /\ count' \in [Containers -> Nat] /\ work' \in [Containers -> Nat]
      /\ clock' \in Nat
      /\ state' \in [Containers -> {"new", "running", "stopped", "gone"}]
      /\ \A c \in Containers : count'[c] <= work'[c] /\ work'[c] <= clock'
      /\ system' <= clock' /\ clock' \in 0 .. MaxTime /\ upsets' \in 0 .. MaxUpsets
  <2>1. clock \in 0 .. MaxTime /\ upsets \in 0 .. MaxUpsets
    BY DEF RatesInv, TypeOK
  <2>2. CASE Tick
    <3>1. PICK busy \in SUBSET Running :
             /\ count' = [d \in Containers |-> count[d] + IF d \in busy THEN 1 ELSE 0]
             /\ work' = [d \in Containers |-> work[d] + IF d \in busy THEN 1 ELSE 0]
      BY <2>2 DEF Tick
    <3>2. /\ clock < MaxTime /\ clock' = clock + 1 /\ system' = system + 1
          /\ UNCHANGED <<state, lives, reboots, upsets>>
      BY <2>2 DEF Tick
    <3>3. /\ count' \in [Containers -> Nat] /\ work' \in [Containers -> Nat]
          /\ \A c \in Containers : count'[c] <= work'[c] /\ work'[c] <= clock + 1
      BY <1>1, <3>1
    <3> QED BY <1>1, <2>1, <3>2, <3>3, RatesBounds
  <2>3. CASE StartOne
    <3>1. PICK d \in Containers :
             /\ state' = [state EXCEPT ![d] = "running"]
             /\ count' = [count EXCEPT ![d] = 0]
             /\ lives' = [lives EXCEPT ![d] = @ + 1]
      BY <2>3 DEF StartOne
    <3>2. UNCHANGED <<system, work, reboots, clock, upsets>>
      BY <2>3 DEF StartOne
    <3> QED BY <1>1, <2>1, <3>1, <3>2
  <2>4. CASE StopOne
    <3>1. PICK d \in Existing, to \in {"stopped", "gone"} :
             state' = [state EXCEPT ![d] = to]
      BY <2>4 DEF StopOne
    <3>2. /\ UNCHANGED <<count, system, work, lives, reboots, clock>>
          /\ upsets' \in 0 .. MaxUpsets
      BY <2>1, <2>4, RatesBounds DEF StopOne, Upset
    <3> QED BY <1>1, <2>1, <3>1, <3>2
  <2>5. CASE Reboot
    <3>1. /\ system' = 0 /\ reboots' = reboots + 1
          /\ state' = [d \in Containers |->
                         IF d \in Running THEN "stopped" ELSE state[d]]
          /\ UNCHANGED <<count, work, lives, clock>> /\ upsets' \in 0 .. MaxUpsets
      BY <2>1, <2>5, RatesBounds DEF Reboot, Upset
    <3> QED BY <1>1, <2>1, <3>1
  <2> QED BY <2>2, <2>3, <2>4, <2>5 DEF HostStep
<1>4. Shapes'
  BY <1>2, <1>3 DEF RatesInv, Shapes
<1>5. TypeOK'
  <2>1. \A c \in Containers : count'[c] \in 0 .. work'[c] /\ work'[c] \in 0 .. clock'
    BY <1>3
  <2>2. system' \in 0 .. clock'
    BY <1>3
  <2> QED BY <1>2, <1>3, <2>1, <2>2 DEF RatesInv, TypeOK, Idle
<1> QED BY <1>2, <1>4, <1>5 DEF cycle, client

\* A step of the host falsifies nothing of what is known of the containers.
LEMMA RatesHost == RatesInv /\ HostStep => RatesInv'
<1> SUFFICES ASSUME RatesInv, HostStep PROVE RatesInv'
  OBVIOUS
<1>1. Shapes /\ Shapes' /\ TypeOK /\ TypeOK'
  BY HostTypes DEF RatesInv
<1>2. UNCHANGED <<listed, asked, stats, prevIo, prevCpu, primed, out, last, due>>
  BY HostTypes DEF cycle, client
<1>3. \A c \in Containers : Moves(c)
  BY <1>1, HostMoves
<1>4. Existed'
  BY <1>1, <1>2, <1>3 DEF RatesInv, Existed, Shapes, Moves, Idle, TypeOK
<1>5. ASSUME NEW c \in DOMAIN stats PROVE AnswerNow(c)'
  <2>1. /\ c \in Containers /\ Moves(c) /\ AnswerNow(c) /\ stats'[c] = stats[c]
        /\ stats[c] \in Reading
        /\ stats[c].count = Missing <=> stats[c].system = Missing
    BY <1>1, <1>2, <1>3 DEF RatesInv, Shapes
  <2>2. /\ stats[c].life \in Life /\ stats[c].work \in Nat
        /\ stats[c].count # Missing =>
             stats[c].count \in Nat /\ stats[c].system \in Nat
    BY <2>1 DEF Reading
  <2>3. NotAfter(stats[c].life, LifeOf(c)')
    BY <1>1, <2>1, <2>2 DEF AnswerNow, NotAfter, Moves, LifeOf, Shapes, Life
  <2>4. stats[c].count # Missing =>
          Grown(stats[c].count, stats[c].work, stats[c].life,
                count'[c], work'[c], LifeOf(c)')
    BY <1>1, <2>1, <2>2, GrownKept DEF AnswerNow
  <2>5. ASSUME state'[c] = "running", stats[c].life = LifeOf(c)'
        PROVE  /\ stats[c].count # Missing
               /\ Spent(stats[c].count, stats[c].system, count'[c], system')
    <3>1. state[c] = "running" /\ stats[c].life = LifeOf(c)
      <4>1. /\ stats[c].life[1] \in Nat /\ stats[c].life[2] \in Nat
            /\ lives[c] \in Nat /\ lives'[c] \in Nat /\ reboots \in Nat
            /\ reboots' \in Nat
        BY <1>1, <2>1, <2>2 DEF Life, Shapes
      <4>2. /\ lives[c] <= lives'[c] /\ reboots <= reboots'
            /\ lives'[c] <= lives[c] /\ reboots' <= reboots
        BY <2>1, <2>5 DEF AnswerNow, NotAfter, LifeOf, Moves
      <4>3. lives[c] = lives'[c] /\ reboots = reboots'
        BY <4>1, <4>2
      <4> QED BY <2>1, <2>5, <4>1, <4>3 DEF LifeOf, Moves
    <3>2. stats[c].count # Missing
      BY <2>1, <3>1 DEF AnswerNow
    <3> QED BY <1>1, <2>1, <2>2, <2>5, <3>1, <3>2, SpentKept DEF AnswerNow
  <2> QED BY <2>1, <2>3, <2>4, <2>5 DEF AnswerNow
<1>6. ASSUME NEW c \in DOMAIN last PROVE BaselineNow(c)' /\ Remembered(c)'
  <2>1. /\ c \in Containers /\ Moves(c) /\ BaselineNow(c) /\ Remembered(c)
        /\ last[c] \in [work : Nat, life : Life, cpu : BOOLEAN]
        /\ c \in DOMAIN prevIo =>
             prevIo[c] \in [count : Nat \union {Missing}, at : Nat]
        /\ c \in DOMAIN prevCpu => prevCpu[c] \in [count : Nat, system : Nat]
    BY <1>1, <1>3 DEF RatesInv, Shapes
  <2>2. last[c].life \in Life /\ last[c].work \in Nat
    BY <2>1
  <2>3. NotAfter(last[c].life, LifeOf(c)')
    BY <1>1, <2>1, <2>2 DEF BaselineNow, NotAfter, Moves, LifeOf, Shapes, Life
  <2>4. c \in DOMAIN prevIo /\ prevIo[c].count # Missing =>
          Grown(prevIo[c].count, last[c].work, last[c].life,
                count'[c], work'[c], LifeOf(c)')
    BY <1>1, <2>1, <2>2, GrownKept DEF BaselineNow
  <2>5. ASSUME c \in DOMAIN prevCpu, state'[c] = "running", last[c].life = LifeOf(c)'
        PROVE  Spent(prevCpu[c].count, prevCpu[c].system, count'[c], system')
    <3>1. prevCpu[c].count \in Nat /\ prevCpu[c].system \in Nat
             /\ NotAfter(last[c].life, LifeOf(c))
      BY <2>1, <2>5 DEF BaselineNow
    <3> QED BY <1>1, <2>1, <2>2, <2>5, <3>1, SpentKept DEF BaselineNow
  <2>6. Remembered(c)'
    BY <1>2, <2>1 DEF Remembered, Moves, Idle
  <2> QED BY <1>2, <2>3, <2>4, <2>5, <2>6 DEF BaselineNow
<1>7. \A c \in DOMAIN stats \intersect DOMAIN last : BaselineAnswer(c)'
  BY <1>2 DEF RatesInv, BaselineAnswer
<1>8. RateHonest' /\ SteadyReading' /\ (~Idle' => out' = NoCycle)
  BY <1>2 DEF RatesInv, RateHonest, SteadyReading, Published, Idle
<1> QED BY <1>1, <1>2, <1>4, <1>5, <1>6, <1>7, <1>8 DEF RatesInv

-----------------------------------------------------------------------------
(* The cycle *)

\* The answer of a running container is its counters, any other's is empty.
LEMMA AnswerType ==
    ASSUME Shapes, NEW c \in Containers
    PROVE  /\ Answer(c) \in Reading
           /\ Answer(c).count = Missing <=> Answer(c).system = Missing
           /\ Answer(c).count # Missing <=> state[c] = "running"
           /\ Answer(c).work = work[c] /\ Answer(c).life = LifeOf(c)
           /\ Answer(c).count # Missing =>
                Answer(c).count = count[c] /\ Answer(c).system = system
BY RatesNulls DEF Shapes, Answer, Reading, Life, LifeOf

\* A listing starts with no answer.
LEMMA RatesList == RatesInv /\ List => RatesInv'
<1> SUFFICES ASSUME RatesInv, List PROVE RatesInv'
  OBVIOUS
<1>1. /\ Idle /\ listed' = Existing /\ asked' = Running /\ stats' = <<>>
      /\ out' = NoCycle /\ due' = due + Interval
      /\ UNCHANGED <<clock, state, count, system, work, lives, reboots,
                     prevIo, prevCpu, primed, last, upsets>>
  BY DEF List, host
<1>2. Existing \subseteq Containers /\ Running \subseteq Existing
  BY DEF Existing, Running
<1>3. DOMAIN stats' = {}
  BY <1>1
<1>4. Shapes'
  BY <1>1, <1>2, <1>3 DEF RatesInv, Shapes
<1>5. TypeOK'
  BY <1>1, <1>2, <1>3, RatesNulls, IntervalAssumption DEF RatesInv, TypeOK, Idle
<1>6. \A c \in Containers : state[c] # "new" /\ c \notin Existing => state[c] = "gone"
  BY DEF RatesInv, TypeOK, Existing
<1>7. Existed'
  BY <1>1, <1>2, <1>3, <1>6 DEF RatesInv, Existed, Shapes, Existing, Running
<1>8. \A c \in DOMAIN last : BaselineNow(c)' /\ Remembered(c)'
  <2> SUFFICES ASSUME NEW c \in DOMAIN last PROVE BaselineNow(c)' /\ Remembered(c)'
    OBVIOUS
  <2>1. BaselineNow(c) /\ Remembered(c)
    BY DEF RatesInv
  <2>2. state[c] = "gone" => c \notin Existing
    BY DEF Existing
  <2> QED BY <1>1, <2>1, <2>2 DEF BaselineNow, Remembered, LifeOf
<1>9. RateHonest' /\ SteadyReading'
  BY <1>1 DEF RateHonest, SteadyReading, Published
<1> QED BY <1>1, <1>3, <1>4, <1>5, <1>7, <1>8, <1>9 DEF RatesInv

\* An answer follows on the baselines as the counters do.
LEMMA RatesRead == RatesInv /\ Read => RatesInv'
<1> SUFFICES ASSUME RatesInv, Read PROVE RatesInv'
  OBVIOUS
<1>1. PICK c \in asked :
         /\ stats' = Extended(stats, [d \in {c} |-> Answer(d)])
         /\ asked' = asked \ {c}
  BY DEF Read
<1>2. /\ UNCHANGED <<clock, state, count, system, work, lives, reboots, due, listed,
                     prevIo, prevCpu, primed, out, last, upsets>>
  BY DEF Read, host, client
<1>3. /\ DOMAIN stats' = DOMAIN stats \union {c}
      /\ stats'[c] = Answer(c)
      /\ \A d \in DOMAIN stats : d # c => stats'[d] = stats[d]
  BY <1>1 DEF Extended
<1>4. Shapes /\ c \in Containers /\ state[c] # "new"
  BY DEF RatesInv, Shapes, Existed
<1>5. Shapes'
  <2>1. ASSUME NEW d \in DOMAIN stats'
        PROVE  /\ stats'[d] \in Reading
               /\ stats'[d].count = Missing <=> stats'[d].system = Missing
    <3>1. CASE d = c
      BY <1>3, <1>4, <3>1, AnswerType
    <3>2. CASE d # c
      BY <1>3, <1>4, <3>2 DEF Shapes
    <3> QED BY <3>1, <3>2
  <2>2. DOMAIN stats' \subseteq Containers /\ asked' \subseteq Containers
    BY <1>1, <1>3, <1>4 DEF Shapes
  <2>3. /\ DOMAIN last' \subseteq Containers
        /\ \A d \in DOMAIN last' : last'[d] \in [work : Nat, life : Life, cpu : BOOLEAN]
        /\ DOMAIN prevIo' \subseteq DOMAIN last'
        /\ \A d \in DOMAIN prevIo' :
             prevIo'[d] \in [count : Nat \union {Missing}, at : Nat]
        /\ DOMAIN prevCpu' \subseteq DOMAIN last'
        /\ \A d \in DOMAIN prevCpu' : prevCpu'[d] \in [count : Nat, system : Nat]
    BY <1>2, <1>4 DEF Shapes
  <2>4. /\ lives' \in [Containers -> Nat] /\ reboots' \in Nat /\ system' \in Nat
        /\ count' \in [Containers -> Nat] /\ work' \in [Containers -> Nat]
        /\ clock' \in Nat
    BY <1>2, <1>4 DEF Shapes
  <2> QED BY <2>1, <2>2, <2>3, <2>4 DEF Shapes
<1>6. ~Idle /\ c \in listed
  BY DEF RatesInv, TypeOK, Idle
<1>7. TypeOK'
  BY <1>1, <1>2, <1>3, <1>6 DEF RatesInv, TypeOK, Idle
<1>8. Existed'
  BY <1>1, <1>2, <1>3, <1>4 DEF RatesInv, Existed, Idle
<1>9. \A d \in DOMAIN stats' : AnswerNow(d)'
  <2>1. AnswerNow(c)'
    <3>1. /\ stats'[c].work = work[c] /\ stats'[c].life = LifeOf(c)
          /\ stats'[c].count # Missing <=> state[c] = "running"
          /\ stats'[c].count # Missing =>
               stats'[c].count = count[c] /\ stats'[c].system = system
      BY <1>3, <1>4, AnswerType
    <3>2. /\ lives[c] \in Nat /\ reboots \in Nat /\ count[c] \in Nat
          /\ work[c] \in Nat /\ system \in Nat
      BY <1>4 DEF Shapes
    <3>3. /\ NotAfter(LifeOf(c), LifeOf(c))
          /\ Grown(count[c], work[c], LifeOf(c), count[c], work[c], LifeOf(c))
          /\ Spent(count[c], system, count[c], system)
      BY <3>2 DEF NotAfter, LifeOf, Grown, Spent
    <3>4. LifeOf(c)' = LifeOf(c)
      BY <1>2 DEF LifeOf
    <3> QED BY <1>2, <3>1, <3>3, <3>4 DEF AnswerNow
  <2>2. ASSUME NEW d \in DOMAIN stats, d # c PROVE AnswerNow(d)'
    BY <1>2, <1>3, <2>2 DEF RatesInv, AnswerNow, LifeOf
  <2> QED BY <1>3, <2>1, <2>2
<1>10. \A d \in DOMAIN last : BaselineNow(d)' /\ Remembered(d)'
  BY <1>2 DEF RatesInv, BaselineNow, Remembered, LifeOf, Idle
<1>11. \A d \in DOMAIN stats' \intersect DOMAIN last : BaselineAnswer(d)'
  <2>1. ASSUME c \in DOMAIN last PROVE BaselineAnswer(c)'
    <3>1. BaselineNow(c)
      BY <2>1 DEF RatesInv
    <3>2. /\ stats'[c].work = work[c] /\ stats'[c].life = LifeOf(c)
          /\ stats'[c].count # Missing <=> state[c] = "running"
          /\ stats'[c].count # Missing =>
               stats'[c].count = count[c] /\ stats'[c].system = system
      BY <1>3, <1>4, AnswerType
    <3> QED BY <1>2, <3>1, <3>2 DEF BaselineNow, BaselineAnswer
  <2>2. ASSUME NEW d \in DOMAIN stats \intersect DOMAIN last, d # c
        PROVE  BaselineAnswer(d)'
    BY <1>2, <1>3, <2>2 DEF RatesInv, BaselineAnswer
  <2> QED BY <1>3, <2>1, <2>2
<1>12. RateHonest' /\ SteadyReading' /\ (~Idle' => out' = NoCycle)
  BY <1>2 DEF RatesInv, RateHonest, SteadyReading, Published, Idle
<1> QED BY <1>2, <1>5, <1>7, <1>8, <1>9, <1>10, <1>11, <1>12 DEF RatesInv

\* A call that fails takes its container out of the cycle, a listing that
\* fails does nothing.
LEMMA RatesFail == RatesInv /\ (ListFails \/ ReadFails \/ UNCHANGED vars) => RatesInv'
<1> SUFFICES ASSUME RatesInv, ListFails \/ ReadFails \/ UNCHANGED vars
             PROVE  RatesInv'
  OBVIOUS
<1>1. /\ UNCHANGED <<clock, state, count, system, work, lives, reboots, listed, stats,
                     prevIo, prevCpu, primed, out, last>>
      /\ asked' \subseteq asked
  BY DEF ListFails, ReadFails, vars, host, cycle, client
<1>2. due' \in Nat /\ upsets' \in 0 .. MaxUpsets
  <2>1. due \in Nat /\ upsets \in 0 .. MaxUpsets
    BY DEF RatesInv, TypeOK
  <2>2. CASE ListFails
    BY <2>1, <2>2, IntervalAssumption, RatesBounds DEF ListFails, Upset
  <2>3. CASE ReadFails
    BY <2>1, <2>3, RatesBounds DEF ReadFails, Upset
  <2>4. CASE UNCHANGED vars
    BY <2>1, <2>4 DEF vars
  <2> QED BY <2>2, <2>3, <2>4
<1>3. Shapes'
  BY <1>1 DEF RatesInv, Shapes
<1>4. TypeOK'
  BY <1>1, <1>2 DEF RatesInv, TypeOK, Idle
<1>5. Existed'
  BY <1>1 DEF RatesInv, Existed, Idle
<1>6. /\ \A c \in DOMAIN stats' : AnswerNow(c)'
      /\ \A c \in DOMAIN last' : BaselineNow(c)' /\ Remembered(c)'
      /\ \A c \in DOMAIN stats' \intersect DOMAIN last' : BaselineAnswer(c)'
  BY <1>1 DEF RatesInv, AnswerNow, BaselineNow, BaselineAnswer, Remembered, LifeOf,
              Idle
<1>7. RateHonest' /\ SteadyReading' /\ (~Idle' => out' = NoCycle)
  BY <1>1 DEF RatesInv, RateHonest, SteadyReading, Published, Idle
<1> QED BY <1>3, <1>4, <1>5, <1>6, <1>7 DEF RatesInv

\* A restarted collector knows nothing.
LEMMA RatesRestart == RatesInv /\ Restart => RatesInv'
<1> SUFFICES ASSUME RatesInv, Restart PROVE RatesInv'
  OBVIOUS
<1>1. /\ listed' = NoCycle /\ asked' = {} /\ stats' = <<>>
      /\ prevIo' = <<>> /\ prevCpu' = <<>> /\ last' = <<>>
      /\ primed' = FALSE /\ out' = NoCycle /\ due' = clock
      /\ UNCHANGED <<clock, state, count, system, work, lives, reboots>>
  BY DEF Restart, host
<1>2. upsets' \in 0 .. MaxUpsets
  BY RatesBounds DEF Restart, Upset, RatesInv, TypeOK
<1>3. /\ DOMAIN stats' = {} /\ DOMAIN prevIo' = {} /\ DOMAIN prevCpu' = {}
      /\ DOMAIN last' = {}
  BY <1>1
<1>4. Shapes'
  BY <1>1, <1>3 DEF RatesInv, Shapes
<1>5. TypeOK'
  BY <1>1, <1>2 DEF RatesInv, TypeOK, Idle, Shapes
<1>6. RateHonest' /\ SteadyReading'
  BY <1>1 DEF RateHonest, SteadyReading, Published
<1> QED BY <1>1, <1>3, <1>4, <1>5, <1>6 DEF RatesInv, Existed, Idle

\* What a cycle publishes about a container it has listed and read.
LEMMA FinishOut ==
    ASSUME RatesInv, ~Idle, NEW c \in listed
    PROVE  /\ Io(c) # Missing =>
                /\ Io(c).bytes <= Truth(c).work
                /\ Truth(c).calm => Io(c).bytes = Truth(c).work
           /\ Cpu(c) # Missing <=>
                /\ c \in DOMAIN stats /\ stats[c].count # Missing
                /\ c \in DOMAIN last /\ last[c].cpu
           /\ Cpu(c) # Missing /\ Truth(c).calm => Cpu(c).spent <= Cpu(c).total
<1>1. Shapes
  BY DEF RatesInv
<1>2. c \in DOMAIN stats /\ stats[c].count # Missing =>
        /\ stats[c].count \in Nat /\ stats[c].system \in Nat
        /\ stats[c].work \in Nat /\ stats[c].life \in Life
  BY <1>1 DEF Shapes, Reading
<1>3. c \in DOMAIN last => /\ last[c].work \in Nat /\ last[c].life \in Life
                           /\ last[c].cpu \in BOOLEAN
  BY <1>1 DEF Shapes
<1>4. c \in DOMAIN stats /\ c \in DOMAIN last =>
        /\ BaselineAnswer(c)
        /\ Truth(c).work = stats[c].work - last[c].work
        /\ Truth(c).calm <=> stats[c].life = last[c].life
  <2> SUFFICES ASSUME c \in DOMAIN stats, c \in DOMAIN last
               PROVE  /\ BaselineAnswer(c)
                      /\ Truth(c).work = stats[c].work - last[c].work
                      /\ Truth(c).calm <=> stats[c].life = last[c].life
    OBVIOUS
  <2> DEFINE calm == stats[c].life = last[c].life
  <2>1. Truth(c) = [work |-> stats[c].work - last[c].work, calm |-> calm]
    BY DEF Truth
  <2>2. calm \in BOOLEAN
    OBVIOUS
  <2> HIDE DEF calm
  <2>3. Truth(c).work = stats[c].work - last[c].work /\ (Truth(c).calm <=> calm)
    BY <2>1, <2>2
  <2> QED BY <2>3 DEF RatesInv, calm
<1>5. ASSUME Io(c) # Missing
      PROVE  /\ Io(c).bytes <= Truth(c).work
             /\ Truth(c).calm => Io(c).bytes = Truth(c).work
  <2>1. /\ c \in DOMAIN stats /\ c \in DOMAIN prevIo
        /\ stats[c].count # Missing /\ prevIo[c].count # Missing
        /\ Io(c).bytes = SatSub(stats[c].count, prevIo[c].count)
    BY <1>5 DEF Io, IoRead
  <2>2. c \in DOMAIN last /\ prevIo[c].count \in Nat
    BY <1>1, <2>1 DEF Shapes
  <2>3. Grown(prevIo[c].count, last[c].work, last[c].life,
              stats[c].count, stats[c].work, stats[c].life)
    BY <1>4, <2>1, <2>2 DEF BaselineAnswer
  <2>4. Truth(c).work = stats[c].work - last[c].work
         /\ (Truth(c).calm => stats[c].life = last[c].life)
    BY <1>4, <2>1, <2>2
  <2>5. /\ stats[c].life[1] \in Nat /\ last[c].life[1] \in Nat
    BY <1>2, <1>3, <2>1, <2>2 DEF Life
  <2> QED BY <1>2, <1>3, <2>1, <2>2, <2>3, <2>4, <2>5 DEF Grown, NotAfter, SatSub
<1>6. Cpu(c) # Missing <=> /\ c \in DOMAIN stats /\ stats[c].count # Missing
                           /\ c \in DOMAIN prevCpu
  <2>1. c \in DOMAIN prevCpu => prevCpu[c].count \in Nat /\ prevCpu[c].system \in Nat
    BY <1>1 DEF Shapes
  <2>2. c \in DOMAIN CpuRead <=> c \in DOMAIN stats /\ stats[c].count # Missing
    BY DEF CpuRead
  <2>3. c \in DOMAIN CpuRead => CpuRead[c] = [count |-> stats[c].count,
                                              system |-> stats[c].system]
    BY DEF CpuRead
  <2>4. ASSUME c \in DOMAIN CpuRead, c \in DOMAIN prevCpu
        PROVE  Cpu(c) # Missing
    <3>1. Missing \notin {CpuRead[c].count, prevCpu[c].count}
      BY <1>2, <2>1, <2>2, <2>3, <2>4, RatesNulls
    <3> DEFINE total == SatSub(CpuRead[c].system, prevCpu[c].system)
               spent == IF total = 0 THEN 0
                        ELSE SatSub(CpuRead[c].count, prevCpu[c].count)
    <3>2. Cpu(c) = [spent |-> spent, total |-> total]
      BY <2>4, <3>1 DEF Cpu
    <3>3. spent \in Nat /\ total \in Nat
      BY <1>2, <2>1, <2>2, <2>3, <2>4 DEF SatSub
    <3> HIDE DEF spent, total
    <3>4. Cpu(c) \in [spent : Nat, total : Nat]
      BY <3>2, <3>3
    <3> QED BY <3>4, RatesNulls
  <2>5. ASSUME Cpu(c) # Missing PROVE c \in DOMAIN CpuRead /\ c \in DOMAIN prevCpu
    BY <2>5 DEF Cpu
  <2> QED BY <2>2, <2>4, <2>5
<1>7. c \in DOMAIN prevCpu <=> c \in DOMAIN last /\ last[c].cpu
  <2>1. c \in DOMAIN last => Remembered(c)
    BY DEF RatesInv
  <2>2. c \in DOMAIN prevCpu => c \in DOMAIN last
    BY <1>1 DEF Shapes
  <2> QED BY <2>1, <2>2 DEF Remembered
<1>8. ASSUME Cpu(c) # Missing, Truth(c).calm PROVE Cpu(c).spent <= Cpu(c).total
  <2>1. /\ c \in DOMAIN stats /\ stats[c].count # Missing /\ c \in DOMAIN prevCpu
        /\ c \in DOMAIN last
    BY <1>6, <1>7, <1>8
  <2>2. prevCpu[c].count \in Nat /\ prevCpu[c].system \in Nat
    BY <1>1, <2>1 DEF Shapes
  <2>3. Spent(prevCpu[c].count, prevCpu[c].system, stats[c].count, stats[c].system)
    BY <1>4, <1>8, <2>1 DEF BaselineAnswer
  <2> DEFINE total == SatSub(stats[c].system, prevCpu[c].system)
             spent == IF total = 0 THEN 0 ELSE SatSub(stats[c].count, prevCpu[c].count)
  <2>4. Cpu(c) = [spent |-> spent, total |-> total]
    BY <1>8, <2>1 DEF Cpu, CpuRead
  <2>5. spent <= total
    BY <1>2, <2>1, <2>2, <2>3 DEF Spent, SatSub
  <2> HIDE DEF spent, total
  <2> QED BY <2>4, <2>5
<1> QED BY <1>5, <1>6, <1>7, <1>8

\* An answer with its fields, in this cycle or an earlier one.
Counted(c) == stats[c].count # Missing \/ (c \in DOMAIN last /\ last[c].cpu)

\* The end of a cycle: its answers become the baselines, what it did not list
\* is reaped.
LEMMA RatesFinish == RatesInv /\ Finish => RatesInv'
<1> SUFFICES ASSUME RatesInv, Finish PROVE RatesInv'
  OBVIOUS
<1>1. /\ ~Idle /\ asked = {} /\ asked' = {} /\ listed' = NoCycle /\ stats' = <<>>
      /\ primed' = TRUE
      /\ prevIo' = Baseline(Reaped(prevIo), IoRead)
      /\ prevCpu' = Baseline(Reaped(prevCpu), CpuRead)
      /\ UNCHANGED <<clock, state, count, system, work, lives, reboots, due, upsets>>
  BY DEF Finish, host
<1>2. /\ DOMAIN last' = DOMAIN last \union DOMAIN stats
      /\ \A c \in DOMAIN stats :
           last'[c] = [work |-> stats[c].work, life |-> stats[c].life,
                       cpu |-> Counted(c)]
      /\ \A c \in DOMAIN last \ DOMAIN stats : last'[c] = last[c]
  BY DEF Finish, Extended, Counted
<1>3. /\ DOMAIN prevIo' = (DOMAIN prevIo \intersect listed) \union DOMAIN stats
      /\ \A c \in DOMAIN stats : prevIo'[c] = [count |-> stats[c].count, at |-> clock]
      /\ \A c \in DOMAIN prevIo' \ DOMAIN stats : prevIo'[c] = prevIo[c]
  BY <1>1 DEF Baseline, Reaped, Restrict, Extended, IoRead
<1> DEFINE counted == {c \in DOMAIN stats : stats[c].count # Missing}
<1>4. /\ DOMAIN prevCpu' = (DOMAIN prevCpu \intersect listed) \union counted
      /\ \A c \in counted :
           prevCpu'[c] = [count |-> stats[c].count, system |-> stats[c].system]
      /\ \A c \in DOMAIN prevCpu' \ counted : prevCpu'[c] = prevCpu[c]
  BY <1>1 DEF Baseline, Reaped, Restrict, Extended, CpuRead
<1>5. Shapes /\ TypeOK /\ DOMAIN stats \subseteq listed /\ listed \subseteq Containers
  BY <1>1 DEF RatesInv, TypeOK, Idle
<1>6. DOMAIN stats' = {} /\ Idle'
  BY <1>1 DEF Idle
<1>7. Shapes'
  <2>1. \A c \in DOMAIN last' :
          last'[c] \in [work : Nat, life : Life, cpu : BOOLEAN]
    <3>1. ASSUME NEW c \in DOMAIN stats
          PROVE  last'[c] \in [work : Nat, life : Life, cpu : BOOLEAN]
      <4>1. /\ stats[c].work \in Nat /\ stats[c].life \in Life
            /\ Counted(c) \in BOOLEAN
        BY <1>5 DEF Shapes, Reading, Counted
      <4> QED BY <1>2, <4>1
    <3>2. ASSUME NEW c \in DOMAIN last \ DOMAIN stats
          PROVE  last'[c] \in [work : Nat, life : Life, cpu : BOOLEAN]
      BY <1>2, <1>5 DEF Shapes
    <3> QED BY <1>2, <3>1, <3>2
  <2>2. \A c \in DOMAIN prevIo' :
          prevIo'[c] \in [count : Nat \union {Missing}, at : Nat]
    <3>1. ASSUME NEW c \in DOMAIN stats
          PROVE  prevIo'[c] \in [count : Nat \union {Missing}, at : Nat]
      BY <1>3, <1>5 DEF Shapes, Reading
    <3>2. ASSUME NEW c \in DOMAIN prevIo' \ DOMAIN stats
          PROVE  prevIo'[c] \in [count : Nat \union {Missing}, at : Nat]
      BY <1>3, <1>5 DEF Shapes
    <3> QED BY <3>1, <3>2
  <2>3. \A c \in DOMAIN prevCpu' : prevCpu'[c] \in [count : Nat, system : Nat]
    <3>1. ASSUME NEW c \in counted
          PROVE  prevCpu'[c] \in [count : Nat, system : Nat]
      <4>1. stats[c].count \in Nat /\ stats[c].system \in Nat
        BY <1>5 DEF Shapes, Reading
      <4>2. prevCpu'[c] = [count |-> stats[c].count, system |-> stats[c].system]
        BY <1>4
      <4> QED BY <4>1, <4>2
    <3>2. ASSUME NEW c \in DOMAIN prevCpu' \ counted
          PROVE  prevCpu'[c] \in [count : Nat, system : Nat]
      BY <1>4, <1>5 DEF Shapes
    <3> QED BY <3>1, <3>2
  <2>4. /\ DOMAIN prevIo' \subseteq DOMAIN last' /\ DOMAIN prevCpu' \subseteq DOMAIN last'
        /\ DOMAIN last' \subseteq Containers
    BY <1>2, <1>3, <1>4, <1>5 DEF Shapes
  <2>5. \A c \in DOMAIN stats' : /\ stats'[c] \in Reading
                                /\ stats'[c].count = Missing
                                     <=> stats'[c].system = Missing
    BY <1>6
  <2> QED BY <1>1, <1>5, <1>6, <2>1, <2>2, <2>3, <2>4, <2>5 DEF Shapes
<1>8. out' = IF primed
             THEN [c \in listed |->
                   [io |-> Io(c), cpu |-> Cpu(c), truth |-> Truth(c),
                    read |-> c \in DOMAIN stats /\ stats[c].count # Missing,
                    again |-> c \in DOMAIN last /\ last[c].cpu]]
             ELSE out
  BY DEF Finish
<1>9. TypeOK'
  <2>1. out' # NoCycle =>
          primed' /\ DOMAIN prevIo' \union DOMAIN prevCpu' \subseteq DOMAIN out'
    <3>1. out = NoCycle
      BY <1>1 DEF RatesInv
    <3>2. CASE primed
      BY <1>1, <1>3, <1>4, <1>5, <1>8, <3>2
    <3> QED BY <1>8, <3>1, <3>2
  <2> QED BY <1>1, <1>5, <1>6, <2>1 DEF TypeOK, Idle
<1>10. Existed'
  BY <1>1, <1>2, <1>6 DEF RatesInv, Existed
<1>11. \A c \in DOMAIN last' : BaselineNow(c)' /\ Remembered(c)'
  <2>1. ASSUME NEW c \in DOMAIN stats PROVE BaselineNow(c)' /\ Remembered(c)'
    <3>1. AnswerNow(c) /\ LifeOf(c)' = LifeOf(c)
      BY <1>1 DEF RatesInv, LifeOf
    <3>2. /\ last'[c].work = stats[c].work /\ last'[c].life = stats[c].life
          /\ last'[c].cpu <=> Counted(c)
          /\ prevIo'[c].count = stats[c].count
      <4>1. Counted(c) \in BOOLEAN
        BY DEF Counted
      <4> QED BY <1>2, <1>3, <4>1
    <3>3. c \in counted => prevCpu'[c] = [count |-> stats[c].count,
                                          system |-> stats[c].system]
      BY <1>4
    <3>4. BaselineNow(c)'
      BY <1>1, <3>1, <3>2, <3>3 DEF AnswerNow, BaselineNow
    <3>5. c \in DOMAIN last => Remembered(c)
      BY DEF RatesInv
    <3>6. c \in DOMAIN prevCpu => c \in DOMAIN last
      BY <1>5 DEF Shapes
    <3>7. c \in DOMAIN prevCpu' <=> stats[c].count # Missing \/ c \in DOMAIN prevCpu
      BY <1>4, <1>5
    <3>8. c \in DOMAIN last /\ last[c].cpu => c \in DOMAIN prevCpu
      BY <1>1, <1>5, <3>5 DEF Remembered
    <3>9. Remembered(c)'
      BY <1>6, <3>2, <3>5, <3>6, <3>7, <3>8 DEF Remembered, Counted
    <3> QED BY <3>4, <3>9
  <2>2. ASSUME NEW c \in DOMAIN last \ DOMAIN stats
        PROVE  BaselineNow(c)' /\ Remembered(c)'
    <3>1. BaselineNow(c) /\ Remembered(c) /\ last'[c] = last[c]
           /\ LifeOf(c)' = LifeOf(c)
      BY <1>1, <1>2 DEF RatesInv, LifeOf
    <3>2. /\ c \in DOMAIN prevIo' => c \in DOMAIN prevIo /\ prevIo'[c] = prevIo[c]
          /\ c \in DOMAIN prevCpu' => c \in DOMAIN prevCpu /\ prevCpu'[c] = prevCpu[c]
          /\ c \in DOMAIN prevCpu /\ c \notin DOMAIN prevCpu' => c \notin listed
      BY <1>3, <1>4
    <3>3. c \notin listed => state[c] = "gone"
      BY <1>1 DEF RatesInv, Existed
    <3> QED BY <1>1, <1>6, <3>1, <3>2, <3>3 DEF BaselineNow, Remembered
  <2> QED BY <1>2, <2>1, <2>2
<1>12. RateHonest' /\ SteadyReading'
  <2>1. CASE ~primed
    <3>1. out' = NoCycle
      BY <1>1, <1>8, <2>1 DEF RatesInv
    <3> QED BY <3>1 DEF RateHonest, SteadyReading, Published
  <2>2. CASE primed
    <3> SUFFICES ASSUME NEW c \in listed
                 PROVE  /\ out'[c].io # Missing =>
                             /\ out'[c].io.bytes <= out'[c].truth.work
                             /\ out'[c].truth.calm =>
                                  out'[c].io.bytes = out'[c].truth.work
                        /\ out'[c].cpu # Missing <=> out'[c].read /\ out'[c].again
                        /\ out'[c].cpu # Missing /\ out'[c].truth.calm =>
                             out'[c].cpu.spent <= out'[c].cpu.total
      BY <1>8, <2>2 DEF RateHonest, SteadyReading, Published
    <3>1. /\ out'[c].io = Io(c) /\ out'[c].cpu = Cpu(c) /\ out'[c].truth = Truth(c)
          /\ out'[c].read <=> c \in DOMAIN stats /\ stats[c].count # Missing
          /\ out'[c].again <=> c \in DOMAIN last /\ last[c].cpu
      BY <1>8, <2>2
    <3> QED BY <1>1, <3>1, FinishOut
  <2> QED BY <2>1, <2>2
<1> QED BY <1>6, <1>7, <1>9, <1>10, <1>11, <1>12 DEF RatesInv

-----------------------------------------------------------------------------
(* The theorems *)

\* Nothing is read yet.
LEMMA RatesInit == Init => RatesInv
<1> SUFFICES ASSUME Init PROVE RatesInv
  OBVIOUS
<1>1. /\ DOMAIN stats = {} /\ DOMAIN prevIo = {} /\ DOMAIN prevCpu = {}
      /\ DOMAIN last = {}
  BY DEF Init
<1>2. Shapes
  BY <1>1 DEF Init, Shapes
<1>3. TypeOK
  <2>1. /\ clock \in 0 .. MaxTime /\ upsets \in 0 .. MaxUpsets /\ due \in Nat
        /\ system \in 0 .. clock
        /\ \A c \in Containers : count[c] \in 0 .. work[c] /\ work[c] \in 0 .. clock
    BY RatesBounds DEF Init
  <2> QED BY <1>1, <2>1 DEF Init, TypeOK, Idle
<1> QED BY <1>1, <1>2, <1>3 DEF Init, RatesInv, Existed, Idle, RateHonest,
                                SteadyReading, Published

\* Every step keeps the invariant.
LEMMA RatesStep == RatesInv /\ [Next]_vars => RatesInv'
BY RatesHost, RatesList, RatesRead, RatesFail, RatesFinish, RatesRestart
   DEF Next, HostStep

\* Type correctness of the host, the cycle and the baselines, the reaping of
\* containers that are gone among it.
THEOREM TypeCorrect == Spec => []TypeOK
<1>1. RatesInv => TypeOK
  BY DEF RatesInv
<1> QED BY <1>1, RatesInit, RatesStep, PTL DEF Spec

\* No rate claims a byte that was not moved between the two answers it
\* compares; it claims all of them if nothing was restarted in between
\* (io_rates, rate).
THEOREM RatesAreHonest == Spec => []RateHonest
<1>1. RatesInv => RateHonest
  BY DEF RatesInv
<1> QED BY <1>1, RatesInit, RatesStep, PTL DEF Spec

\* A container has a CPU value from its second answered reading on, and it is
\* at most a whole core unless something was restarted (cpu_percent).
THEOREM ReadingsAreSteady == Spec => []SteadyReading
<1>1. RatesInv => SteadyReading
  BY DEF RatesInv
<1> QED BY <1>1, RatesInit, RatesStep, PTL DEF Spec
=============================================================================
