--------------------------- MODULE CollectorProofs ---------------------------
(***************************************************************************)
(* Theorems about the collectors, for every set of hosts and containers,   *)
(* every bucket width, retention and cadence, and every bound: their types *)
(* and steps, then where the readings go (none is lost on its way to the   *)
(* trend table, none is missing from a raw history when it is read,       *)
(* no raw row outlives its retention by a whole prune cadence), and that   *)
(* together the collectors implement SampleLifecycle.                      *)
(***************************************************************************)
EXTENDS Collector, FiniteSetTheorems, TLAPS

-----------------------------------------------------------------------------
(* Buckets *)

\* A multiple of the bucket width is the start of a bucket.
LEMMA Multiple ==
    ASSUME NEW q \in Int
    PROVE  (BucketMs * q) % BucketMs = 0
BY BucketAssumption, SMT

\* A timestamp lies in the bucket that BucketStart names, and that is a
\* multiple of the bucket width (Bucketer::push).
LEMMA BucketStartBounds ==
    ASSUME NEW x \in Nat
    PROVE  /\ BucketStart(x) \in Nat
           /\ BucketStart(x) <= x
           /\ x < BucketStart(x) + BucketMs
           /\ BucketStart(x) % BucketMs = 0
<1>1. x % BucketMs \in 0 .. BucketMs - 1 /\ x % BucketMs <= x
  BY BucketAssumption, SMT
<1>2. BucketStart(x) \in Nat /\ BucketStart(x) <= x
         /\ x < BucketStart(x) + BucketMs
  BY <1>1, BucketAssumption DEF BucketStart
<1>3. BucketStart(x) % BucketMs = 0
  <2>1. x - (x % BucketMs) = BucketMs * (x \div BucketMs)
    BY BucketAssumption, SMT
  <2>2. (x \div BucketMs) \in Int
    BY BucketAssumption, SMT
  <2> QED BY <2>1, <2>2, Multiple DEF BucketStart
<1> QED BY <1>2, <1>3

-----------------------------------------------------------------------------
(* Types *)

\* What a cycle makes of its containers is well typed (collector::run).
LEMMA CollectTypes ==
    ASSUME TypeOK, NEW h \in Hosts, NEW ts \in Nat,
           NEW listed \in SUBSET Names, NEW valued \in SUBSET listed,
           NEW sampleOf \in [Names -> Sample], NEW new \in SUBSET Sample
    PROVE  /\ OpenAfter(h, ts) \in Nat
           /\ AccAfter(h, ts, new) \in SUBSET Sample
           /\ RawRows(listed, valued, sampleOf) \in SUBSET RawRow
           /\ Flushed(h, ts) \in SUBSET TrendRow
<1>1. OpenAfter(h, ts) \in Nat
  BY BucketStartBounds DEF TypeOK, OpenAfter
<1>2. AccAfter(h, ts, new) \in SUBSET Sample
  BY DEF TypeOK, AccAfter
<1>3. RawRows(listed, valued, sampleOf) \in SUBSET RawRow
  <2>1. \A c \in listed : [sample |-> sampleOf[c], valued |-> c \in valued]
                            \in RawRow
    BY DEF RawRow
  <2> QED BY <2>1 DEF RawRows
<1>4. Flushed(h, ts) \in SUBSET TrendRow
  <2>1. CASE Closing(h, ts)
    <3>1. open[h] \in Nat /\ acc[h] \in SUBSET Sample
      BY <2>1 DEF TypeOK, Closing
    <3> QED BY <2>1, <3>1 DEF Flushed, TrendRow
  <2>2. CASE ~Closing(h, ts)
    BY <2>2 DEF Flushed
  <2> QED BY <2>1, <2>2
<1> QED BY <1>1, <1>2, <1>3, <1>4

\* A step of the persist job keeps the job of its host well typed.
LEMMA JobTypes ==
    ASSUME TypeOK, NEW h \in Hosts, job[h] # NoJob
    PROVE  /\ job[h] \in Job
           /\ [job[h] EXCEPT !.step = "trends", !.rows = {}] \in Job
           /\ [job[h] EXCEPT !.step = "prune_trends"] \in Job
           /\ AfterTrends(job[h]) \in Job \union {NoJob}
<1>1. job[h] \in Job
  BY DEF TypeOK
<1> QED BY <1>1 DEF Job, AfterTrends

\* The initial state has its types.
LEMMA TypeInit == Init => TypeOK
BY DEF Init, TypeOK

\* Every step of the clock, of a host, of its job and of the process keeps
\* the types.
LEMMA TypeStep == TypeOK /\ [Next]_vars => TypeOK'
<1> SUFFICES ASSUME TypeOK, [Next]_vars PROVE TypeOK'
  OBVIOUS
<1>1. CASE Advance
  <2>1. up' \in BOOLEAN
    BY <1>1 DEF Advance, TypeOK
  <2>2. clock' \in Nat
    BY <1>1 DEF Advance, TypeOK
  <2> QED BY <1>1, <2>1, <2>2 DEF Advance, TypeOK, memory, tables, ghosts
<1>2. CASE StepBack
  <2>1. up' \in BOOLEAN
    BY <1>2 DEF StepBack, TypeOK
  <2>2. clock' \in Nat
    <3>1. clock \in Nat
      BY DEF TypeOK
    <3>2. PICK earlier \in 0 .. clock - 1 : clock' = earlier
      BY <1>2 DEF StepBack
    <3> QED BY <3>1, <3>2
  <2>3. stepped' \in Nat
    BY <1>2 DEF StepBack, TypeOK
  <2>4. UNCHANGED <<up, memory, job, tables, query, hist, failed, stops>>
    BY <1>2 DEF StepBack
  <2> QED BY <2>1, <2>2, <2>3, <2>4 DEF TypeOK, memory, tables
<1>3. ASSUME NEW h \in Hosts, Prime(h) PROVE TypeOK'
  BY <1>3 DEF Prime, TypeOK, tables, ghosts
<1>4. ASSUME NEW h \in Hosts, NEW listed \in SUBSET Names,
             NEW valued \in SUBSET listed, Collect(h, listed, valued)
      PROVE  TypeOK'
  <2> DEFINE n == Len(hist[h]) + 1
             sampleOf == [c \in Names |->
                            [host |-> h, name |-> c, n |-> n, ts |-> clock]]
             new == {sampleOf[c] : c \in valued}
             entry == [ts |-> clock, valued |-> valued]
             next == [step |-> "samples",
                      rows |-> RawRows(listed, valued, sampleOf),
                      flushed |-> Flushed(h, clock),
                      prune |-> cycle[h] % PruneCadence = 0,
                      ts |-> clock]
  <2>1. clock \in Nat /\ n \in Nat \ {0}
    BY DEF TypeOK
  <2>2. sampleOf \in [Names -> Sample]
    BY <2>1 DEF Sample
  <2>3. /\ OpenAfter(h, clock) \in Nat
        /\ AccAfter(h, clock, new) \in SUBSET Sample
        /\ RawRows(listed, valued, sampleOf) \in SUBSET RawRow
        /\ Flushed(h, clock) \in SUBSET TrendRow
    <3>1. new \in SUBSET Sample
      BY <2>2
    <3> HIDE DEF sampleOf, new
    <3> QED BY <2>1, <2>2, <3>1, CollectTypes
  <2>4. /\ open' = [open EXCEPT ![h] = OpenAfter(h, clock)]
        /\ acc' = [acc EXCEPT ![h] = AccAfter(h, clock, new)]
        /\ shared' = [shared EXCEPT ![h] = {sampleOf[c] : c \in listed}]
        /\ cycle' = [cycle EXCEPT ![h] = @ + 1]
        /\ job' = [job EXCEPT ![h] = next]
        /\ hist' = [hist EXCEPT ![h] = Append(@, entry)]
        /\ UNCHANGED <<clock, up, primed, raw, trend, query, failed, stops,
                       stepped>>
    BY <1>4 DEF Collect, tables
  <2>5. next \in Job
    BY <2>1, <2>3 DEF Job
  <2>6. Append(hist[h], entry) \in Seq([ts : Nat, valued : SUBSET Names])
    <3>1. hist[h] \in Seq([ts : Nat, valued : SUBSET Names])
      BY DEF TypeOK
    <3>2. entry \in [ts : Nat, valued : SUBSET Names]
      BY <2>1
    <3> HIDE DEF entry
    <3> QED BY <3>1, <3>2
  <2>7. {sampleOf[c] : c \in listed} \in SUBSET Sample
    BY <2>2
  <2> HIDE DEF n, sampleOf, new, entry, next
  <2>8. /\ open' \in [Hosts -> Nat \union {NoBucket}]
        /\ acc' \in [Hosts -> SUBSET Sample]
        /\ shared' \in [Hosts -> (SUBSET Sample) \union {NoSnapshot}]
    BY <2>3, <2>4, <2>7 DEF TypeOK
  <2>9. cycle' \in [Hosts -> Nat] /\ job' \in [Hosts -> Job \union {NoJob}]
    BY <2>4, <2>5 DEF TypeOK
  <2>10. hist' \in [Hosts -> Seq([ts : Nat, valued : SUBSET Names])]
    BY <2>4, <2>6 DEF TypeOK
  <2> QED BY <2>4, <2>8, <2>9, <2>10 DEF TypeOK
<1>5. ASSUME NEW h \in Hosts, InsertSamples(h) PROVE TypeOK'
  <2>1. job' = [job EXCEPT ![h] =
                  [job[h] EXCEPT !.step = "trends", !.rows = {}]]
    BY <1>5, JobTypes DEF InsertSamples, TypeOK, Job
  <2>2. job[h].rows \in SUBSET RawRow
    BY <1>5, JobTypes DEF InsertSamples, Job
  <2> QED BY <1>5, <2>1, <2>2, JobTypes
          DEF InsertSamples, TypeOK, memory, ghosts
<1>6. ASSUME NEW h \in Hosts, InsertTrends(h) PROVE TypeOK'
  <2>1. job[h].flushed \in SUBSET TrendRow
    BY <1>6, JobTypes DEF InsertTrends, Job
  <2> QED BY <1>6, <2>1, JobTypes DEF InsertTrends, TypeOK, memory, ghosts
<1>7. ASSUME NEW h \in Hosts, PruneRaw(h) PROVE TypeOK'
  <2>1. job' = [job EXCEPT ![h] = [job[h] EXCEPT !.step = "prune_trends"]]
    BY <1>7, JobTypes DEF PruneRaw, TypeOK, Job
  <2> QED BY <1>7, <2>1, JobTypes DEF PruneRaw, TypeOK, memory, ghosts
<1>8. ASSUME NEW h \in Hosts, PruneTrends(h) PROVE TypeOK'
  BY <1>8 DEF PruneTrends, TypeOK, memory, ghosts
<1>9. ASSUME NEW h \in Hosts, PersistFails(h) PROVE TypeOK'
  <2>1. failed' \in Nat
    BY <1>9 DEF PersistFails, TypeOK
  <2>2. /\ job' = [job EXCEPT ![h] = NoJob]
        /\ UNCHANGED <<clock, up, memory, tables, query, hist, stops, stepped>>
    BY <1>9 DEF PersistFails
  <2> QED BY <2>1, <2>2 DEF TypeOK, memory, tables
<1>10. CASE Shutdown
  <2>1. up' \in BOOLEAN
    BY <1>10 DEF Shutdown
  <2>2. stops' \in Nat
    BY <1>10 DEF Shutdown, TypeOK
  <2>3. /\ MemoryLost
        /\ UNCHANGED <<clock, job, tables, hist, failed, stepped>>
    BY <1>10 DEF Shutdown
  <2> QED BY <2>1, <2>2, <2>3 DEF MemoryLost, TypeOK, tables
<1>11. CASE Kill
  <2>1. up' \in BOOLEAN
    BY <1>11 DEF Kill
  <2>2. stops' \in Nat
    BY <1>11 DEF Kill, TypeOK
  <2>3. /\ MemoryLost
        /\ job' = [g \in Hosts |-> NoJob]
        /\ UNCHANGED <<clock, tables, hist, failed, stepped>>
    BY <1>11 DEF Kill
  <2> QED BY <2>1, <2>2, <2>3 DEF MemoryLost, TypeOK, tables
<1>12. CASE Restart
  <2>1. up' \in BOOLEAN
    BY <1>12 DEF Restart
  <2> QED BY <1>12, <2>1 DEF Restart, TypeOK, memory, tables, ghosts
<1>13. ASSUME NEW h \in Hosts, NEW c \in Names, NEW since \in 0 .. clock,
              NEW until \in since .. since + MaxWindow,
              ResolveHistory(h, c, since, until)
       PROVE  TypeOK'
  <2>1. clock \in Nat /\ since \in Nat /\ until \in Nat
    BY BoundAssumption DEF TypeOK
  <2>2. query' \in Query
    BY <1>13, <2>1 DEF ResolveHistory, Query
  <2> QED BY <1>13, <2>2 DEF ResolveHistory, TypeOK, memory, tables, ghosts
<1>14. CASE AnswerHistory
  BY <1>14 DEF AnswerHistory, TypeOK, memory, tables, ghosts
<1>15. CASE UNCHANGED vars
  BY <1>15 DEF vars, memory, tables, ghosts, TypeOK
<1> QED
  BY <1>1, <1>2, <1>3, <1>4, <1>5, <1>6, <1>7, <1>8, <1>9, <1>10, <1>11,
     <1>12, <1>13, <1>14, <1>15 DEF Next

\* Type correctness of the collectors and the store.
THEOREM TypeCorrect == Spec => []TypeOK
BY TypeInit, TypeStep, PTL DEF Spec

-----------------------------------------------------------------------------
(* What a step does to the readings *)

Rolled == trend \union InFlight

\* A step that takes no reading: rollups and open readings only disappear, a
\* bucket is forgotten with its readings, and time does not run back unnoticed.
QuietStep ==
    /\ hist' = hist
    /\ Rolled' \subseteq Rolled
    /\ \A h \in Hosts : acc'[h] \subseteq acc[h]
    /\ \A h \in Hosts : open'[h] = open[h] \/ (open'[h] = NoBucket /\ acc'[h] = {})
    /\ stepped' = 0 => stepped = 0 /\ clock <= clock'

\* The readings a cycle of host h takes at the present time.
NewReadings(h, valued) ==
    {[host |-> h, name |-> c, n |-> Len(hist[h]) + 1, ts |-> clock] : c \in valued}

\* A step that takes readings: the bucketer moves on, and what it flushed is
\* the only rollup that can be new.
CycleStep(h, valued) ==
    /\ acc' = [acc EXCEPT ![h] = AccAfter(h, clock, NewReadings(h, valued))]
    /\ open' = [open EXCEPT ![h] = OpenAfter(h, clock)]
    /\ hist' = [hist EXCEPT ![h] = Append(@, [ts |-> clock, valued |-> valued])]
    /\ Rolled' \subseteq Rolled \union Flushed(h, clock)
    /\ UNCHANGED <<clock, stepped>>

\* A rollup is in flight when some host's job holds it.
LEMMA InFlightMember ==
    \A t : t \in InFlight <=> \E h \in Hosts : job[h] # NoJob /\ t \in job[h].flushed
BY DEF InFlight

\* The same one step later.
LEMMA InFlightMemberNext ==
    \A t : t \in InFlight' <=>
             \E h \in Hosts : job'[h] # NoJob /\ t \in job'[h].flushed
BY DEF InFlight

\* Steps that leave the bucketers alone and only take rollups off a job.
LEMMA JobShrinks ==
    ASSUME \A g \in Hosts : job'[g] # NoJob =>
             job[g] # NoJob /\ job'[g].flushed \subseteq job[g].flushed
    PROVE  InFlight' \subseteq InFlight
BY InFlightMember, InFlightMemberNext

\* Every step either takes no reading or is one cycle of one host.
LEMMA StepKinds ==
    ASSUME TypeOK, [Next]_vars
    PROVE  QuietStep \/ \E h \in Hosts : \E valued \in SUBSET Names :
                          CycleStep(h, valued)
<1>1. CASE Advance
  BY <1>1 DEF Advance, QuietStep, Rolled, InFlight, TypeOK, memory, tables, ghosts
<1>2. CASE StepBack
  BY <1>2 DEF StepBack, QuietStep, Rolled, InFlight, TypeOK, memory, tables
<1>3. ASSUME NEW h \in Hosts, Prime(h) PROVE QuietStep
  BY <1>3 DEF Prime, QuietStep, Rolled, InFlight, TypeOK, tables, ghosts
<1>4. ASSUME NEW h \in Hosts, NEW listed \in SUBSET Names,
             NEW valued \in SUBSET listed, Collect(h, listed, valued)
      PROVE  CycleStep(h, valued)
  <2> DEFINE sampleOf == [c \in Names |->
                 [host |-> h, name |-> c, n |-> Len(hist[h]) + 1, ts |-> clock]]
  <2>1. {sampleOf[c] : c \in valued} = NewReadings(h, valued)
    BY DEF NewReadings
  <2>2. /\ acc' = [acc EXCEPT ![h] =
                     AccAfter(h, clock, {sampleOf[c] : c \in valued})]
        /\ open' = [open EXCEPT ![h] = OpenAfter(h, clock)]
        /\ hist' = [hist EXCEPT ![h] = Append(@, [ts |-> clock, valued |-> valued])]
        /\ UNCHANGED <<clock, trend, stepped>>
    BY <1>4 DEF Collect, tables
  <2>3. InFlight' \subseteq InFlight \union Flushed(h, clock)
    <3> DEFINE j == [step |-> "samples",
                     rows |-> RawRows(listed, valued, sampleOf),
                     flushed |-> Flushed(h, clock),
                     prune |-> cycle[h] % PruneCadence = 0,
                     ts |-> clock]
    <3>1. j.flushed = Flushed(h, clock) /\ job' = [job EXCEPT ![h] = j]
      BY <1>4 DEF Collect
    <3> HIDE DEF j
    <3>2. \A g \in Hosts : job'[g] = IF g = h THEN j ELSE job[g]
      BY <3>1 DEF TypeOK
    <3> QED BY <3>1, <3>2, InFlightMember, InFlightMemberNext
  <2> QED BY <2>1, <2>2, <2>3 DEF CycleStep, Rolled
<1>5. ASSUME NEW h \in Hosts, InsertSamples(h) PROVE QuietStep
  <2>1. InFlight' \subseteq InFlight
    <3>1. \A g \in Hosts : job'[g] # NoJob =>
            job[g] # NoJob /\ job'[g].flushed \subseteq job[g].flushed
      BY <1>5, JobTypes DEF InsertSamples, TypeOK, Job
    <3> QED BY <3>1, JobShrinks
  <2> QED BY <1>5, <2>1
          DEF InsertSamples, QuietStep, Rolled, TypeOK, memory, ghosts
<1>6. ASSUME NEW h \in Hosts, InsertTrends(h) PROVE QuietStep
  <2>1. InFlight' \subseteq InFlight
    <3>1. AfterTrends(job[h]) # NoJob => AfterTrends(job[h]).flushed = {}
      BY <1>6, JobTypes DEF InsertTrends, AfterTrends, Job
    <3>2. \A g \in Hosts : job'[g] # NoJob =>
            job[g] # NoJob /\ job'[g].flushed \subseteq job[g].flushed
      BY <1>6, <3>1 DEF InsertTrends, TypeOK
    <3> QED BY <3>2, JobShrinks
  <2>2. trend' \subseteq Rolled
    BY <1>6, InFlightMember DEF InsertTrends, Rolled
  <2> QED BY <1>6, <2>1, <2>2
          DEF InsertTrends, QuietStep, Rolled, TypeOK, memory, ghosts
<1>7. ASSUME NEW h \in Hosts, PruneRaw(h) PROVE QuietStep
  <2>1. InFlight' \subseteq InFlight
    <3>1. \A g \in Hosts : job'[g] # NoJob =>
            job[g] # NoJob /\ job'[g].flushed \subseteq job[g].flushed
      BY <1>7, JobTypes DEF PruneRaw, TypeOK, Job
    <3> QED BY <3>1, JobShrinks
  <2> QED BY <1>7, <2>1 DEF PruneRaw, QuietStep, Rolled, TypeOK, memory, ghosts
<1>8. ASSUME NEW h \in Hosts, PruneTrends(h) PROVE QuietStep
  <2>1. InFlight' \subseteq InFlight
    BY <1>8, JobShrinks DEF PruneTrends, TypeOK
  <2> QED BY <1>8, <2>1 DEF PruneTrends, QuietStep, Rolled, TypeOK, memory, ghosts
<1>9. ASSUME NEW h \in Hosts, PersistFails(h) PROVE QuietStep
  <2>1. InFlight' \subseteq InFlight
    BY <1>9, JobShrinks DEF PersistFails, TypeOK
  <2> QED BY <1>9, <2>1 DEF PersistFails, QuietStep, Rolled, TypeOK, memory, tables
<1>10. CASE Shutdown
  BY <1>10 DEF Shutdown, MemoryLost, QuietStep, Rolled, InFlight, TypeOK, tables
<1>11. CASE Kill
  <2>1. InFlight' \subseteq InFlight
    BY <1>11, JobShrinks DEF Kill
  <2> QED BY <1>11, <2>1 DEF Kill, MemoryLost, QuietStep, Rolled, TypeOK, tables
<1>12. CASE Restart
  BY <1>12 DEF Restart, QuietStep, Rolled, InFlight, TypeOK, memory, tables, ghosts
<1>13. ASSUME NEW h \in Hosts, NEW c \in Names, NEW since, NEW until,
              ResolveHistory(h, c, since, until)
       PROVE  QuietStep
  BY <1>13 DEF ResolveHistory, QuietStep, Rolled, InFlight, TypeOK, memory,
               tables, ghosts
<1>14. CASE AnswerHistory
  BY <1>14 DEF AnswerHistory, QuietStep, Rolled, InFlight, TypeOK, memory,
               tables, ghosts
<1>15. CASE UNCHANGED vars
  BY <1>15 DEF vars, memory, tables, ghosts, QuietStep, Rolled, InFlight, TypeOK
<1> QED
  BY <1>1, <1>2, <1>3, <1>4, <1>5, <1>6, <1>7, <1>8, <1>9, <1>10, <1>11,
     <1>12, <1>13, <1>14, <1>15 DEF Next

-----------------------------------------------------------------------------
(* A reading counts once *)

\* Open readings are their host's own and not from a cycle to come.
OwnOpen ==
    \A h \in Hosts : \A s \in acc[h] : s.host = h /\ s.n <= Len(hist[h])

\* Nor is any rolled-up reading.
PastRolled ==
    \A t \in Rolled : t.sample.n <= Len(hist[t.sample.host])

\* SampleOnce alone is not inductive: that a reading is new to the rollups
\* when a cycle takes it follows from its ordinal.
OnceInv == OwnOpen /\ PastRolled /\ SampleOnce

\* Nothing is open or rolled up at the start.
LEMMA OnceInit == Init => OnceInv
BY DEF Init, OnceInv, OwnOpen, PastRolled, SampleOnce, Rolled, InFlight

\* A step that takes no reading leaves those there are apart.
LEMMA OnceQuiet ==
    ASSUME TypeOK, OnceInv, QuietStep
    PROVE  OnceInv'
<1>1. /\ hist' = hist /\ Rolled' \subseteq Rolled
      /\ \A h \in Hosts : acc'[h] \subseteq acc[h]
  BY DEF QuietStep
<1>2. OwnOpen'
  BY <1>1 DEF OnceInv, OwnOpen
<1>3. PastRolled'
  BY <1>1 DEF OnceInv, PastRolled
<1>4. SampleOnce'
  BY <1>1 DEF OnceInv, SampleOnce, Rolled
<1> QED BY <1>2, <1>3, <1>4 DEF OnceInv

\* A cycle hands the open readings over as a whole and opens later ones.
LEMMA OnceCycle ==
    ASSUME TypeOK, TypeOK', OnceInv, NEW h \in Hosts, NEW valued \in SUBSET Names,
           CycleStep(h, valued)
    PROVE  OnceInv'
<1> DEFINE last == Len(hist[h])
           flushed == Flushed(h, clock)
<1>1. last \in Nat
  BY DEF TypeOK
<1>2. /\ \A g \in Hosts \ {h} : hist'[g] = hist[g] /\ acc'[g] = acc[g]
      /\ Len(hist'[h]) = last + 1
  BY DEF CycleStep, TypeOK
<1>3. \A s \in NewReadings(h, valued) : s.host = h /\ s.n = last + 1
  BY DEF NewReadings
<1>4. acc'[h] = AccAfter(h, clock, NewReadings(h, valued))
  BY DEF CycleStep, TypeOK
<1>5. \A t \in flushed : t.sample \in acc[h] /\ t.bucket = open[h]
  BY DEF Flushed
<1>6. \A s \in acc[h] : s.host = h /\ s.n \in Nat /\ s.n <= last
  BY DEF OnceInv, OwnOpen, TypeOK, Sample
<1>7. Rolled' \subseteq Rolled \union flushed
  BY DEF CycleStep
<1>8. \A t \in Rolled : /\ t.sample.n \in Nat /\ t.sample.host \in Hosts
                        /\ t.sample.n <= Len(hist[t.sample.host])
  <2>1. Rolled \subseteq TrendRow
    BY InFlightMember DEF Rolled, TypeOK, Job
  <2> QED BY <2>1 DEF OnceInv, PastRolled, TrendRow, Sample
<1>9. OwnOpen'
  <2>1. \A s \in acc'[h] : s.host = h /\ s.n <= last + 1
    BY <1>1, <1>3, <1>4, <1>6 DEF AccAfter
  <2> QED BY <1>2, <2>1 DEF OnceInv, OwnOpen
<1>10. PastRolled'
  <2> SUFFICES ASSUME NEW t \in Rolled'
               PROVE  t.sample.n <= Len(hist'[t.sample.host])
    BY DEF PastRolled
  <2>1. CASE t \in flushed
    BY <2>1, <1>1, <1>2, <1>5, <1>6
  <2>2. CASE t \in Rolled /\ t.sample.host = h
    BY <2>2, <1>1, <1>2, <1>8
  <2>3. CASE t \in Rolled /\ t.sample.host # h
    BY <2>3, <1>2, <1>8
  <2> QED BY <1>7, <2>1, <2>2, <2>3
<1>11. \A t, u \in Rolled' : t.sample = u.sample => t.bucket = u.bucket
  <2> SUFFICES ASSUME NEW t \in Rolled', NEW u \in Rolled', t.sample = u.sample
               PROVE  t.bucket = u.bucket
    OBVIOUS
  <2>1. CASE t \in flushed /\ u \in flushed
    BY <2>1, <1>5
  <2>2. CASE t \in Rolled /\ u \in Rolled
    BY <2>2 DEF OnceInv, SampleOnce, Rolled
  <2>3. CASE t \in flushed /\ u \in Rolled
    BY <2>3, <1>5 DEF OnceInv, SampleOnce, Rolled
  <2>4. CASE t \in Rolled /\ u \in flushed
    BY <2>4, <1>5 DEF OnceInv, SampleOnce, Rolled
  <2> QED BY <1>7, <2>1, <2>2, <2>3, <2>4
<1>12. \A g \in Hosts : \A s \in acc'[g] : \A t \in Rolled' : t.sample # s
  <2> SUFFICES ASSUME NEW g \in Hosts, NEW s \in acc'[g], NEW t \in Rolled'
               PROVE  t.sample # s
    OBVIOUS
  <2>1. CASE g # h
    <3>1. s \in acc[g] /\ s.host = g
      BY <2>1, <1>2 DEF OnceInv, OwnOpen
    <3>2. CASE t \in Rolled
      BY <3>1, <3>2 DEF OnceInv, SampleOnce, Rolled
    <3>3. CASE t \in flushed
      BY <2>1, <3>1, <3>3, <1>5, <1>6
    <3> QED BY <1>7, <3>2, <3>3
  <2>2. CASE g = h /\ s \in NewReadings(h, valued)
    <3>1. CASE t \in Rolled
      BY <2>2, <3>1, <1>1, <1>3, <1>8
    <3>2. CASE t \in flushed
      BY <2>2, <3>2, <1>1, <1>3, <1>5, <1>6
    <3> QED BY <1>7, <3>1, <3>2
  <2>3. CASE g = h /\ s \in acc[h] /\ ~Closing(h, clock)
    <3>1. t \in Rolled
      BY <2>3, <1>7 DEF Flushed
    <3> QED BY <2>3, <3>1 DEF OnceInv, SampleOnce, Rolled
  <2> QED BY <1>4, <2>1, <2>2, <2>3 DEF AccAfter
<1>13. SampleOnce'
  BY <1>11, <1>12 DEF SampleOnce, Rolled
<1> QED BY <1>9, <1>10, <1>13 DEF OnceInv

\* No reading counts towards two trend rows, or towards one while it is still
\* open: the bucketer, the persist jobs, failures, kills and clock jumps.
THEOREM CountsOnce == Spec => []SampleOnce
<1>1. Init => TypeOK /\ OnceInv
  BY TypeInit, OnceInit
<1>2. TypeOK /\ OnceInv /\ [Next]_vars => TypeOK' /\ OnceInv'
  BY TypeStep, StepKinds, OnceQuiet, OnceCycle
<1>3. OnceInv => SampleOnce
  BY DEF OnceInv
<1> QED BY <1>1, <1>2, <1>3, PTL DEF Spec

-----------------------------------------------------------------------------
(* Buckets hold what belongs to them *)

\* A bucket that is open starts at a multiple of its width and not in the
\* future of a clock that never ran back; what is open belongs to it.
OpenBounds ==
    \A h \in Hosts :
        /\ open[h] = NoBucket => acc[h] = {}
        /\ open[h] # NoBucket => open[h] % BucketMs = 0
        /\ stepped = 0 /\ open[h] # NoBucket => open[h] <= clock
        /\ \A s \in acc[h] : /\ s.ts < open[h] + BucketMs
                             /\ stepped = 0 => open[h] <= s.ts

\* BucketBounds for the bucket that is open is what closing it hands on.
BoundsInv == OpenBounds /\ BucketBounds

\* Nothing is open or rolled up at the start.
LEMMA BoundsInit == Init => BoundsInv
BY DEF Init, BoundsInv, OpenBounds, BucketBounds, InFlight

\* A step that takes no reading keeps the bounds: buckets only go away.
LEMMA BoundsQuiet ==
    ASSUME TypeOK, TypeOK', BoundsInv, QuietStep
    PROVE  BoundsInv'
<1>1. /\ Rolled' \subseteq Rolled
      /\ \A h \in Hosts : acc'[h] \subseteq acc[h]
      /\ \A h \in Hosts :
           open'[h] = open[h] \/ (open'[h] = NoBucket /\ acc'[h] = {})
      /\ stepped' = 0 => stepped = 0 /\ clock <= clock'
  BY DEF QuietStep
<1>2. OpenBounds'
  <2> SUFFICES ASSUME NEW h \in Hosts
               PROVE  /\ open'[h] = NoBucket => acc'[h] = {}
                      /\ open'[h] # NoBucket => open'[h] % BucketMs = 0
                      /\ stepped' = 0 /\ open'[h] # NoBucket => open'[h] <= clock'
                      /\ \A s \in acc'[h] :
                           /\ s.ts < open'[h] + BucketMs
                           /\ stepped' = 0 => open'[h] <= s.ts
    BY DEF OpenBounds
  <2>1. CASE open'[h] = open[h]
    <3>1. clock \in Nat /\ clock' \in Nat /\ open[h] \in Nat \union {NoBucket}
      BY DEF TypeOK
    <3> QED BY <2>1, <3>1, <1>1, NullAssumption DEF BoundsInv, OpenBounds
  <2>2. CASE open'[h] = NoBucket /\ acc'[h] = {}
    BY <2>2
  <2> QED BY <1>1, <2>1, <2>2
<1>3. BucketBounds'
  BY <1>1 DEF BoundsInv, BucketBounds, Rolled
<1> QED BY <1>2, <1>3 DEF BoundsInv

\* A cycle opens the bucket of its own time or stays in one that has not
\* ended, and flushes only the one that was open.
LEMMA BoundsCycle ==
    ASSUME TypeOK, BoundsInv, NEW h \in Hosts, NEW valued \in SUBSET Names,
           CycleStep(h, valued)
    PROVE  BoundsInv'
<1> DEFINE start == BucketStart(clock)
<1>1. /\ clock \in Nat /\ start \in Nat /\ start <= clock
      /\ clock < start + BucketMs /\ start % BucketMs = 0
  BY BucketStartBounds DEF TypeOK
<1> HIDE DEF start
<1>2. open[h] \in Nat \union {NoBucket}
  BY DEF TypeOK
<1>3. /\ \A g \in Hosts \ {h} : open'[g] = open[g] /\ acc'[g] = acc[g]
      /\ open'[h] = OpenAfter(h, clock)
      /\ acc'[h] = AccAfter(h, clock, NewReadings(h, valued))
      /\ clock' = clock /\ stepped' = stepped
      /\ Rolled' \subseteq Rolled \union Flushed(h, clock)
  BY DEF CycleStep, TypeOK
<1>4. \A s \in NewReadings(h, valued) : s.ts = clock
  BY DEF NewReadings
<1>5. \A s \in acc[h] : s.ts \in Nat
  BY DEF TypeOK, Sample
<1>6. CASE open[h] # NoBucket /\ ~Closing(h, clock)
  <2>1. open'[h] = open[h] /\ acc'[h] = acc[h] \union NewReadings(h, valued)
    BY <1>3, <1>6 DEF OpenAfter, AccAfter
  <2>2. start <= open[h]
    BY <1>1, <1>2, <1>6 DEF Closing, start
  <2>3. \A s \in acc'[h] : /\ s.ts < open'[h] + BucketMs
                           /\ stepped = 0 => open'[h] <= s.ts
    BY <1>1, <1>2, <1>4, <1>6, <2>1, <2>2, BucketAssumption
       DEF BoundsInv, OpenBounds
  <2>4. OpenBounds'
    BY <1>3, <1>6, <2>1, <2>3 DEF BoundsInv, OpenBounds
  <2>5. Rolled' \subseteq Rolled
    BY <1>3, <1>6 DEF Flushed
  <2> QED BY <1>3, <2>4, <2>5 DEF BoundsInv, BucketBounds, Rolled
<1>7. CASE open[h] = NoBucket \/ Closing(h, clock)
  <2>1. open'[h] = start /\ acc'[h] = NewReadings(h, valued)
    BY <1>3, <1>7 DEF OpenAfter, AccAfter, BoundsInv, OpenBounds, Closing, start
  <2>2. open'[h] # NoBucket
    BY <1>1, <2>1, NullAssumption
  <2>3. OpenBounds'
    BY <1>1, <1>3, <1>4, <2>1, <2>2 DEF BoundsInv, OpenBounds
  <2>4. \A t \in Flushed(h, clock) :
          t.bucket = open[h] /\ t.sample \in acc[h] /\ open[h] # NoBucket
    BY DEF Flushed, Closing
  <2>5. BucketBounds'
    BY <1>3, <2>4 DEF BoundsInv, OpenBounds, BucketBounds, Rolled
  <2> QED BY <2>3, <2>5 DEF BoundsInv
<1> QED BY <1>6, <1>7

\* No trend row holds a reading from after its bucket, nor, while the clock
\* was never set back, one from before it.
THEOREM BucketsBounded == Spec => []BucketBounds
<1>1. Init => TypeOK /\ BoundsInv
  BY TypeInit, BoundsInit
<1>2. TypeOK /\ BoundsInv /\ [Next]_vars => TypeOK' /\ BoundsInv'
  BY TypeStep, StepKinds, BoundsQuiet, BoundsCycle
<1>3. BoundsInv => BucketBounds
  BY DEF BoundsInv
<1> QED BY <1>1, <1>2, <1>3, PTL DEF Spec

-----------------------------------------------------------------------------
(* Pruning *)

\* A job is stamped with the time of a cycle its host made.
JobStamped ==
    \A h \in Hosts : job[h] # NoJob =>
        \E k \in DOMAIN hist[h] : job[h].ts = hist[h][k].ts

\* No job runs at the start.
LEMMA StampInit == Init => JobStamped
BY DEF Init, JobStamped

\* Only a cycle stamps a job, with the entry it adds to the history.
LEMMA StampStep == TypeOK /\ JobStamped /\ [Next]_vars => JobStamped'
<1> SUFFICES ASSUME TypeOK, JobStamped, [Next]_vars PROVE JobStamped'
  OBVIOUS
<1>1. ASSUME hist' = hist,
             \A g \in Hosts : job'[g] # NoJob =>
                                job[g] # NoJob /\ job'[g].ts = job[g].ts
      PROVE  JobStamped'
  BY <1>1 DEF JobStamped
<1>2. ASSUME NEW h \in Hosts, NEW listed \in SUBSET Names,
             NEW valued \in SUBSET listed, Collect(h, listed, valued)
      PROVE  JobStamped'
  <2> DEFINE entry == [ts |-> clock, valued |-> valued]
  <2>1. hist[h] \in Seq([ts : Nat, valued : SUBSET Names])
    BY DEF TypeOK
  <2>2. hist' = [hist EXCEPT ![h] = Append(hist[h], entry)]
    BY <1>2 DEF Collect
  <2>3. hist'[h] = Append(hist[h], entry)
    BY <2>2 DEF TypeOK
  <2>4. job'[h].ts = clock
    BY <1>2 DEF Collect, TypeOK
  <2>5. Len(hist[h]) + 1 \in DOMAIN hist'[h]
          /\ hist'[h][Len(hist[h]) + 1].ts = clock
    BY <2>1, <2>3
  <2>6. \A g \in Hosts \ {h} : job'[g] = job[g] /\ hist'[g] = hist[g]
    BY <1>2, <2>2 DEF Collect, TypeOK
  <2> QED BY <2>4, <2>5, <2>6 DEF JobStamped
<1>3. ASSUME NEW h \in Hosts,
             InsertSamples(h) \/ InsertTrends(h) \/ PruneRaw(h) \/ PruneTrends(h)
               \/ PersistFails(h)
      PROVE  JobStamped'
  <2>1. job[h] \in Job /\ job[h] # NoJob
    BY <1>3, JobTypes
       DEF InsertSamples, InsertTrends, PruneRaw, PruneTrends, PersistFails
  <2>2. \/ job' = [job EXCEPT ![h].step = "trends", ![h].rows = {}]
        \/ job' = [job EXCEPT ![h] = AfterTrends(job[h])]
        \/ job' = [job EXCEPT ![h].step = "prune_trends"]
        \/ job' = [job EXCEPT ![h] = NoJob]
    BY <1>3 DEF InsertSamples, InsertTrends, PruneRaw, PruneTrends, PersistFails
  <2>3. AfterTrends(job[h]) # NoJob => AfterTrends(job[h]).ts = job[h].ts
    BY <2>1 DEF AfterTrends, Job
  <2>4. \A g \in Hosts : job'[g] # NoJob =>
                           job[g] # NoJob /\ job'[g].ts = job[g].ts
    <3>1. job \in [Hosts -> Job \union {NoJob}]
      BY DEF TypeOK
    <3>2. job'[h] # NoJob => job'[h].ts = job[h].ts
      BY <2>1, <2>2, <2>3, <3>1 DEF Job
    <3>3. \A g \in Hosts \ {h} : job'[g] = job[g]
      BY <2>2, <3>1
    <3> QED BY <2>1, <3>2, <3>3
  <2>5. hist' = hist
    BY <1>3 DEF InsertSamples, InsertTrends, PruneRaw, PruneTrends,
                PersistFails, ghosts
  <2> QED BY <1>1, <2>4, <2>5
<1>4. CASE Advance \/ StepBack \/ Restart \/ AnswerHistory \/ UNCHANGED vars
  BY <1>1, <1>4 DEF Advance, StepBack, Restart, AnswerHistory, vars, ghosts
<1>5. ASSUME NEW h \in Hosts, Prime(h) PROVE JobStamped'
  BY <1>1, <1>5 DEF Prime, ghosts
<1>6. CASE Shutdown \/ Kill
  BY <1>1, <1>6 DEF Shutdown, Kill
<1>7. ASSUME NEW h \in Hosts, NEW c \in Names, NEW since, NEW until,
             ResolveHistory(h, c, since, until)
      PROVE  JobStamped'
  BY <1>1, <1>7 DEF ResolveHistory, ghosts
<1> QED BY <1>2, <1>3, <1>4, <1>5, <1>6, <1>7 DEF Next

\* What lies before the cutoff of a job has aged by the job's retention.
LEMMA BeforeCutoff ==
    ASSUME TypeOK, JobStamped, NEW h \in Hosts, job[h] # NoJob,
           NEW age \in Nat, NEW ts \in Nat, ~Survives(ts, SatSub(job[h].ts, age))
    PROVE  Aged(ts, age)
<1>1. job[h].ts \in Nat
  BY JobTypes DEF Job
<1>2. ts + age < job[h].ts
  BY <1>1 DEF Survives, SatSub
<1> QED BY <1>2 DEF JobStamped, Aged

\* Pruning removes nothing that is still inside its retention, whichever host
\* prunes and whosever rows they are.
THEOREM PrunesOnlyExpired == Spec => PruneOnlyExpired
<1> DEFINE Expired == /\ \A r \in raw \ raw' : Aged(r.sample.ts, RawRetention)
                      /\ \A t \in trend \ trend' : Aged(t.bucket, TrendRetention)
<1>1. TypeOK /\ JobStamped /\ [Next]_vars => [Expired]_vars
  <2> SUFFICES ASSUME TypeOK, JobStamped, Next PROVE Expired
    OBVIOUS
  <2>1. CASE raw \subseteq raw' /\ trend \subseteq trend'
    BY <2>1
  <2>2. ASSUME NEW h \in Hosts, PruneRaw(h) PROVE Expired
    <3>1. trend' = trend /\ job[h] # NoJob
      BY <2>2 DEF PruneRaw
    <3>2. \A r \in raw \ raw' :
             ~Survives(r.sample.ts, SatSub(job[h].ts, RawRetention))
      BY <2>2 DEF PruneRaw
    <3>3. \A r \in raw : r.sample.ts \in Nat
      BY DEF TypeOK, RawRow, Sample
    <3> QED BY <3>1, <3>2, <3>3, BeforeCutoff, RetentionAssumption
  <2>3. ASSUME NEW h \in Hosts, PruneTrends(h) PROVE Expired
    <3>1. raw' = raw /\ job[h] # NoJob
      BY <2>3 DEF PruneTrends
    <3>2. \A t \in trend \ trend' :
             ~Survives(t.bucket, SatSub(job[h].ts, TrendRetention))
      BY <2>3 DEF PruneTrends
    <3>3. \A t \in trend : t.bucket \in Nat
      BY DEF TypeOK, TrendRow
    <3> QED BY <3>1, <3>2, <3>3, BeforeCutoff, RetentionAssumption
  <2>4. CASE \/ Advance \/ StepBack \/ Shutdown \/ Kill \/ Restart
             \/ AnswerHistory
    BY <2>1, <2>4 DEF Advance, StepBack, Shutdown, Kill, Restart,
                      AnswerHistory, tables
  <2>5. ASSUME NEW h \in Hosts,
               \/ Prime(h) \/ InsertSamples(h) \/ InsertTrends(h) \/ PersistFails(h)
               \/ \E listed \in SUBSET Names : \E valued \in SUBSET listed :
                    Collect(h, listed, valued)
               \/ \E c \in Names : \E since \in 0 .. clock :
                    \E until \in since .. since + MaxWindow :
                      ResolveHistory(h, c, since, until)
        PROVE  raw \subseteq raw' /\ trend \subseteq trend'
    BY <2>5 DEF Prime, InsertSamples, InsertTrends, PersistFails, Collect,
                ResolveHistory, tables
  <2> HIDE DEF Expired
  <2> QED BY <2>1, <2>2, <2>3, <2>4, <2>5 DEF Next
<1>2. Init => TypeOK /\ JobStamped
  BY TypeInit, StampInit
<1>3. TypeOK /\ JobStamped /\ [Next]_vars => TypeOK' /\ JobStamped'
  BY TypeStep, StampStep
<1> QED BY <1>1, <1>2, <1>3, PTL DEF Spec, PruneOnlyExpired

-----------------------------------------------------------------------------
(* What each step does, host by host *)

\* The sample the k-th cycle of host h took of container c.
TakenAt(h, c, k) == [host |-> h, name |-> c, n |-> k, ts |-> hist[h][k].ts]

\* Steps that touch neither readings nor rows: the clock, priming, a restart,
\* a request for history.
IdleStep ==
    /\ UNCHANGED <<cycle, open, acc, shared, job, raw, trend, hist, failed>>
    /\ stepped' = 0 => stepped = 0 /\ clock <= clock'

\* The process stops; a kill takes the jobs with it.
StopStep(killed) ==
    /\ \A h \in Hosts : cycle'[h] = 0 /\ acc'[h] = {} /\ shared'[h] = NoSnapshot
    /\ \A h \in Hosts : job'[h] = IF killed THEN NoJob ELSE job[h]
    /\ UNCHANGED <<raw, trend, hist, failed, clock, stepped>>

\* What the steps of the persist job of host h have in common.
JobStep(h) ==
    /\ job[h] \in Job /\ job[h] # NoJob
    /\ \A g \in Hosts \ {h} : job'[g] = job[g]
    /\ UNCHANGED <<cycle, open, acc, shared, hist, clock, stepped>>

\* The first transaction: the raw rows are in, the trends are next.
LEMMA SamplesIn ==
    ASSUME TypeOK, NEW h \in Hosts, InsertSamples(h)
    PROVE  /\ JobStep(h) /\ job[h].step = "samples"
           /\ job'[h] \in Job /\ job'[h] # NoJob
           /\ job'[h].step = "trends" /\ job'[h].rows = {}
           /\ job'[h].flushed = job[h].flushed
           /\ job'[h].prune = job[h].prune /\ job'[h].ts = job[h].ts
           /\ raw' = raw \union job[h].rows /\ UNCHANGED <<trend, failed>>
<1>1. job[h] \in Job /\ job[h] # NoJob
  BY JobTypes DEF InsertSamples
<1>2. job'[h] = [job[h] EXCEPT !.step = "trends", !.rows = {}]
  BY <1>1 DEF InsertSamples, TypeOK, Job
<1>3. job'[h] \in Job
  BY <1>1, <1>2, JobTypes
<1>4. /\ job'[h].step = "trends" /\ job'[h].rows = {}
      /\ job'[h].flushed = job[h].flushed
      /\ job'[h].prune = job[h].prune /\ job'[h].ts = job[h].ts
  BY <1>1, <1>2 DEF Job
<1>5. JobStep(h)
  BY <1>1 DEF JobStep, InsertSamples, TypeOK, memory, ghosts
<1> QED BY <1>1, <1>3, <1>4, <1>5, JobAssumption DEF InsertSamples, ghosts

\* The second: the rollups are in, and the job ends or prunes.
LEMMA TrendsIn ==
    ASSUME TypeOK, NEW h \in Hosts, InsertTrends(h)
    PROVE  /\ JobStep(h) /\ job[h].step = "trends"
           /\ ~job[h].prune => job'[h] = NoJob
           /\ job[h].prune => /\ job'[h] \in Job /\ job'[h] # NoJob
                              /\ job'[h].step = "prune_raw"
                              /\ job'[h].rows = job[h].rows
                              /\ job'[h].flushed = {}
                              /\ job'[h].prune /\ job'[h].ts = job[h].ts
           /\ trend' = trend \union job[h].flushed /\ UNCHANGED <<raw, failed>>
<1>1. job[h] \in Job /\ job[h] # NoJob
  BY JobTypes DEF InsertTrends
<1>2. job'[h] = AfterTrends(job[h])
  BY <1>1 DEF InsertTrends, TypeOK
<1>3. job[h].prune => /\ job'[h] \in Job
                      /\ job'[h].step = "prune_raw"
                      /\ job'[h].rows = job[h].rows
                      /\ job'[h].flushed = {}
                      /\ job'[h].prune /\ job'[h].ts = job[h].ts
  BY <1>1, <1>2 DEF Job, AfterTrends
<1>4. JobStep(h)
  BY <1>1 DEF JobStep, InsertTrends, TypeOK, memory, ghosts
<1> QED BY <1>1, <1>2, <1>3, <1>4, JobAssumption
        DEF InsertTrends, AfterTrends, ghosts

\* The third: expired raw rows of every host go.
LEMMA RawPruned ==
    ASSUME TypeOK, NEW h \in Hosts, PruneRaw(h)
    PROVE  /\ JobStep(h) /\ job[h].step = "prune_raw"
           /\ job'[h] \in Job /\ job'[h] # NoJob
           /\ job'[h].step = "prune_trends" /\ job'[h].rows = job[h].rows
           /\ job'[h].flushed = job[h].flushed
           /\ job'[h].prune = job[h].prune /\ job'[h].ts = job[h].ts
           /\ raw' = {r \in raw :
                        Survives(r.sample.ts, SatSub(job[h].ts, RawRetention))}
           /\ UNCHANGED <<trend, failed>>
<1>1. job[h] \in Job /\ job[h] # NoJob
  BY JobTypes DEF PruneRaw
<1>2. job'[h] = [job[h] EXCEPT !.step = "prune_trends"]
  BY <1>1 DEF PruneRaw, TypeOK, Job
<1>3. job'[h] \in Job
  BY <1>1, <1>2, JobTypes
<1>4. /\ job'[h].step = "prune_trends" /\ job'[h].rows = job[h].rows
      /\ job'[h].flushed = job[h].flushed
      /\ job'[h].prune = job[h].prune /\ job'[h].ts = job[h].ts
  BY <1>1, <1>2 DEF Job
<1>5. JobStep(h)
  BY <1>1 DEF JobStep, PruneRaw, TypeOK, memory, ghosts
<1> QED BY <1>1, <1>3, <1>4, <1>5, JobAssumption DEF PruneRaw, ghosts

\* The fourth: expired trend rows of every host go, and the job is done.
LEMMA TrendsPruned ==
    ASSUME TypeOK, NEW h \in Hosts, PruneTrends(h)
    PROVE  /\ JobStep(h) /\ job[h].step = "prune_trends" /\ job'[h] = NoJob
           /\ trend' = {t \in trend :
                          Survives(t.bucket, SatSub(job[h].ts, TrendRetention))}
           /\ UNCHANGED <<raw, failed>>
<1>1. job[h] \in Job /\ job[h] # NoJob
  BY JobTypes DEF PruneTrends
<1>2. JobStep(h)
  BY <1>1 DEF JobStep, PruneTrends, TypeOK, memory, ghosts
<1> QED BY <1>2 DEF PruneTrends, ghosts, TypeOK

\* A transaction that fails ends the job and leaves the tables alone.
LEMMA JobDropped ==
    ASSUME TypeOK, NEW h \in Hosts, PersistFails(h)
    PROVE  /\ JobStep(h) /\ job'[h] = NoJob /\ failed' # 0
           /\ UNCHANGED <<raw, trend>>
<1>1. job[h] \in Job /\ job[h] # NoJob
  BY JobTypes DEF PersistFails
<1>2. failed' # 0
  BY DEF PersistFails, TypeOK
<1>3. UNCHANGED <<clock, up, memory, tables, query, hist, stops, stepped>>
  BY DEF PersistFails
<1>4. JobStep(h)
  BY <1>1, <1>3 DEF JobStep, PersistFails, TypeOK, memory
<1> QED BY <1>2, <1>3, <1>4 DEF PersistFails, TypeOK, tables

\* What a cycle of host h leaves behind: an entry in its history, its
\* readings in the open bucket, and a job that holds what the bucket closed.
CycleMade(h, listed, valued) ==
    LET n == Len(hist[h]) + 1
        sample(c) == [host |-> h, name |-> c, n |-> n, ts |-> clock]
    IN
    /\ n \in 1 .. MaxCycles
    /\ job[h] = NoJob /\ job'[h] \in Job /\ job'[h] # NoJob
    /\ job'[h].step = "samples" /\ job'[h].flushed = Flushed(h, clock)
    /\ job'[h].prune = (cycle[h] % PruneCadence = 0) /\ job'[h].ts = clock
    /\ \A c \in listed : \E r \in job'[h].rows : r.sample = sample(c)
    /\ \A r \in job'[h].rows : \E c \in listed : r.sample = sample(c)
    /\ acc'[h] = (IF Closing(h, clock) THEN {} ELSE acc[h])
                   \union {sample(c) : c \in valued}
    /\ shared'[h] = {sample(c) : c \in listed}
    /\ cycle'[h] = cycle[h] + 1
    /\ hist'[h] = Append(hist[h], [ts |-> clock, valued |-> valued])
    /\ \A g \in Hosts \ {h} :
         /\ job'[g] = job[g] /\ acc'[g] = acc[g] /\ shared'[g] = shared[g]
         /\ cycle'[g] = cycle[g] /\ hist'[g] = hist[g]
    /\ UNCHANGED <<raw, trend, failed, clock, stepped>>

\* What a cycle makes of the open bucket and of the jobs.
LEMMA CycleMakes ==
    ASSUME TypeOK, NEW h \in Hosts, NEW listed \in SUBSET Names,
           NEW valued \in SUBSET listed, Collect(h, listed, valued)
    PROVE  CycleMade(h, listed, valued)
<1> DEFINE n == Len(hist[h]) + 1
           sampleOf == [c \in Names |->
                          [host |-> h, name |-> c, n |-> n, ts |-> clock]]
           new == {sampleOf[c] : c \in valued}
           entry == [ts |-> clock, valued |-> valued]
           flushed == Flushed(h, clock)
           rows == RawRows(listed, valued, sampleOf)
           flag == cycle[h] % PruneCadence = 0
           next == [step |-> "samples", rows |-> rows, flushed |-> flushed,
                    prune |-> flag, ts |-> clock]
<1>1. clock \in Nat /\ n \in Nat \ {0}
  <2>1. hist[h] \in Seq([ts : Nat, valued : SUBSET Names])
    BY DEF TypeOK
  <2>2. Len(hist[h]) \in Nat
    BY <2>1
  <2> QED BY <2>2 DEF TypeOK
<1>2. sampleOf \in [Names -> Sample]
  BY <1>1 DEF Sample
<1>3. rows \in SUBSET RawRow /\ flushed \in SUBSET TrendRow
  <2>1. new \in SUBSET Sample
    BY <1>2
  <2> HIDE DEF sampleOf, new
  <2> QED BY <1>1, <1>2, <2>1, CollectTypes
<1>4. n <= MaxCycles /\ job[h] = NoJob
  BY DEF Collect
<1>5. /\ acc' = [acc EXCEPT ![h] = AccAfter(h, clock, new)]
      /\ shared' = [shared EXCEPT ![h] = {sampleOf[c] : c \in listed}]
      /\ cycle' = [cycle EXCEPT ![h] = @ + 1]
      /\ job' = [job EXCEPT ![h] = next]
      /\ hist' = [hist EXCEPT ![h] = Append(@, entry)]
      /\ UNCHANGED <<clock, up, primed, raw, trend, failed, stops, stepped>>
  BY DEF Collect, tables
<1> DEFINE row(c) == [sample |-> sampleOf[c], valued |-> c \in valued]
<1>6a. \A c \in listed : row(c).sample = [host |-> h, name |-> c, n |-> n, ts |-> clock]
  OBVIOUS
<1>6b. rows = {row(c) : c \in listed}
  BY DEF RawRows
<1>6. \A c \in listed : \E r \in rows :
        r.sample = [host |-> h, name |-> c, n |-> n, ts |-> clock]
  <2> HIDE DEF row, rows
  <2> QED BY <1>6a, <1>6b
<1>7. \A r \in rows : \E c \in listed :
        r.sample = [host |-> h, name |-> c, n |-> n, ts |-> clock]
  <2> HIDE DEF row, rows
  <2> QED BY <1>6a, <1>6b
<1>8. /\ AccAfter(h, clock, new) = (IF Closing(h, clock) THEN {} ELSE acc[h])
            \union {[host |-> h, name |-> c, n |-> n, ts |-> clock] : c \in valued}
      /\ {sampleOf[c] : c \in listed} =
            {[host |-> h, name |-> c, n |-> n, ts |-> clock] : c \in listed}
  BY DEF AccAfter
<1>9. flag \in BOOLEAN
  OBVIOUS
<1> HIDE DEF n, sampleOf, new, entry, flushed, rows, flag
<1>10. next \in Job
  BY <1>1, <1>3, <1>9 DEF Job
<1>11. /\ next.step = "samples" /\ next.rows = rows /\ next.flushed = flushed
       /\ next.prune = flag /\ next.ts = clock
  OBVIOUS
<1> HIDE DEF next
<1>12. job'[h] = next /\ hist'[h] = Append(hist[h], entry)
         /\ cycle'[h] = cycle[h] + 1 /\ acc'[h] = AccAfter(h, clock, new)
         /\ shared'[h] = {sampleOf[c] : c \in listed}
  BY <1>5 DEF TypeOK
<1>13. \A g \in Hosts \ {h} :
         /\ job'[g] = job[g] /\ acc'[g] = acc[g] /\ shared'[g] = shared[g]
         /\ cycle'[g] = cycle[g] /\ hist'[g] = hist[g]
  BY <1>5 DEF TypeOK
<1>14. n \in 1 .. MaxCycles
  BY <1>1, <1>4, BoundAssumption
<1>15. next # NoJob
  BY <1>10, JobAssumption
<1> QED BY <1>4, <1>5, <1>6, <1>7, <1>8, <1>10, <1>11, <1>12, <1>13, <1>14, <1>15
        DEF CycleMade, n, entry, flag, flushed

\* Every step is one of these.
LEMMA StepCases ==
    ASSUME TypeOK, [Next]_vars
    PROVE  \/ IdleStep
           \/ \E killed \in BOOLEAN : StopStep(killed)
           \/ \E h \in Hosts :
                \/ \E listed \in SUBSET Names : \E valued \in SUBSET listed :
                     CycleMade(h, listed, valued)
                \/ InsertSamples(h) \/ InsertTrends(h) \/ PruneRaw(h)
                \/ PruneTrends(h) \/ PersistFails(h)
<1>1. CASE Advance
  BY <1>1 DEF Advance, IdleStep, TypeOK, memory, tables, ghosts
<1>2. CASE StepBack
  <2>1. stepped' # 0
    BY <1>2 DEF StepBack, TypeOK
  <2> QED BY <1>2, <2>1 DEF StepBack, IdleStep, memory, tables
<1>3. ASSUME NEW h \in Hosts, Prime(h) PROVE IdleStep
  BY <1>3 DEF Prime, IdleStep, TypeOK, tables, ghosts
<1>4. CASE Restart
  BY <1>4 DEF Restart, IdleStep, TypeOK, memory, tables, ghosts
<1>5. CASE UNCHANGED vars
  BY <1>5 DEF vars, IdleStep, TypeOK, memory, tables, ghosts
<1>6. CASE Shutdown
  <2>1. StopStep(FALSE)
    BY <1>6 DEF Shutdown, MemoryLost, StopStep, tables
  <2> QED BY <2>1
<1>7. CASE Kill
  <2>1. StopStep(TRUE)
    BY <1>7 DEF Kill, MemoryLost, StopStep, tables
  <2> QED BY <2>1
<1>8. ASSUME NEW h \in Hosts, NEW c \in Names, NEW since, NEW until,
             ResolveHistory(h, c, since, until)
      PROVE  IdleStep
  BY <1>8 DEF ResolveHistory, IdleStep, TypeOK, memory, tables, ghosts
<1>9. CASE AnswerHistory
  BY <1>9 DEF AnswerHistory, IdleStep, TypeOK, memory, tables, ghosts
<1> QED BY <1>1, <1>2, <1>3, <1>4, <1>5, <1>6, <1>7, <1>8, <1>9, CycleMakes
        DEF Next

-----------------------------------------------------------------------------
(* Jobs and cycles *)

\* What CollectorProofs keeps true of every state.
Base == TypeOK /\ OnceInv /\ BoundsInv /\ JobStamped

\* The invariants of CollectorProofs hold in the beginning.
LEMMA BaseInit == Init => Base
BY TypeInit, OnceInit, BoundsInit, StampInit DEF Base

\* Every step keeps them.
LEMMA BaseStep == Base /\ [Next]_vars => Base'
BY TypeStep, StepKinds, OnceQuiet, OnceCycle, BoundsQuiet, BoundsCycle, StampStep
   DEF Base

\* A job gives up its rows with its first transaction and its rollups with
\* the second, prunes only if it was told to, and carries its host's data.
JobShape ==
    \A h \in Hosts : job[h] # NoJob =>
        /\ job[h].step # "samples" => job[h].rows = {}
        /\ job[h].step \in {"prune_raw", "prune_trends"} =>
             job[h].flushed = {} /\ job[h].prune
        /\ \A r \in job[h].rows : r.sample.host = h /\ r.sample.ts = job[h].ts
        /\ \A t \in job[h].flushed : t.sample.host = h

\* The running process has made no more cycles than there ever were.
Numbered == \A h \in Hosts : cycle[h] <= Len(hist[h])

\* The length of a history is a number.
LEMMA HistLength ==
    ASSUME TypeOK, NEW h \in Hosts
    PROVE  /\ hist[h] \in Seq([ts : Nat, valued : SUBSET Names])
           /\ Len(hist[h]) \in Nat /\ DOMAIN hist[h] = 1 .. Len(hist[h])
           /\ cycle[h] \in Nat
           /\ \A k \in 1 .. Len(hist[h]) :
                hist[h][k].ts \in Nat /\ hist[h][k].valued \in SUBSET Names
<1>1. hist[h] \in Seq([ts : Nat, valued : SUBSET Names])
  BY DEF TypeOK
<1>2. cycle[h] \in Nat
  BY DEF TypeOK
<1>3. \A k \in 1 .. Len(hist[h]) : hist[h][k] \in [ts : Nat, valued : SUBSET Names]
  <2> DEFINE S == [ts : Nat, valued : SUBSET Names]
  <2>1. hist[h] \in Seq(S)
    BY <1>1
  <2> HIDE DEF S
  <2>2. \A k \in 1 .. Len(hist[h]) : hist[h][k] \in S
    BY <2>1
  <2> QED BY <2>2 DEF S
<1> QED BY <1>1, <1>2, <1>3

\* What a cycle adds to its host's history: one entry, after all others.
LEMMA CycleExtends ==
    ASSUME TypeOK, NEW h \in Hosts, NEW listed, NEW valued,
           CycleMade(h, listed, valued)
    PROVE  /\ Len(hist'[h]) = Len(hist[h]) + 1
           /\ hist'[h][Len(hist[h]) + 1] = [ts |-> clock, valued |-> valued]
           /\ \A k \in 1 .. Len(hist[h]) : hist'[h][k] = hist[h][k]
<1>1. hist'[h] = Append(hist[h], [ts |-> clock, valued |-> valued])
  BY DEF CycleMade
<1> DEFINE e == [ts |-> clock, valued |-> valued]
<1>2. hist'[h] = Append(hist[h], e)
  BY <1>1
<1> HIDE DEF e
<1>3. hist[h] \in Seq([ts : Nat, valued : SUBSET Names])
  BY HistLength
<1>4. /\ Len(hist'[h]) = Len(hist[h]) + 1
      /\ hist'[h][Len(hist[h]) + 1] = e
      /\ \A k \in 1 .. Len(hist[h]) : hist'[h][k] = hist[h][k]
  BY <1>2, <1>3
<1> QED BY <1>4 DEF e

\* There is no job in the beginning.
LEMMA ShapeInit == Init => JobShape /\ Numbered
<1> SUFFICES ASSUME Init PROVE JobShape /\ Numbered
  OBVIOUS
<1>1. JobShape
  BY DEF Init, JobShape
<1>2. \A h \in Hosts : cycle[h] = 0 /\ hist[h] = << >>
  BY DEF Init
<1> QED BY <1>1, <1>2 DEF Numbered

\* Every step keeps the shape of the jobs and the numbers of the readings.
LEMMA ShapeStep ==
    ASSUME Base, JobShape, Numbered, [Next]_vars
    PROVE  JobShape' /\ Numbered'
<1>1. TypeOK
  BY DEF Base
<1>2. CASE IdleStep
  BY <1>2 DEF IdleStep, JobShape, Numbered
<1>3. ASSUME NEW killed \in BOOLEAN, StopStep(killed) PROVE JobShape' /\ Numbered'
  <2>1. \A h \in Hosts : cycle'[h] = 0 /\ Len(hist'[h]) \in Nat
    BY <1>1, <1>3, HistLength DEF StopStep
  <2> QED BY <1>3, <2>1 DEF StopStep, JobShape, Numbered
<1>4. ASSUME NEW h \in Hosts, NEW listed \in SUBSET Names,
             NEW valued \in SUBSET listed, CycleMade(h, listed, valued)
      PROVE  JobShape' /\ Numbered'
  <2>1. Numbered'
    <3>1. Len(hist'[h]) = Len(hist[h]) + 1 /\ cycle'[h] = cycle[h] + 1
      BY <1>1, <1>4, CycleExtends DEF CycleMade
    <3>2. cycle'[h] <= Len(hist'[h])
      BY <1>1, <3>1, HistLength DEF Numbered
    <3> QED BY <1>4, <3>2 DEF Numbered, CycleMade
  <2>2. job'[h].step = "samples" /\ job'[h].ts = clock
    BY <1>4 DEF CycleMade
  <2>3. \A r \in job'[h].rows : r.sample.host = h /\ r.sample.ts = clock
    <3> SUFFICES ASSUME NEW r \in job'[h].rows
                 PROVE  r.sample.host = h /\ r.sample.ts = clock
      OBVIOUS
    <3>1. PICK c \in listed : r.sample = [host |-> h, name |-> c,
                                         n |-> Len(hist[h]) + 1, ts |-> clock]
      BY <1>4 DEF CycleMade
    <3> QED BY <3>1
  <2>4. \A t \in job'[h].flushed : t.sample.host = h
    BY <1>4 DEF CycleMade, Flushed, Base, OnceInv, OwnOpen
  <2>5. JobShape'
    BY <1>4, <2>2, <2>3, <2>4 DEF JobShape, CycleMade
  <2> QED BY <2>1, <2>5
<1>5. ASSUME NEW h \in Hosts, JobStep(h),
             job'[h] # NoJob =>
               /\ job'[h].step # "samples" => job'[h].rows = {}
               /\ job'[h].step \in {"prune_raw", "prune_trends"} =>
                    job'[h].flushed = {} /\ job'[h].prune
               /\ job'[h].rows \subseteq job[h].rows
               /\ job'[h].flushed \subseteq job[h].flushed
               /\ job'[h].ts = job[h].ts
      PROVE  JobShape' /\ Numbered'
  BY <1>5 DEF JobStep, JobShape, Numbered
<1>6. ASSUME NEW h \in Hosts, InsertSamples(h) PROVE JobShape' /\ Numbered'
  <2>1. JobStep(h)
    BY <1>1, <1>6, SamplesIn
  <2>2. /\ job'[h].step = "trends" /\ job'[h].rows = {}
        /\ job'[h].flushed = job[h].flushed /\ job'[h].ts = job[h].ts
    BY <1>1, <1>6, SamplesIn
  <2> QED BY <1>5, <2>1, <2>2
<1>7. ASSUME NEW h \in Hosts, InsertTrends(h) PROVE JobShape' /\ Numbered'
  <2>1. JobStep(h) /\ job[h].step = "trends"
    BY <1>1, <1>7, TrendsIn
  <2>2. job[h].rows = {}
    BY <2>1 DEF JobStep, JobShape
  <2>3. job'[h] # NoJob =>
          /\ job'[h].step = "prune_raw" /\ job'[h].rows = job[h].rows
          /\ job'[h].flushed = {} /\ job'[h].prune /\ job'[h].ts = job[h].ts
    BY <1>1, <1>7, TrendsIn
  <2> QED BY <1>5, <2>1, <2>2, <2>3
<1>8. ASSUME NEW h \in Hosts, PruneRaw(h) PROVE JobShape' /\ Numbered'
  <2>1. JobStep(h) /\ job[h].step = "prune_raw"
    BY <1>1, <1>8, RawPruned
  <2>2. job[h].rows = {} /\ job[h].flushed = {} /\ job[h].prune
    BY <2>1 DEF JobStep, JobShape
  <2>3. /\ job'[h].step = "prune_trends" /\ job'[h].rows = job[h].rows
        /\ job'[h].flushed = job[h].flushed /\ job'[h].ts = job[h].ts
        /\ job'[h].prune = job[h].prune
    BY <1>1, <1>8, RawPruned
  <2> QED BY <1>5, <2>1, <2>2, <2>3
<1>9. ASSUME NEW h \in Hosts, PruneTrends(h) \/ PersistFails(h)
      PROVE  JobShape' /\ Numbered'
  <2>1. JobStep(h) /\ job'[h] = NoJob
    BY <1>1, <1>9, TrendsPruned, JobDropped
  <2> QED BY <1>5, <2>1
<1> QED BY <1>1, <1>2, <1>3, <1>4, <1>6, <1>7, <1>8, <1>9, StepCases

-----------------------------------------------------------------------------
(* No reading is lost on its way to the trend table *)

\* A reading is in the open bucket, rolled up, or older than the retention.
Counted(h, s) ==
    \/ s \in acc[h]
    \/ \E t \in Rolled : t.sample = s
    \/ Aged(BucketStart(s.ts), TrendRetention)

\* Accounted, with its cases named.
Ledger ==
    failed = 0 =>
      \A h \in Hosts : \A k \in ThisRun(h) : \A c \in hist[h][k].valued :
        Counted(h, TakenAt(h, c, k))

\* The ledger says that no reading is lost.
LEMMA LedgerIsAccounted == Ledger <=> Accounted
BY DEF Ledger, Accounted, Counted, TakenAt, Rolled

\* A cycle of this run is a cycle of the history.
LEMMA ThisRunIn ==
    ASSUME TypeOK, Numbered, NEW h \in Hosts, NEW k \in ThisRun(h)
    PROVE  k \in 1 .. Len(hist[h])
<1>1. Len(hist[h]) \in Nat /\ cycle[h] \in Nat /\ cycle[h] <= Len(hist[h])
  BY HistLength DEF Numbered
<1> QED BY <1>1 DEF ThisRun

\* Of the cycles of this run after a cycle, the last is the new one.
LEMMA ThisRunGrows ==
    ASSUME TypeOK, Numbered, NEW h \in Hosts, NEW listed, NEW valued,
           CycleMade(h, listed, valued), NEW g \in Hosts, NEW k \in ThisRun(g)'
    PROVE  \/ g = h /\ k = Len(hist[h]) + 1
           \/ /\ k \in ThisRun(g) /\ k \in 1 .. Len(hist[g])
              /\ hist'[g][k] = hist[g][k]
<1>1. Len(hist[g]) \in Nat /\ cycle[g] \in Nat
  BY HistLength
<1>2. CASE g = h
  <2>1. Len(hist'[h]) = Len(hist[h]) + 1 /\ cycle'[h] = cycle[h] + 1
    BY CycleExtends DEF CycleMade
  <2>2. k \in ThisRun(h) \/ k = Len(hist[h]) + 1
    BY <1>1, <1>2, <2>1 DEF ThisRun
  <2>3. k \in ThisRun(h) => k \in 1 .. Len(hist[h])
    BY ThisRunIn
  <2> QED BY <1>2, <2>2, <2>3, CycleExtends
<1>3. CASE g # h
  <2>1. hist'[g] = hist[g] /\ cycle'[g] = cycle[g]
    BY <1>3 DEF CycleMade
  <2>2. k \in ThisRun(g)
    BY <2>1 DEF ThisRun
  <2> QED BY <2>1, <2>2, ThisRunIn
<1> QED BY <1>2, <1>3

\* What has aged stays aged when a cycle is made.
LEMMA AgedStays ==
    ASSUME TypeOK, NEW h \in Hosts, NEW listed, NEW valued,
           CycleMade(h, listed, valued), NEW ts, NEW age, Aged(ts, age)
    PROVE  Aged(ts, age)'
<1>0. PICK g \in Hosts : \E k \in DOMAIN hist[g] : ts + age < hist[g][k].ts
  BY DEF Aged
<1>1. PICK k \in DOMAIN hist[g] : ts + age < hist[g][k].ts
  BY <1>0
<1>2. CASE g # h
  BY <1>1, <1>2 DEF CycleMade, Aged
<1>3. CASE g = h
  <2>1. k \in 1 .. Len(hist[h]) /\ Len(hist[h]) \in Nat
    BY <1>1, <1>3, HistLength
  <2>2. Len(hist'[h]) = Len(hist[h]) + 1 /\ hist'[h][k] = hist[h][k]
    BY <2>1, CycleExtends
  <2>3. hist'[h] = Append(hist[h], [ts |-> clock, valued |-> valued])
    BY DEF CycleMade
  <2>4. DOMAIN hist'[h] = 1 .. Len(hist'[h])
    BY <2>3, HistLength
  <2>5. k \in DOMAIN hist'[h]
    BY <2>1, <2>2, <2>4
  <2> QED BY <1>1, <1>3, <2>2, <2>5 DEF Aged
<1> QED BY <1>2, <1>3

\* A trend row is in no earlier bucket than its reading belongs to, so when
\* the row has expired, so has the bucket of the reading.
LEMMA RowBucket ==
    ASSUME Base, NEW t \in Rolled
    PROVE  /\ BucketStart(t.sample.ts) <= t.bucket
           /\ BucketStart(t.sample.ts) \in Nat /\ t.bucket \in Nat
<1>1. t \in TrendRow
  BY InFlightMember DEF Base, TypeOK, Rolled, Job
<1>2. t.bucket \in Nat /\ t.sample.ts \in Nat
  BY <1>1 DEF TrendRow, Sample
<1>3. t.bucket % BucketMs = 0 /\ t.sample.ts < t.bucket + BucketMs
  BY DEF Base, BoundsInv, BucketBounds, Rolled
<1> DEFINE b == t.bucket
           x == t.sample.ts
           s == BucketStart(x)
<1>4. s \in Nat /\ s <= x /\ s % BucketMs = 0
  BY <1>2, BucketStartBounds
<1>5. s < b + BucketMs
  BY <1>2, <1>3, <1>4, BucketAssumption
<1> HIDE DEF s
<1>6. s <= b
  <2>1. PICK p \in Int : p = s \div BucketMs
    BY <1>4, BucketAssumption
  <2>2. PICK q \in Int : q = b \div BucketMs
    BY <1>2, BucketAssumption
  <2>3. s = BucketMs * p
    BY <1>4, <2>1, BucketAssumption
  <2>4. b = BucketMs * q
    BY <1>2, <1>3, <2>2, BucketAssumption
  <2>5. CASE p <= q
    BY <2>3, <2>4, <2>5, BucketAssumption
  <2>6. CASE q + 1 <= p
    <3>1. BucketMs * (q + 1) <= BucketMs * p
      BY <2>6, BucketAssumption
    <3>2. BucketMs * (q + 1) = BucketMs * q + BucketMs
      BY BucketAssumption
    <3> QED BY <1>5, <2>3, <2>4, <3>1, <3>2, <1>2, <1>4, BucketAssumption
  <2> QED BY <2>5, <2>6
<1> QED BY <1>2, <1>4, <1>6 DEF s

\* There is no reading in the beginning.
LEMMA LedgerInit == Init => Ledger
<1> SUFFICES ASSUME Init PROVE Ledger
  OBVIOUS
<1>1. \A h \in Hosts : cycle[h] = 0 /\ hist[h] = << >>
  BY DEF Init
<1>2. \A h \in Hosts : ThisRun(h) = {}
  BY <1>1 DEF ThisRun
<1> QED BY <1>2 DEF Ledger

\* Every step of the bucketer, the jobs and the process keeps the ledger.
LEMMA LedgerStep ==
    ASSUME Base, JobShape, Numbered, Ledger, [Next]_vars
    PROVE  Ledger'
<1>1. TypeOK
  BY DEF Base
<1>2. CASE IdleStep
  BY <1>2 DEF IdleStep, Ledger, Counted, Rolled, InFlight, Aged, TakenAt, ThisRun
<1>3. ASSUME NEW killed \in BOOLEAN, StopStep(killed) PROVE Ledger'
  <2>1. \A h \in Hosts : cycle'[h] = 0 /\ Len(hist'[h]) \in Nat
    BY <1>1, <1>3, HistLength DEF StopStep
  <2>2. \A h \in Hosts : ThisRun(h)' = {}
    BY <2>1 DEF ThisRun
  <2> QED BY <2>2 DEF Ledger
<1>4. ASSUME NEW h \in Hosts, NEW listed \in SUBSET Names,
             NEW valued \in SUBSET listed, CycleMade(h, listed, valued)
      PROVE  Ledger'
  <2> SUFFICES ASSUME failed' = 0, NEW g \in Hosts, NEW k \in ThisRun(g)',
                      NEW c \in hist'[g][k].valued
               PROVE  Counted(g, TakenAt(g, c, k))'
    BY DEF Ledger
  <2>1. CASE g = h /\ k = Len(hist[h]) + 1
    <3>1. hist'[g][k] = [ts |-> clock, valued |-> valued]
      BY <1>1, <1>4, <2>1, CycleExtends
    <3>2. TakenAt(g, c, k)' = [host |-> h, name |-> c, n |-> Len(hist[h]) + 1,
                               ts |-> clock]
      BY <2>1, <3>1 DEF TakenAt
    <3>3. c \in valued
      BY <3>1
    <3>4. TakenAt(g, c, k)' \in acc'[h]
      BY <1>4, <3>2, <3>3 DEF CycleMade
    <3> QED BY <2>1, <3>4 DEF Counted
  <2>2. CASE /\ k \in ThisRun(g) /\ k \in 1 .. Len(hist[g])
             /\ hist'[g][k] = hist[g][k]
    <3> DEFINE s == TakenAt(g, c, k)
    <3>1. TakenAt(g, c, k)' = s
      BY <2>2 DEF TakenAt
    <3>2. Counted(g, s)
      BY <1>4, <2>2 DEF Ledger, CycleMade
    <3> HIDE DEF s
    <3>3. Rolled \subseteq Rolled'
      <4>1. \A t \in InFlight : t \in InFlight'
        BY <1>4, InFlightMember, InFlightMemberNext DEF CycleMade
      <4> QED BY <1>4, <4>1 DEF Rolled, CycleMade
    <3>4. CASE s \in acc[g]
      <4>1. CASE g # h \/ ~Closing(h, clock)
        BY <1>4, <3>4, <4>1, <3>1 DEF Counted, CycleMade
      <4>2. CASE g = h /\ Closing(h, clock)
        <5>1. [bucket |-> open[h], sample |-> s] \in Flushed(h, clock)
          BY <3>4, <4>2 DEF Flushed
        <5>2. [bucket |-> open[h], sample |-> s] \in InFlight'
          BY <1>4, <5>1, InFlightMemberNext DEF CycleMade
        <5>3. \E t \in Rolled' : t.sample = s
          BY <5>2 DEF Rolled
        <5> QED BY <3>1, <5>3 DEF Counted
      <4> QED BY <4>1, <4>2
    <3>5. CASE \E t \in Rolled : t.sample = s
      BY <3>1, <3>3, <3>5 DEF Counted
    <3>6. CASE Aged(BucketStart(s.ts), TrendRetention)
      <4>1. PICK x : x = BucketStart(s.ts)
        OBVIOUS
      <4>2. Aged(x, TrendRetention)'
        BY <1>1, <1>4, <3>6, <4>1, AgedStays
      <4>3. BucketStart(TakenAt(g, c, k).ts)' = x
        BY <3>1, <4>1 DEF BucketStart
      <4> QED BY <4>2, <4>3 DEF Counted, Aged
    <3> QED BY <3>2, <3>4, <3>5, <3>6 DEF Counted
  <2> QED BY <1>1, <1>4, <2>1, <2>2, ThisRunGrows
<1>5. ASSUME NEW h \in Hosts, JobStep(h), failed' = failed,
             \A t \in Rolled : \/ t \in Rolled'
                               \/ Aged(BucketStart(t.sample.ts), TrendRetention)
      PROVE  Ledger'
  <2> SUFFICES ASSUME failed' = 0, NEW g \in Hosts, NEW k \in ThisRun(g),
                      NEW c \in hist[g][k].valued
               PROVE  Counted(g, TakenAt(g, c, k))'
    BY <1>5 DEF Ledger, JobStep, ThisRun
  <2> DEFINE s == TakenAt(g, c, k)
  <2>1. TakenAt(g, c, k)' = s
    BY <1>5 DEF TakenAt, JobStep
  <2>2. Counted(g, s)
    BY <1>5 DEF Ledger
  <2> HIDE DEF s
  <2>3. acc' = acc /\ hist' = hist
    BY <1>5 DEF JobStep
  <2>4. Aged(BucketStart(s.ts), TrendRetention) => Counted(g, TakenAt(g, c, k))'
    BY <2>1, <2>3 DEF Counted, Aged, BucketStart
  <2> QED BY <1>5, <2>1, <2>2, <2>3, <2>4 DEF Counted
<1>6. ASSUME NEW h \in Hosts, InsertSamples(h) PROVE Ledger'
  <2>1. JobStep(h) /\ failed' = failed /\ trend' = trend
    BY <1>1, <1>6, SamplesIn
  <2>2. job'[h] # NoJob /\ job'[h].flushed = job[h].flushed
    BY <1>1, <1>6, SamplesIn
  <2>3. \A t \in InFlight : t \in InFlight'
    BY <2>1, <2>2, InFlightMember, InFlightMemberNext DEF JobStep
  <2> QED BY <1>5, <2>1, <2>3 DEF Rolled
<1>7. ASSUME NEW h \in Hosts, InsertTrends(h) PROVE Ledger'
  <2>1. JobStep(h) /\ failed' = failed /\ trend' = trend \union job[h].flushed
    BY <1>1, <1>7, TrendsIn
  <2>2. \A t \in InFlight : t \in InFlight' \/ t \in job[h].flushed
    BY <2>1, InFlightMember, InFlightMemberNext DEF JobStep
  <2> QED BY <1>5, <2>1, <2>2 DEF Rolled
<1>8. ASSUME NEW h \in Hosts, PruneRaw(h) PROVE Ledger'
  <2>1. JobStep(h) /\ failed' = failed /\ trend' = trend
    BY <1>1, <1>8, RawPruned
  <2>2. job'[h] # NoJob /\ job'[h].flushed = job[h].flushed
    BY <1>1, <1>8, RawPruned
  <2>3. \A t \in InFlight : t \in InFlight'
    BY <2>1, <2>2, InFlightMember, InFlightMemberNext DEF JobStep
  <2> QED BY <1>5, <2>1, <2>3 DEF Rolled
<1>9. ASSUME NEW h \in Hosts, PruneTrends(h) PROVE Ledger'
  <2>1. /\ JobStep(h) /\ job[h].step = "prune_trends"
        /\ job'[h] = NoJob /\ failed' = failed
        /\ trend' = {t \in trend :
                       Survives(t.bucket, SatSub(job[h].ts, TrendRetention))}
    BY <1>1, <1>9, TrendsPruned
  <2>2. job[h].flushed = {}
    BY <2>1 DEF JobStep, JobShape
  <2>3. \A t \in InFlight : t \in InFlight'
    BY <2>1, <2>2, InFlightMember, InFlightMemberNext DEF JobStep
  <2>4. ASSUME NEW t \in trend, t \notin trend'
        PROVE  Aged(BucketStart(t.sample.ts), TrendRetention)
    <3>1. t.bucket \in Nat /\ BucketStart(t.sample.ts) \in Nat
            /\ BucketStart(t.sample.ts) <= t.bucket
      BY <2>4, RowBucket DEF Rolled
    <3>2. ~Survives(t.bucket, SatSub(job[h].ts, TrendRetention))
      BY <2>1, <2>4
    <3>3. job[h].ts \in Nat
      BY <2>1 DEF JobStep, Job
    <3>4. ~Survives(BucketStart(t.sample.ts), SatSub(job[h].ts, TrendRetention))
      BY <3>1, <3>2, <3>3, RetentionAssumption DEF Survives, SatSub
    <3> QED BY <2>1, <3>1, <3>4, BeforeCutoff, RetentionAssumption
            DEF Base, JobStep
  <2> QED BY <1>5, <2>1, <2>3, <2>4 DEF Rolled
<1>10. ASSUME NEW h \in Hosts, PersistFails(h) PROVE Ledger'
  BY <1>1, <1>10, JobDropped DEF Ledger
<1> QED BY <1>1, <1>2, <1>3, <1>4, <1>6, <1>7, <1>8, <1>9, <1>10, StepCases

\* While no transaction has failed, every reading the running process took is
\* in the open bucket, on its way to the store, in a trend row, or in a bucket
\* older than the trend retention.
THEOREM NoneLost == Spec => []Accounted
<1> DEFINE Inv == Base /\ JobShape /\ Numbered /\ Ledger
<1>1. Init => Inv
  BY BaseInit, ShapeInit, LedgerInit
<1>2. Inv /\ [Next]_vars => Inv'
  BY BaseStep, ShapeStep, LedgerStep
<1>3. Inv => Accounted
  BY LedgerIsAccounted
<1> QED BY <1>1, <1>2, <1>3, PTL DEF Spec

-----------------------------------------------------------------------------
(* The raw history is complete when it is read *)

\* While the clock was never set back, the timestamps of a host rise and none
\* of them, nor any job's, is ahead of the clock.
TimesRise ==
    stepped = 0 => \A h \in Hosts :
        /\ job[h] # NoJob => job[h].ts <= clock
        /\ \A k \in 1 .. Len(hist[h]) :
             /\ hist[h][k].ts <= clock
             /\ \A i \in 1 .. k : hist[h][i].ts <= hist[h][k].ts

\* A reading has its raw row, will have it, or lies further back than the raw
\* retention for some cycle already made.
Held(h, s) ==
    \/ \E r \in raw \union RowsOf(h) : r.sample = s
    \/ Aged(s.ts, RawRetention)

\* A sample read by the running process, and one its host shows live.
ReadBy(h, s) ==
    \E k \in ThisRun(h) : \E c \in hist[h][k].valued : s = TakenAt(h, c, k)
ShownBy(h, s) == shared[h] # NoSnapshot /\ s \in shared[h]

\* Every one of them is of its host and held.
Recorded ==
    failed = 0 => \A h \in Hosts : \A s \in Sample :
        ReadBy(h, s) \/ ShownBy(h, s) => s.host = h /\ Held(h, s)

\* Nothing is recorded in the beginning.
LEMMA RecordInit == Init => TimesRise /\ Recorded
<1> SUFFICES ASSUME Init PROVE TimesRise /\ Recorded
  OBVIOUS
<1>1. \A h \in Hosts : cycle[h] = 0 /\ hist[h] = << >> /\ job[h] = NoJob
                         /\ shared[h] = NoSnapshot
  BY DEF Init
<1>2. \A h \in Hosts : ThisRun(h) = {} /\ 1 .. Len(hist[h]) = {}
  BY <1>1 DEF ThisRun
<1> QED BY <1>1, <1>2 DEF Recorded, TimesRise, ReadBy, ShownBy

\* A job keeps its timestamp as long as it runs.
LEMMA JobTime ==
    ASSUME TypeOK, NEW h \in Hosts,
           \/ InsertSamples(h) \/ InsertTrends(h) \/ PruneRaw(h)
           \/ PruneTrends(h) \/ PersistFails(h)
    PROVE  /\ JobStep(h)
           /\ job'[h] # NoJob => /\ job'[h].ts = job[h].ts
                                 /\ job'[h].prune = job[h].prune
<1>1. CASE InsertSamples(h)
  BY <1>1, SamplesIn
<1>2. CASE InsertTrends(h)
  <2>1. JobStep(h) /\ (~job[h].prune => job'[h] = NoJob)
    BY <1>2, TrendsIn
  <2>2. job[h].prune => job'[h].prune /\ job'[h].ts = job[h].ts
    BY <1>2, TrendsIn
  <2> QED BY <2>1, <2>2
<1>3. CASE PruneRaw(h)
  BY <1>3, RawPruned
<1>4. CASE PruneTrends(h) \/ PersistFails(h)
  BY <1>4, TrendsPruned, JobDropped
<1> QED BY <1>1, <1>2, <1>3, <1>4

\* Every step keeps the times in order, unless the clock is set back.
LEMMA TimesStep ==
    ASSUME TypeOK, TypeOK', TimesRise, [Next]_vars
    PROVE  TimesRise'
<1>1. clock \in Nat /\ clock' \in Nat
  BY DEF TypeOK
<1>2. \A h \in Hosts : job[h] # NoJob => job[h].ts \in Nat
  BY JobTypes DEF Job
<1>3. CASE IdleStep
  <2> SUFFICES ASSUME stepped' = 0, NEW h \in Hosts
               PROVE  /\ job[h] # NoJob => job[h].ts <= clock'
                      /\ \A k \in 1 .. Len(hist[h]) :
                           /\ hist[h][k].ts <= clock'
                           /\ \A i \in 1 .. k : hist[h][i].ts <= hist[h][k].ts
    BY <1>3 DEF IdleStep, TimesRise
  <2>1. stepped = 0 /\ clock <= clock'
    BY <1>3 DEF IdleStep
  <2>2. \A k \in 1 .. Len(hist[h]) : hist[h][k].ts \in Nat
    BY HistLength
  <2> QED BY <1>1, <1>2, <2>1, <2>2 DEF TimesRise
<1>4. ASSUME NEW killed \in BOOLEAN, StopStep(killed) PROVE TimesRise'
  BY <1>4 DEF StopStep, TimesRise
<1>5. ASSUME NEW h \in Hosts, NEW listed \in SUBSET Names,
             NEW valued \in SUBSET listed, CycleMade(h, listed, valued)
      PROVE  TimesRise'
  <2> SUFFICES ASSUME stepped' = 0, NEW g \in Hosts
               PROVE  /\ job'[g] # NoJob => job'[g].ts <= clock
                      /\ \A k \in 1 .. Len(hist'[g]) :
                           /\ hist'[g][k].ts <= clock
                           /\ \A i \in 1 .. k : hist'[g][i].ts <= hist'[g][k].ts
    BY <1>5 DEF TimesRise, CycleMade
  <2>1. stepped = 0
    BY <1>5 DEF CycleMade
  <2>2. CASE g # h
    BY <1>5, <2>1, <2>2 DEF TimesRise, CycleMade
  <2>3. CASE g = h
    <3>1. job'[h].ts = clock
      BY <1>5 DEF CycleMade
    <3> DEFINE l == Len(hist[h])
    <3>2. /\ Len(hist'[h]) = l + 1 /\ hist'[h][l + 1].ts = clock
          /\ \A k \in 1 .. l : hist'[h][k] = hist[h][k]
      <4>1. hist'[h][l + 1] = [ts |-> clock, valued |-> valued]
        BY <1>5, CycleExtends
      <4>2. hist'[h][l + 1].ts = clock
        BY <4>1
      <4>3. /\ Len(hist'[h]) = l + 1
            /\ \A k \in 1 .. l : hist'[h][k] = hist[h][k]
        BY <1>5, CycleExtends
      <4> QED BY <4>2, <4>3
    <3>3. l \in Nat
      BY HistLength
    <3>4. \A k \in 1 .. l : /\ hist[h][k].ts <= clock
                            /\ \A i \in 1 .. k : hist[h][i].ts <= hist[h][k].ts
      BY <2>1 DEF TimesRise
    <3> HIDE DEF l
    <3>5. ASSUME NEW k \in 1 .. l + 1
          PROVE  /\ hist'[h][k].ts <= clock
                 /\ \A i \in 1 .. k : hist'[h][i].ts <= hist'[h][k].ts
      <4>1. CASE k = l + 1
        BY <1>1, <3>2, <3>3, <3>4, <3>5, <4>1
      <4>2. CASE k \in 1 .. l
        BY <3>2, <3>3, <3>4, <4>2
      <4> QED BY <3>3, <3>5, <4>1, <4>2
    <3> QED BY <1>1, <2>3, <3>1, <3>2, <3>5
  <2> QED BY <2>2, <2>3
<1>6. ASSUME NEW h \in Hosts,
             \/ InsertSamples(h) \/ InsertTrends(h) \/ PruneRaw(h)
             \/ PruneTrends(h) \/ PersistFails(h)
      PROVE  TimesRise'
  <2>1. JobStep(h) /\ (job'[h] # NoJob => job'[h].ts = job[h].ts)
    BY <1>6, JobTime
  <2> QED BY <2>1 DEF TimesRise, JobStep
<1> QED BY <1>3, <1>4, <1>5, <1>6, StepCases

\* Every step keeps what is recorded.
LEMMA RecordStep ==
    ASSUME Base, Base', JobShape, Numbered, Recorded, [Next]_vars
    PROVE  Recorded'
<1>1. TypeOK
  BY DEF Base
<1>3. ASSUME failed' = 0 => failed = 0,
             NEW g \in Hosts, NEW s \in Sample, failed' = 0,
             ReadBy(g, s) \/ ShownBy(g, s), Held(g, s) => Held(g, s)'
      PROVE  s.host = g /\ Held(g, s)'
  BY <1>3 DEF Recorded
<1>4. CASE IdleStep
  <2>2. failed' = failed
    BY <1>4 DEF IdleStep
  <2> SUFFICES ASSUME failed' = 0, NEW g \in Hosts,
                      NEW s \in Sample, ReadBy(g, s)' \/ ShownBy(g, s)'
               PROVE  s.host = g /\ Held(g, s)'
    BY DEF Recorded
  <2>3. ReadBy(g, s) \/ ShownBy(g, s)
    BY <1>4 DEF IdleStep, ReadBy, ShownBy, ThisRun, TakenAt
  <2>4. Held(g, s) => Held(g, s)'
    BY <1>4 DEF IdleStep, Held, RowsOf, Aged
  <2> QED BY <1>3, <2>2, <2>3, <2>4
<1>5. ASSUME NEW killed \in BOOLEAN, StopStep(killed) PROVE Recorded'
  <2>1. \A h \in Hosts : cycle'[h] = 0 /\ Len(hist'[h]) \in Nat
    BY <1>1, <1>5, HistLength DEF StopStep
  <2>2. \A h \in Hosts : ThisRun(h)' = {} /\ shared'[h] = NoSnapshot
    BY <1>5, <2>1 DEF ThisRun, StopStep
  <2> QED BY <2>2 DEF Recorded, ReadBy, ShownBy
<1>6. ASSUME NEW h \in Hosts, NEW listed \in SUBSET Names,
             NEW valued \in SUBSET listed, CycleMade(h, listed, valued)
      PROVE  Recorded'
  <2>1. failed' = failed /\ raw' = raw
    BY <1>6 DEF CycleMade
  <2> SUFFICES ASSUME failed' = 0, NEW g \in Hosts,
                      NEW s \in Sample, ReadBy(g, s)' \/ ShownBy(g, s)'
               PROVE  s.host = g /\ Held(g, s)'
    BY DEF Recorded
  <2> DEFINE sample(c) == [host |-> h, name |-> c, n |-> Len(hist[h]) + 1,
                           ts |-> clock]
  <2>2. \/ ReadBy(g, s) \/ ShownBy(g, s)
        \/ g = h /\ \E c \in listed : s = sample(c)
    <3>1. CASE ReadBy(g, s)'
      <4>1. PICK k \in ThisRun(g)' : \E c \in hist'[g][k].valued :
                                       s = TakenAt(g, c, k)'
        BY <3>1 DEF ReadBy
      <4>2. PICK c \in hist'[g][k].valued : s = TakenAt(g, c, k)'
        BY <4>1
      <4>3. CASE g = h /\ k = Len(hist[h]) + 1
        <5>1. hist'[g][k] = [ts |-> clock, valued |-> valued]
          BY <1>1, <1>6, <4>3, CycleExtends
        <5>2. c \in listed
          BY <4>2, <5>1
        <5>3. s = sample(c)
          BY <4>2, <4>3, <5>1 DEF TakenAt
        <5> QED BY <4>3, <5>2, <5>3
      <4>4. CASE k \in ThisRun(g) /\ hist'[g][k] = hist[g][k]
        BY <4>2, <4>4 DEF ReadBy, TakenAt
      <4>5. \/ k \in ThisRun(g) /\ hist'[g][k] = hist[g][k]
            \/ g = h /\ k = Len(hist[h]) + 1
        BY <1>1, <1>6, <4>1, ThisRunGrows
      <4> HIDE DEF sample
      <4> QED BY <4>3, <4>4, <4>5
    <3>2. CASE ShownBy(g, s)'
      BY <1>6, <3>2 DEF ShownBy, CycleMade
    <3> QED BY <3>1, <3>2
  <2>3. Held(g, s) => Held(g, s)'
    <3>1. RowsOf(g) \subseteq RowsOf(g)'
      BY <1>6 DEF CycleMade, RowsOf
    <3>2. Aged(s.ts, RawRetention) => Aged(s.ts, RawRetention)'
      BY <1>1, <1>6, AgedStays
    <3> QED BY <2>1, <3>1, <3>2 DEF Held
  <2>4. ASSUME g = h, NEW c \in listed, s = sample(c)
        PROVE  s.host = g /\ Held(g, s)'
    <3>1. \E r \in job'[h].rows : r.sample = s
      BY <1>6, <2>4 DEF CycleMade
    <3>2. RowsOf(h)' = job'[h].rows
      BY <1>6 DEF RowsOf, CycleMade
    <3> QED BY <2>4, <3>1, <3>2 DEF Held
  <2> HIDE DEF sample
  <2> QED BY <1>3, <2>1, <2>2, <2>3, <2>4
<1>7. ASSUME NEW h \in Hosts, JobStep(h), failed' = failed,
             \A r \in raw : r \in raw' \/ Aged(r.sample.ts, RawRetention),
             RowsOf(h) \subseteq raw' \union RowsOf(h)'
      PROVE  Recorded'
  <2>1. UNCHANGED <<cycle, shared, hist, clock, stepped>>
    BY <1>7 DEF JobStep
  <2> SUFFICES ASSUME failed' = 0, NEW g \in Hosts,
                      NEW s \in Sample, ReadBy(g, s)' \/ ShownBy(g, s)'
               PROVE  s.host = g /\ Held(g, s)'
    BY DEF Recorded
  <2>2. ReadBy(g, s) \/ ShownBy(g, s)
    BY <2>1 DEF ReadBy, ShownBy, ThisRun, TakenAt
  <2>3. RowsOf(g) \subseteq raw' \union RowsOf(g)'
    BY <1>7 DEF JobStep, RowsOf
  <2>4. Held(g, s) => Held(g, s)'
    <3>0. Aged(s.ts, RawRetention) => Aged(s.ts, RawRetention)'
      BY <2>1 DEF Aged
    <3>1. CASE Aged(s.ts, RawRetention)
      BY <3>0, <3>1 DEF Held
    <3>2. ASSUME NEW r \in raw \union RowsOf(g), r.sample = s PROVE Held(g, s)'
      BY <1>7, <2>3, <3>0, <3>2 DEF Held
    <3> QED BY <3>1, <3>2 DEF Held
  <2> QED BY <1>3, <1>7, <2>1, <2>2, <2>4
<1>8. ASSUME NEW h \in Hosts, InsertSamples(h) PROVE Recorded'
  <2>1. JobStep(h) /\ failed' = failed /\ raw' = raw \union job[h].rows
    BY <1>1, <1>8, SamplesIn
  <2> QED BY <1>7, <2>1 DEF RowsOf, JobStep
<1>9. ASSUME NEW h \in Hosts, InsertTrends(h) PROVE Recorded'
  <2>1. JobStep(h) /\ failed' = failed /\ raw' = raw /\ job[h].step = "trends"
    BY <1>1, <1>9, TrendsIn
  <2>2. RowsOf(h) = {}
    BY <2>1 DEF RowsOf, JobStep, JobShape
  <2> QED BY <1>7, <2>1, <2>2
<1>10. ASSUME NEW h \in Hosts, PruneRaw(h) PROVE Recorded'
  <2>1. /\ JobStep(h) /\ failed' = failed /\ job[h].step = "prune_raw"
        /\ raw' = {r \in raw :
                     Survives(r.sample.ts, SatSub(job[h].ts, RawRetention))}
    BY <1>1, <1>10, RawPruned
  <2>2. RowsOf(h) = {}
    BY <2>1 DEF RowsOf, JobStep, JobShape
  <2>3. ASSUME NEW r \in raw, r \notin raw'
        PROVE  Aged(r.sample.ts, RawRetention)
    <3>1. r.sample.ts \in Nat
      BY <1>1, <2>3 DEF TypeOK, RawRow, Sample
    <3>2. ~Survives(r.sample.ts, SatSub(job[h].ts, RawRetention))
      BY <2>1, <2>3
    <3>3. JobStamped /\ job[h] # NoJob
      BY <2>1 DEF Base, JobStep
    <3> QED BY <1>1, <3>1, <3>2, <3>3, BeforeCutoff, RetentionAssumption
  <2> QED BY <1>7, <2>1, <2>2, <2>3
<1>11. ASSUME NEW h \in Hosts, PruneTrends(h) PROVE Recorded'
  <2>1. /\ JobStep(h) /\ failed' = failed /\ raw' = raw
        /\ job[h].step = "prune_trends"
    BY <1>1, <1>11, TrendsPruned
  <2>2. RowsOf(h) = {}
    BY <2>1 DEF RowsOf, JobStep, JobShape
  <2> QED BY <1>7, <2>1, <2>2
<1>12. ASSUME NEW h \in Hosts, PersistFails(h) PROVE Recorded'
  BY <1>1, <1>12, JobDropped DEF Recorded
<1> QED BY <1>1, <1>4, <1>5, <1>6, <1>8, <1>9, <1>10, <1>11, <1>12, StepCases

\* A raw query was let begin no further back than the raw retention.
Entitled == query # NoQuery => query.asked <= query.since + RawRetention

\* No query waits in the beginning.
LEMMA EntitledInit == Init => Entitled
BY DEF Init, Entitled

\* A query keeps its window and the time it was decided at.
LEMMA EntitledStep == TypeOK /\ Entitled /\ [Next]_vars => Entitled'
<1> SUFFICES ASSUME TypeOK, Entitled, [Next]_vars PROVE Entitled'
  OBVIOUS
<1>1. CASE query' = query \/ query' = NoQuery
  BY <1>1 DEF Entitled
<1>2. ASSUME NEW h \in Hosts, NEW c \in Names, NEW since \in 0 .. clock,
             NEW until, ResolveHistory(h, c, since, until)
      PROVE  Entitled'
  <2>1. query'.since = since /\ query'.asked = clock
    BY <1>2 DEF ResolveHistory
  <2>2. since >= SatSub(clock, RawRetention)
    BY <1>2 DEF ResolveHistory, ServedRaw
  <2>3. clock \in Nat /\ since \in Nat
    BY DEF TypeOK
  <2>4. clock <= since + RawRetention
    BY <2>2, <2>3, RetentionAssumption DEF SatSub
  <2> QED BY <2>1, <2>4 DEF Entitled
<1>3. CASE \/ Advance \/ StepBack \/ Restart \/ Shutdown \/ Kill
           \/ AnswerHistory \/ UNCHANGED vars
  BY <1>1, <1>3 DEF Advance, StepBack, Restart, Shutdown, Kill, MemoryLost,
                    AnswerHistory, vars
<1>4. ASSUME NEW h \in Hosts,
             \/ Prime(h) \/ InsertSamples(h) \/ InsertTrends(h) \/ PruneRaw(h)
             \/ PruneTrends(h) \/ PersistFails(h)
             \/ \E listed \in SUBSET Names : \E valued \in SUBSET listed :
                  Collect(h, listed, valued)
      PROVE  Entitled'
  BY <1>1, <1>4 DEF Prime, InsertSamples, InsertTrends, PruneRaw, PruneTrends,
                    PersistFails, Collect
<1> QED BY <1>2, <1>3, <1>4 DEF Next

\* What is due to a query is recorded, so it is in the table, about to be, or
\* aged; and what aged lay inside the window, so it aged after the decision.
LEMMA RecordedIsComplete ==
    ASSUME TypeOK, Numbered, Recorded, Entitled
    PROVE  RawHistoryComplete
<1> SUFFICES ASSUME query # NoQuery, failed = 0, NEW s \in Due(query)
             PROVE  \/ s \in RawHistory(query)
                    \/ s \in {r.sample : r \in RowsOf(query.host)}
                    \/ AgedSince(query, s.ts)
  BY DEF RawHistoryComplete
<1> DEFINE h == query.host
           c == query.name
<1>1. /\ h \in Hosts /\ c \in Names /\ query.since \in Nat
      /\ query.until \in Nat /\ query.asked \in Nat
  BY DEF TypeOK, Query
<1>2. /\ query.since <= s.ts /\ s.ts <= query.until
      /\ \/ \E k \in {i \in ThisRun(h) : c \in hist[h][i].valued} :
              s = [host |-> h, name |-> c, n |-> k, ts |-> hist[h][k].ts]
         \/ shared[h] # NoSnapshot /\ s \in shared[h] /\ s.name = c
  BY DEF Due
<1> HIDE DEF h, c
<1>3. s \in Sample /\ s.name = c /\ (ReadBy(h, s) \/ ShownBy(h, s))
  <2>1. ASSUME NEW k \in ThisRun(h), c \in hist[h][k].valued,
               s = [host |-> h, name |-> c, n |-> k, ts |-> hist[h][k].ts]
        PROVE  s \in Sample /\ s.name = c /\ ReadBy(h, s)
    <3>1. k \in 1 .. Len(hist[h]) /\ hist[h][k].ts \in Nat /\ Len(hist[h]) \in Nat
      BY <1>1, <2>1, ThisRunIn, HistLength
    <3> QED BY <1>1, <2>1, <3>1 DEF Sample, ReadBy, TakenAt
  <2>2. ASSUME shared[h] # NoSnapshot, s \in shared[h]
        PROVE  s \in Sample /\ ShownBy(h, s)
    BY <1>1, <2>2 DEF TypeOK, ShownBy
  <2> QED BY <1>2, <2>1, <2>2
<1>4. s.host = h /\ Held(h, s) /\ s.ts \in Nat
  BY <1>1, <1>3 DEF Recorded, Sample
<1>5. ASSUME NEW r \in raw, r.sample = s PROVE s \in RawHistory(query)
  BY <1>2, <1>3, <1>4, <1>5 DEF RawHistory, h, c
<1>6. ASSUME NEW r \in RowsOf(h), r.sample = s
      PROVE  s \in {q.sample : q \in RowsOf(query.host)}
  BY <1>6 DEF h
<1>7. ASSUME Aged(s.ts, RawRetention) PROVE AgedSince(query, s.ts)
  <2>1. PICK g \in Hosts : \E k \in DOMAIN hist[g] :
                             s.ts + RawRetention < hist[g][k].ts
    BY <1>7 DEF Aged
  <2>2. PICK k \in DOMAIN hist[g] : s.ts + RawRetention < hist[g][k].ts
    BY <2>1
  <2>3. hist[g][k].ts \in Nat
    BY HistLength DEF TypeOK
  <2>4. query.asked <= query.since + RawRetention
    BY DEF Entitled
  <2>5. query.asked < hist[g][k].ts
    BY <1>1, <1>2, <1>4, <2>2, <2>3, <2>4, RetentionAssumption
  <2> QED BY <2>2, <2>5 DEF AgedSince
<1> QED BY <1>4, <1>5, <1>6, <1>7 DEF Held

\* Whenever a raw query gets at the store, it lacks no reading of this run and
\* nothing the live page shows, but for rows about to be inserted and rows that
\* aged after the request was decided.
THEOREM RawHistoryHolds == Spec => []RawHistoryComplete
<1> DEFINE Inv == Base /\ JobShape /\ Numbered /\ Recorded /\ Entitled
<1>1. Init => Inv
  BY BaseInit, ShapeInit, RecordInit, EntitledInit
<1>2. Inv /\ [Next]_vars => Inv'
  <2> SUFFICES ASSUME Inv, [Next]_vars PROVE Inv'
    OBVIOUS
  <2>1. Base' /\ JobShape' /\ Numbered'
    BY BaseStep, ShapeStep
  <2>2. Recorded'
    BY <2>1, RecordStep
  <2>3. Entitled'
    BY EntitledStep DEF Base
  <2> QED BY <2>1, <2>2, <2>3
<1>3. Inv => RawHistoryComplete
  BY RecordedIsComplete DEF Base
<1> QED BY <1>1, <1>2, <1>3, PTL DEF Spec

-----------------------------------------------------------------------------
(* Raw rows do not outlive their retention *)

\* The prune cadence is at least one cycle, whatever the intervals are.
LEMMA CadencePositive == PruneCadence \in Nat /\ PruneCadence >= 1
<1> DEFINE floored == IF IntervalSecs >= 1 THEN IntervalSecs ELSE 1
<1>1. floored \in Nat \ {0}
  BY CadenceAssumption
<1> HIDE DEF floored
<1>2. PruneSecs \div floored \in Nat
  BY <1>1, CadenceAssumption
<1> QED BY <1>2 DEF PruneCadence, floored

\* Within a cadence, remainders count up by one.
LEMMA RemainderStep ==
    ASSUME NEW m \in Nat, m >= 1, NEW i \in Nat
    PROVE  /\ i % m \in Nat /\ i % m < m /\ i % m <= i
           /\ 0 % m = 0
           /\ i % m # 0 => i >= 1 /\ (i - 1) % m = (i % m) - 1
<1>1. i % m \in Nat /\ i % m < m /\ i % m <= i /\ 0 % m = 0
  OBVIOUS
<1>2. ASSUME i % m # 0 PROVE i >= 1 /\ (i - 1) % m = (i % m) - 1
  <2>1. i >= 1
    BY <1>1, <1>2
  <2>2. PICK q \in Nat : q = i \div m
    OBVIOUS
  <2>3. PICK p \in Nat : p = (i - 1) \div m
    BY <2>1
  <2>4. PICK r \in Nat : r = i % m /\ r < m /\ r >= 1
    BY <1>1, <1>2
  <2>5. PICK s \in Nat : s = (i - 1) % m /\ s < m
    BY <2>1
  <2>6. i = m * q + r
    BY <2>2, <2>4
  <2>7. i - 1 = m * p + s
    BY <2>1, <2>3, <2>5
  <2>8. p = q
    <3>1. CASE p + 1 <= q
      <4>1. m * (p + 1) <= m * q /\ m * (p + 1) = m * p + m
        BY <3>1
      <4> QED BY <2>4, <2>5, <2>6, <2>7, <4>1
    <3>2. CASE q + 1 <= p
      <4>1. m * (q + 1) <= m * p /\ m * (q + 1) = m * q + m
        BY <3>2
      <4> QED BY <2>4, <2>5, <2>6, <2>7, <4>1
    <3> QED BY <3>1, <3>2
  <2>9. s = r - 1
    BY <2>6, <2>7, <2>8
  <2> QED BY <2>1, <2>4, <2>5, <2>9
<1> QED BY <1>1, <1>2

\* The job of a host is about its last cycle, and prunes when that is due.
JobIsLast ==
    \A h \in Hosts : job[h] # NoJob /\ cycle[h] > 0 =>
        /\ job[h].ts = hist[h][Len(hist[h])].ts
        /\ job[h].prune = ((cycle[h] - 1) % PruneCadence = 0)

\* The cycle, in the host's history, whose job pruned last.
LastPrune(h) == Len(hist[h]) - ((cycle[h] - 1) % PruneCadence)

\* The job of a host is still to prune the raw rows.
PruneAhead(h) ==
    job[h] # NoJob /\ job[h].prune /\ job[h].step # "prune_trends"

\* A row of a host that has survived its last prune had not expired then.
Swept ==
    failed = 0 /\ stepped = 0 =>
      \A h \in Hosts : cycle[h] > 0 /\ ~PruneAhead(h) =>
        \A r \in raw : r.sample.host = h =>
          hist[h][LastPrune(h)].ts <= r.sample.ts + RawRetention

\* Nothing is left to sweep in the beginning.
LEMMA SweptInit == Init => JobIsLast /\ Swept
<1> SUFFICES ASSUME Init PROVE JobIsLast /\ Swept
  OBVIOUS
<1>1. \A h \in Hosts : cycle[h] = 0
  BY DEF Init
<1> QED BY <1>1 DEF JobIsLast, Swept

\* Every step keeps a job the one of its host's last cycle.
LEMMA LastStep ==
    ASSUME TypeOK, JobIsLast, [Next]_vars
    PROVE  JobIsLast'
<1>1. CASE IdleStep
  BY <1>1 DEF IdleStep, JobIsLast
<1>2. ASSUME NEW killed \in BOOLEAN, StopStep(killed) PROVE JobIsLast'
  BY <1>2 DEF StopStep, JobIsLast
<1>3. ASSUME NEW h \in Hosts, NEW listed \in SUBSET Names,
             NEW valued \in SUBSET listed, CycleMade(h, listed, valued)
      PROVE  JobIsLast'
  <2>1. /\ Len(hist'[h]) = Len(hist[h]) + 1
        /\ hist'[h][Len(hist[h]) + 1] = [ts |-> clock, valued |-> valued]
    BY <1>3, CycleExtends
  <2>2. hist'[h][Len(hist'[h])].ts = clock
    BY <2>1
  <2>3. job'[h].ts = clock /\ cycle'[h] - 1 = cycle[h]
    <3>1. cycle[h] \in Nat
      BY DEF TypeOK
    <3> QED BY <1>3, <3>1 DEF CycleMade
  <2>4. job'[h].prune = ((cycle'[h] - 1) % PruneCadence = 0)
    BY <1>3, <2>3 DEF CycleMade
  <2> QED BY <1>3, <2>2, <2>3, <2>4 DEF JobIsLast, CycleMade
<1>4. ASSUME NEW h \in Hosts,
             \/ InsertSamples(h) \/ InsertTrends(h) \/ PruneRaw(h)
             \/ PruneTrends(h) \/ PersistFails(h)
      PROVE  JobIsLast'
  BY <1>4, JobTime DEF JobIsLast, JobStep
<1> QED BY <1>1, <1>2, <1>3, <1>4, StepCases

\* The cycle of the last prune is one of this run's.
LEMMA LastPruneIn ==
    ASSUME TypeOK, Numbered, NEW h \in Hosts, cycle[h] > 0
    PROVE  /\ LastPrune(h) \in 1 .. Len(hist[h])
           /\ Len(hist[h]) - LastPrune(h) < PruneCadence
<1>1. /\ cycle[h] \in Nat /\ Len(hist[h]) \in Nat
      /\ cycle[h] <= Len(hist[h])
  BY HistLength DEF Numbered
<1>2. PICK i \in Nat : i = cycle[h] - 1
  BY <1>1
<1>3. i % PruneCadence \in Nat /\ i % PruneCadence < PruneCadence
        /\ i % PruneCadence <= i
  BY CadencePositive, RemainderStep
<1> QED BY <1>1, <1>2, <1>3, CadencePositive DEF LastPrune

\* Every step keeps what the prunes left.
LEMMA SweptStep ==
    ASSUME Base, JobShape, Numbered, TimesRise, JobIsLast, Swept, [Next]_vars
    PROVE  Swept'
<1>1. TypeOK
  BY DEF Base
<1>2. CASE IdleStep
  BY <1>2 DEF IdleStep, Swept, PruneAhead, LastPrune
<1>3. ASSUME NEW killed \in BOOLEAN, StopStep(killed) PROVE Swept'
  BY <1>3 DEF StopStep, Swept
<1>4. ASSUME NEW h \in Hosts, NEW listed \in SUBSET Names,
             NEW valued \in SUBSET listed, CycleMade(h, listed, valued)
      PROVE  Swept'
  <2>1. failed' = failed /\ stepped' = stepped /\ raw' = raw
    BY <1>4 DEF CycleMade
  <2> SUFFICES ASSUME failed = 0, stepped = 0, NEW g \in Hosts,
                      cycle'[g] > 0, ~PruneAhead(g)',
                      NEW r \in raw, r.sample.host = g
               PROVE  hist'[g][LastPrune(g)'].ts <= r.sample.ts + RawRetention
    BY <2>1 DEF Swept
  <2>2. CASE g # h
    BY <1>4, <2>2 DEF CycleMade, Swept, PruneAhead, LastPrune
  <2>3. CASE g = h
    <3>1. cycle[h] \in Nat /\ cycle'[h] = cycle[h] + 1 /\ Len(hist[h]) \in Nat
      BY <1>1, <1>4, HistLength DEF CycleMade
    <3>2. cycle[h] % PruneCadence # 0
      BY <1>4, <2>3 DEF CycleMade, PruneAhead
    <3>3. /\ cycle[h] >= 1
          /\ (cycle[h] - 1) % PruneCadence = (cycle[h] % PruneCadence) - 1
          /\ cycle[h] % PruneCadence \in Nat
      BY <3>1, <3>2, CadencePositive, RemainderStep
    <3>4. LastPrune(h)' = LastPrune(h)
      <4>1. Len(hist'[h]) = Len(hist[h]) + 1
        BY <1>1, <1>4, CycleExtends
      <4>2. (cycle'[h] - 1) = cycle[h]
        BY <3>1
      <4> QED BY <3>1, <3>3, <4>1, <4>2 DEF LastPrune
    <3>5. LastPrune(h) \in 1 .. Len(hist[h]) /\ cycle[h] > 0
      BY <1>1, <3>1, <3>3, LastPruneIn
    <3>6. hist'[h][LastPrune(h)] = hist[h][LastPrune(h)]
      BY <1>1, <1>4, <3>5, CycleExtends
    <3>7. ~PruneAhead(h)
      BY <1>4 DEF CycleMade, PruneAhead
    <3> QED BY <2>3, <3>4, <3>5, <3>6, <3>7 DEF Swept
  <2> QED BY <2>2, <2>3
<1>5. ASSUME NEW h \in Hosts, JobStep(h), failed' = failed,
             \A r \in raw' : r.sample.host # h => r \in raw,
             failed = 0 /\ stepped = 0 /\ cycle[h] > 0 /\ ~PruneAhead(h)' =>
               \A r \in raw' : r.sample.host = h =>
                 hist[h][LastPrune(h)].ts <= r.sample.ts + RawRetention
      PROVE  Swept'
  <2>1. UNCHANGED <<cycle, hist, stepped>>
    BY <1>5 DEF JobStep
  <2> SUFFICES ASSUME failed = 0, stepped = 0, NEW g \in Hosts,
                      cycle[g] > 0, ~PruneAhead(g)',
                      NEW r \in raw', r.sample.host = g
               PROVE  hist[g][LastPrune(g)].ts <= r.sample.ts + RawRetention
    BY <1>5, <2>1 DEF Swept, LastPrune
  <2>2. CASE g = h
    BY <1>5, <2>2
  <2>3. CASE g # h
    <3>1. ~PruneAhead(g)
      BY <1>5, <2>3 DEF JobStep, PruneAhead
    <3> QED BY <1>5, <2>3, <3>1 DEF Swept
  <2> QED BY <2>2, <2>3
<1>6. ASSUME NEW h \in Hosts, InsertSamples(h) PROVE Swept'
  <2>1. JobStep(h) /\ failed' = failed /\ raw' = raw \union job[h].rows
          /\ job[h].step = "samples"
    BY <1>1, <1>6, SamplesIn
  <2>2. job'[h] # NoJob /\ job'[h].prune = job[h].prune /\ job'[h].step = "trends"
    BY <1>1, <1>6, SamplesIn
  <2>3. \A r \in job[h].rows : r.sample.host = h /\ r.sample.ts = job[h].ts
    BY <2>1 DEF JobStep, JobShape
  <2>4. ASSUME failed = 0, stepped = 0, cycle[h] > 0, ~PruneAhead(h)',
               NEW r \in raw', r.sample.host = h
        PROVE  hist[h][LastPrune(h)].ts <= r.sample.ts + RawRetention
    <3>1. CASE r \in raw
      <4>1. ~PruneAhead(h)
        BY <2>1, <2>2, <2>4 DEF PruneAhead, JobStep
      <4> QED BY <2>4, <3>1, <4>1 DEF Swept
    <3>2. CASE r \in job[h].rows
      <4>1. r.sample.ts = hist[h][Len(hist[h])].ts
        BY <2>1, <2>3, <2>4, <3>2 DEF JobStep, JobIsLast
      <4>2. LastPrune(h) \in 1 .. Len(hist[h]) /\ Len(hist[h]) \in Nat
        BY <1>1, <2>4, LastPruneIn, HistLength
      <4>3. Len(hist[h]) \in 1 .. Len(hist[h])
        BY <4>2
      <4>4. hist[h][LastPrune(h)].ts <= hist[h][Len(hist[h])].ts
        BY <2>4, <4>2, <4>3 DEF TimesRise
      <4>5. hist[h][LastPrune(h)].ts \in Nat /\ hist[h][Len(hist[h])].ts \in Nat
        BY <1>1, <4>2, <4>3, HistLength
      <4> QED BY <4>1, <4>4, <4>5, RetentionAssumption
    <3> QED BY <2>1, <2>4, <3>1, <3>2
  <2> QED BY <1>5, <2>1, <2>3, <2>4
<1>7. ASSUME NEW h \in Hosts, InsertTrends(h) PROVE Swept'
  <2>1. JobStep(h) /\ failed' = failed /\ raw' = raw /\ job[h].step = "trends"
    BY <1>1, <1>7, TrendsIn
  <2>2. job[h].prune => PruneAhead(h)'
    <3>1. job[h].prune => /\ job'[h] # NoJob /\ job'[h].prune
                          /\ job'[h].step = "prune_raw"
      BY <1>1, <1>7, TrendsIn
    <3> QED BY <3>1 DEF PruneAhead
  <2>3. ~job[h].prune => ~PruneAhead(h)
    BY DEF PruneAhead
  <2> QED BY <1>5, <2>1, <2>2, <2>3 DEF Swept
<1>8. ASSUME NEW h \in Hosts, PruneRaw(h) PROVE Swept'
  <2>1. /\ JobStep(h) /\ failed' = failed /\ job[h].step = "prune_raw"
        /\ raw' = {r \in raw :
                     Survives(r.sample.ts, SatSub(job[h].ts, RawRetention))}
    BY <1>1, <1>8, RawPruned
  <2>2. job[h].prune
    BY <2>1 DEF JobStep, JobShape
  <2>3. ASSUME cycle[h] > 0, NEW r \in raw'
        PROVE  hist[h][LastPrune(h)].ts <= r.sample.ts + RawRetention
    <3>1. /\ job[h].ts = hist[h][Len(hist[h])].ts
          /\ (cycle[h] - 1) % PruneCadence = 0
      BY <2>1, <2>2, <2>3 DEF JobStep, JobIsLast
    <3>2. LastPrune(h) = Len(hist[h])
      <4>1. Len(hist[h]) \in Nat
        BY <1>1, HistLength
      <4> QED BY <3>1, <4>1 DEF LastPrune
    <3>3. job[h].ts \in Nat
      BY <2>1 DEF JobStep, Job
    <3>4. r.sample.ts \in Nat
      BY <1>1, <2>1, <2>3 DEF TypeOK, RawRow, Sample
    <3>5. Survives(r.sample.ts, SatSub(job[h].ts, RawRetention))
      BY <2>1, <2>3
    <3>6. job[h].ts <= r.sample.ts + RawRetention
      BY <3>3, <3>4, <3>5, RetentionAssumption DEF Survives, SatSub
    <3> QED BY <3>1, <3>2, <3>6
  <2> QED BY <1>5, <2>1, <2>3
<1>9. ASSUME NEW h \in Hosts, PruneTrends(h) PROVE Swept'
  <2>1. JobStep(h) /\ failed' = failed /\ raw' = raw
          /\ job[h].step = "prune_trends"
    BY <1>1, <1>9, TrendsPruned
  <2>2. ~PruneAhead(h)
    BY <2>1 DEF PruneAhead
  <2> QED BY <1>5, <2>1, <2>2 DEF Swept
<1>10. ASSUME NEW h \in Hosts, PersistFails(h) PROVE Swept'
  BY <1>1, <1>10, JobDropped DEF Swept
<1> QED BY <1>1, <1>2, <1>3, <1>4, <1>6, <1>7, <1>8, <1>9, <1>10, StepCases

\* The cycles that have passed an old row by are the ones since that prune.
LEMMA SweptIsBound ==
    ASSUME TypeOK, Numbered, TimesRise, Swept
    PROVE  RetentionBound
<1> SUFFICES ASSUME failed = 0, stepped = 0, NEW h \in Hosts, job[h] = NoJob,
                    NEW r \in raw, r.sample.host = h
             PROVE  Cardinality({k \in ThisRun(h) :
                      r.sample.ts + RawRetention < hist[h][k].ts}) < PruneCadence
  BY DEF RetentionBound
<1> DEFINE late == {k \in ThisRun(h) : r.sample.ts + RawRetention < hist[h][k].ts}
           l == Len(hist[h])
<1>1. l \in Nat /\ cycle[h] \in Nat
  BY HistLength
<1>2. CASE cycle[h] = 0
  <2>1. ThisRun(h) = {}
    BY <1>1, <1>2 DEF ThisRun
  <2>2. late = {}
    BY <2>1
  <2> HIDE DEF late
  <2>3. Cardinality(late) = 0
    BY <2>2, FS_EmptySet
  <2>4. Cardinality(late) < PruneCadence
    BY <2>3, CadencePositive
  <2> QED BY <2>4 DEF late
<1>3. CASE cycle[h] > 0
  <2> DEFINE p == LastPrune(h)
  <2>1. p \in 1 .. l /\ l - p < PruneCadence
    BY <1>3, LastPruneIn
  <2>2. hist[h][p].ts <= r.sample.ts + RawRetention
    BY <1>3 DEF Swept, PruneAhead
  <2>3. late \subseteq p + 1 .. l
    <3> SUFFICES ASSUME NEW k \in ThisRun(h), ~(k \in p + 1 .. l)
                 PROVE  ~(r.sample.ts + RawRetention < hist[h][k].ts)
      OBVIOUS
    <3>1. k \in 1 .. l
      BY ThisRunIn
    <3>2. k \in 1 .. p
      BY <1>1, <2>1, <3>1
    <3>3. hist[h][k].ts <= hist[h][p].ts
      BY <2>1, <3>2 DEF TimesRise
    <3>4. hist[h][k].ts \in Nat /\ hist[h][p].ts \in Nat /\ r.sample.ts \in Nat
      BY <2>1, <3>1, HistLength DEF TypeOK, RawRow, Sample
    <3> QED BY <2>2, <3>3, <3>4, RetentionAssumption
  <2> HIDE DEF p, late, l
  <2>4. p + 1 \in Int /\ l \in Int /\ p <= l
    BY <1>1, <2>1
  <2>5. IsFiniteSet(p + 1 .. l)
    BY <2>4, FS_Interval
  <2>6. Cardinality(p + 1 .. l) = IF p + 1 > l THEN 0 ELSE l - (p + 1) + 1
    BY <2>4, FS_Interval
  <2>7. IsFiniteSet(late) /\ Cardinality(late) <= Cardinality(p + 1 .. l)
    BY <2>3, <2>5, FS_Subset
  <2>8. Cardinality(late) \in Nat
    BY <2>7, FS_CardinalityType
  <2>9. Cardinality(late) < PruneCadence
    BY <2>1, <2>4, <2>6, <2>7, <2>8, CadencePositive
  <2> QED BY <2>9 DEF late
<1> QED BY <1>1, <1>2, <1>3

\* A raw row of a host outlives its retention by less than a prune cadence of
\* that host's own cycles, however the process was stopped in between.
THEOREM RetentionHolds == Spec => []RetentionBound
<1> DEFINE Inv == /\ Base /\ JobShape /\ Numbered
                  /\ TimesRise /\ JobIsLast /\ Swept
<1>1. Init => Inv
  BY BaseInit, ShapeInit, RecordInit, SweptInit
<1>2. Inv /\ [Next]_vars => Inv'
  <2> SUFFICES ASSUME Inv, [Next]_vars PROVE Inv'
    OBVIOUS
  <2>1. Base' /\ JobShape' /\ Numbered'
    BY BaseStep, ShapeStep
  <2>2. TypeOK /\ TypeOK'
    BY <2>1 DEF Base
  <2>3. TimesRise' /\ JobIsLast'
    BY <2>2, TimesStep, LastStep
  <2>4. Swept'
    BY SweptStep
  <2> QED BY <2>1, <2>3, <2>4
<1>3. Inv => RetentionBound
  BY SweptIsBound DEF Base
<1> QED BY <1>1, <1>2, <1>3, PTL DEF Spec

-----------------------------------------------------------------------------
(* The life of a reading *)

\* A sample on its way to the trend table, and one that is in it.
Flying(s) == \E t \in InFlight : t.sample = s
Stored(s) == \E t \in trend : t.sample = s

\* No sample is both: a job gives its rollups up when it inserts them.
Apart == \A t \in trend : ~Flying(t.sample)

\* Where a sample of host h is that was taken.
PhaseAt(h, s) ==
    IF s \in acc[h] THEN "open"
    ELSE IF Flying(s) THEN "closed"
    ELSE IF Stored(s) THEN "kept"
    ELSE "gone"

\* A sample in flight is in the job of its own host.
LEMMA FlyingWithHost ==
    ASSUME JobShape, NEW s
    PROVE  Flying(s) <=> \E h \in Hosts :
             /\ job[h] # NoJob /\ s.host = h
             /\ \E t \in job[h].flushed : t.sample = s
BY InFlightMember DEF Flying, JobShape

\* The same one step later.
LEMMA FlyingWithHostNext ==
    ASSUME JobShape', NEW s
    PROVE  Flying(s)' <=> \E h \in Hosts :
             /\ job'[h] # NoJob /\ s.host = h
             /\ \E t \in job'[h].flushed : t.sample = s
BY InFlightMemberNext DEF Flying, JobShape

\* The phases are apart in the beginning.
LEMMA ApartInit == Init => Apart
BY DEF Init, Apart

\* Every step keeps them apart.
LEMMA ApartStep ==
    ASSUME Base, JobShape, JobShape', Apart, [Next]_vars
    PROVE  Apart'
<1>1. TypeOK
  BY DEF Base
<1>2. ASSUME trend' \subseteq trend, InFlight' \subseteq InFlight PROVE Apart'
  BY <1>2 DEF Apart, Flying
<1>3. CASE IdleStep
  BY <1>2, <1>3 DEF IdleStep, InFlight
<1>4. ASSUME NEW killed \in BOOLEAN, StopStep(killed) PROVE Apart'
  <2>1. InFlight' \subseteq InFlight
    BY <1>4, JobShrinks DEF StopStep
  <2> QED BY <1>2, <1>4, <2>1 DEF StopStep
<1>5. ASSUME NEW h \in Hosts, NEW listed \in SUBSET Names,
             NEW valued \in SUBSET listed, CycleMade(h, listed, valued)
      PROVE  Apart'
  <2>1. trend' = trend
    BY <1>5 DEF CycleMade
  <2> SUFFICES ASSUME NEW t \in trend, Flying(t.sample)' PROVE FALSE
    BY <2>1 DEF Apart
  <2>2. PICK u \in InFlight' : u.sample = t.sample
    BY DEF Flying
  <2>3. u \in InFlight \/ u \in Flushed(h, clock)
    BY <1>5, <2>2, InFlightMember, InFlightMemberNext DEF CycleMade
  <2>4. CASE u \in InFlight
    BY <2>2, <2>4 DEF Apart, Flying
  <2>5. CASE u \in Flushed(h, clock)
    <3>1. u.sample \in acc[h]
      BY <2>5 DEF Flushed
    <3> QED BY <2>2, <3>1 DEF Base, OnceInv, SampleOnce
  <2> QED BY <2>3, <2>4, <2>5
<1>6. ASSUME NEW h \in Hosts, InsertTrends(h) PROVE Apart'
  <2>1. JobStep(h) /\ trend' = trend \union job[h].flushed
    BY <1>1, <1>6, TrendsIn
  <2>2. job'[h] # NoJob => job'[h].flushed = {}
    BY <1>1, <1>6, TrendsIn
  <2> SUFFICES ASSUME NEW t \in trend', Flying(t.sample)' PROVE FALSE
    BY DEF Apart
  <2>3. PICK g \in Hosts : job'[g] # NoJob /\ t.sample.host = g
                             /\ \E u \in job'[g].flushed : u.sample = t.sample
    BY FlyingWithHostNext
  <2>4. g # h
    BY <2>2, <2>3
  <2>5. Flying(t.sample)
    BY <2>1, <2>3, <2>4, FlyingWithHost DEF JobStep
  <2>6. CASE t \in trend
    BY <2>5, <2>6 DEF Apart
  <2>7. CASE t \in job[h].flushed
    BY <2>1, <2>3, <2>4, <2>7 DEF JobShape, JobStep
  <2> QED BY <2>1, <2>6, <2>7
<1>7. ASSUME NEW h \in Hosts, JobStep(h), trend' \subseteq trend,
             job'[h] # NoJob => job'[h].flushed = job[h].flushed
      PROVE  Apart'
  <2>1. InFlight' \subseteq InFlight
    BY <1>7, JobShrinks DEF JobStep
  <2> QED BY <1>2, <1>7, <2>1
<1>8. ASSUME NEW h \in Hosts, InsertSamples(h) PROVE Apart'
  BY <1>1, <1>7, <1>8, SamplesIn
<1>9. ASSUME NEW h \in Hosts, PruneRaw(h) PROVE Apart'
  BY <1>1, <1>7, <1>9, RawPruned
<1>10. ASSUME NEW h \in Hosts, PruneTrends(h) PROVE Apart'
  <2>1. JobStep(h) /\ trend' \subseteq trend /\ job'[h] = NoJob
    BY <1>1, <1>10, TrendsPruned
  <2> QED BY <1>7, <2>1
<1>11. ASSUME NEW h \in Hosts, PersistFails(h) PROVE Apart'
  <2>1. JobStep(h) /\ trend' = trend /\ job'[h] = NoJob
    BY <1>1, <1>11, JobDropped
  <2> QED BY <1>7, <2>1
<1> QED BY <1>1, <1>3, <1>4, <1>5, <1>6, <1>8, <1>9, <1>10, <1>11, StepCases

\* While no cycle is made, a reading is the same sample before and after.
LEMMA SameSample ==
    ASSUME hist' = hist, NEW r \in Readings
    PROVE  \E s : /\ s.host = r.host
                  /\ Phase(r) = IF Taken(r) THEN PhaseAt(r.host, s) ELSE "none"
                  /\ Phase(r)' = IF Taken(r) THEN PhaseAt(r.host, s)' ELSE "none"
<1>1. PICK s : s = [host |-> r.host, name |-> r.name, n |-> r.n,
                    ts |-> hist[r.host][r.n].ts]
  OBVIOUS
<1>2. s.host = r.host
  BY <1>1
<1>3. Taken(r)' = Taken(r)
  BY DEF Taken
<1>4. Phase(r) = IF Taken(r) THEN PhaseAt(r.host, s) ELSE "none"
  BY <1>1 DEF Phase, PhaseAt, Flying, Stored
<1>5. Phase(r)' = IF Taken(r) THEN PhaseAt(r.host, s)' ELSE "none"
  BY <1>1, <1>3 DEF Phase, PhaseAt, Flying, Stored
<1> QED BY <1>2, <1>4, <1>5

\* The readings of the abstract specification that are in a phase.
LEMMA OfPhase ==
    ASSUME NEW h, NEW p, NEW r
    PROVE  r \in Lifecycle!Of(h, p) <=>
             r \in Readings /\ Phase(r) = p /\ r.host = h
BY DEF Lifecycle!Of, Lifecycle!In, Lifecycle!Reading, Readings

\* The readings in a phase.
LEMMA InPhase ==
    ASSUME NEW p, NEW r
    PROVE  r \in Lifecycle!In(p) <=> r \in Readings /\ Phase(r) = p
BY DEF Lifecycle!In, Lifecycle!Reading, Readings

\* Moving the readings of a set changes their phase and no other's.
LEMMA MoveIs ==
    ASSUME NEW S, NEW p,
           \A r \in Readings : Phase(r)' = IF r \in S THEN p ELSE Phase(r)
    PROVE  Lifecycle!Move(S, p)
BY DEF Lifecycle!Move, Lifecycle!Reading, Readings

\* What the steps of the refinement are proved from.
LifeInv == Base /\ JobShape /\ Apart

\* The phases of all readings, as the abstract specification sees them.
phases == [r \in Readings |-> Phase(r)]

\* A step that moves no reading is a stutter of the abstract specification.
LEMMA NoneMoves ==
    ASSUME \A r \in Readings : Phase(r)' = Phase(r)
    PROVE  phases' = phases
BY DEF phases, Readings

\* Where a step leaves the samples that were open, closed and kept: an open
\* one is not rolled up, a closed one is not kept.
LEMMA PhasesApart ==
    ASSUME LifeInv, NEW h \in Hosts, NEW s
    PROVE  /\ s \in acc[h] => ~Flying(s) /\ ~Stored(s)
           /\ Flying(s) => ~Stored(s)
BY DEF LifeInv, Base, OnceInv, SampleOnce, Apart, Flying, Stored

\* A shutdown loses the open readings, a kill the closed ones too.
LEMMA StopMoves ==
    ASSUME LifeInv, NEW killed \in BOOLEAN, StopStep(killed)
    PROVE  Lifecycle!Stop(killed)
<1>1. PICK S : S = Lifecycle!In("open") \union
                     (IF killed THEN Lifecycle!In("closed") ELSE {})
  OBVIOUS
<1>2. ASSUME NEW r \in Readings
      PROVE  Phase(r)' = IF r \in S THEN "gone" ELSE Phase(r)
  <2>1. hist' = hist /\ trend' = trend /\ r.host \in Hosts /\ acc'[r.host] = {}
    BY DEF StopStep, Readings
  <2>2. PICK s : /\ s.host = r.host
                 /\ Phase(r) = IF Taken(r) THEN PhaseAt(r.host, s) ELSE "none"
                 /\ Phase(r)' = IF Taken(r) THEN PhaseAt(r.host, s)' ELSE "none"
    BY <2>1, SameSample
  <2>3. r \in S <=> Phase(r) = "open" \/ (killed /\ Phase(r) = "closed")
    BY <1>1, InPhase
  <2>4. Flying(s)' <=> ~killed /\ Flying(s)
    BY DEF StopStep, Flying, InFlight
  <2>5. Stored(s)' <=> Stored(s)
    BY <2>1 DEF Stored
  <2>6. PhaseAt(r.host, s)' = IF Flying(s)' THEN "closed"
                              ELSE IF Stored(s)' THEN "kept" ELSE "gone"
    BY <2>1 DEF PhaseAt
  <2>7. /\ s \in acc[r.host] => ~Flying(s) /\ ~Stored(s)
        /\ Flying(s) => ~Stored(s)
    BY <2>1, PhasesApart
  <2> QED BY <2>2, <2>3, <2>4, <2>5, <2>6, <2>7 DEF PhaseAt
<1>3. Lifecycle!Move(S, "gone")
  BY <1>2, MoveIs
<1> QED BY <1>1, <1>3 DEF Lifecycle!Stop, Lifecycle!Move

\* A cycle takes its readings, and closes the bucket first when it must.
LEMMA CycleMoves ==
    ASSUME LifeInv, LifeInv', NEW h \in Hosts, NEW listed \in SUBSET Names,
           NEW valued \in SUBSET listed, CycleMade(h, listed, valued)
    PROVE  \E new \in SUBSET Lifecycle!Of(h, "none") : \E closing \in BOOLEAN :
             Lifecycle!Take(h, new, closing)
<1>1. TypeOK
  BY DEF LifeInv, Base
<1> DEFINE n == Len(hist[h]) + 1
<1>2. PICK new : new = {[host |-> h, name |-> c, n |-> n] : c \in valued}
  OBVIOUS
<1>3. PICK closing \in BOOLEAN : closing = Closing(h, clock)
  BY DEF Closing
<1>4. n \in 1 .. MaxCycles /\ n \in Nat /\ n - 1 \in Nat
        /\ DOMAIN hist[h] = 1 .. n - 1
  BY <1>1, HistLength DEF CycleMade
<1>5. new \subseteq Lifecycle!Of(h, "none")
  <2> SUFFICES ASSUME NEW c \in valued,
                      NEW r, r = [host |-> h, name |-> c, n |-> n]
               PROVE  r \in Lifecycle!Of(h, "none")
    BY <1>2
  <2>1. r \in Readings /\ r.host = h /\ r.n = n
    BY <1>4 DEF Readings
  <2>2. ~Taken(r)
    BY <1>4, <2>1 DEF Taken
  <2>3. Phase(r) = "none"
    BY <2>2 DEF Phase
  <2> QED BY <2>1, <2>3, OfPhase
<1>6. Lifecycle!Of(h, "closed") = {}
  <2> SUFFICES ASSUME NEW r \in Readings, r.host = h, Phase(r) = "closed"
               PROVE  FALSE
    BY OfPhase
  <2>1. PICK s : s = [host |-> r.host, name |-> r.name, n |-> r.n,
                      ts |-> hist[r.host][r.n].ts]
    OBVIOUS
  <2>2. Flying(s)
    BY <2>1 DEF Phase, Flying
  <2>3. s.host = h
    BY <2>1
  <2>4. job[h] # NoJob
    BY <2>2, <2>3, FlyingWithHost DEF LifeInv
  <2> QED BY <2>4 DEF CycleMade
<1>7. ASSUME NEW r \in Readings
      PROVE  Phase(r)' = IF r \in new THEN "open"
                         ELSE IF closing /\ r \in Lifecycle!Of(h, "open")
                                THEN "closed" ELSE Phase(r)
  <2>1. /\ r.host \in Hosts /\ r.name \in Names /\ r.n \in 1 .. MaxCycles
        /\ r = [host |-> r.host, name |-> r.name, n |-> r.n]
    BY DEF Readings
  <2>2. r \in new <=> r.host = h /\ r.n = n /\ r.name \in valued
    BY <1>2, <2>1
  <2>3. r \in Lifecycle!Of(h, "open") <=> Phase(r) = "open" /\ r.host = h
    BY OfPhase
  <2>4. /\ hist'[h][n] = [ts |-> clock, valued |-> valued]
        /\ \A k \in 1 .. n - 1 : hist'[h][k] = hist[h][k]
        /\ DOMAIN hist'[h] = 1 .. n
    <3>1. /\ Len(hist'[h]) = n
          /\ hist'[h][n] = [ts |-> clock, valued |-> valued]
          /\ \A k \in 1 .. Len(hist[h]) : hist'[h][k] = hist[h][k]
      BY <1>1, CycleExtends
    <3>2. DOMAIN hist'[h] = 1 .. Len(hist'[h])
      BY HistLength, <1>1 DEF CycleMade
    <3>3. n - 1 = Len(hist[h])
      BY <1>4
    <3> QED BY <3>1, <3>2, <3>3
  <2>5. CASE r.host = h /\ r.n = n
    <3>1. ~Taken(r) /\ Phase(r) = "none"
      BY <1>4, <2>5 DEF Taken, Phase
    <3>2. CASE r.name \in valued
      <4>1. r.n \in DOMAIN hist'[r.host] /\ r.name \in hist'[r.host][r.n].valued
              /\ hist'[r.host][r.n].ts = clock
        BY <1>4, <2>4, <2>5, <3>2
      <4>2. [host |-> r.host, name |-> r.name, n |-> r.n,
             ts |-> hist'[r.host][r.n].ts] \in acc'[r.host]
        BY <2>5, <3>2, <4>1 DEF CycleMade
      <4>3. Phase(r)' = "open"
        BY <4>1, <4>2 DEF Phase, Taken
      <4> QED BY <2>2, <2>5, <3>2, <4>3
    <3>3. CASE r.name \notin valued
      <4>1. ~Taken(r)'
        BY <2>4, <2>5, <3>3 DEF Taken
      <4>2. Phase(r)' = "none"
        BY <4>1 DEF Phase
      <4> QED BY <2>2, <2>3, <3>1, <3>3, <4>2
    <3> QED BY <3>2, <3>3
  <2>6. CASE ~(r.host = h /\ r.n = n)
    <3>0. /\ r.host # h => hist'[r.host] = hist[r.host]
          /\ r.host = h => /\ r.n \in DOMAIN hist'[h] <=> r.n \in DOMAIN hist[h]
                           /\ r.n \in DOMAIN hist[h] => hist'[h][r.n] = hist[h][r.n]
      <4>1. CASE r.host # h
        BY <2>1, <4>1 DEF CycleMade
      <4>2. CASE r.host = h
        <5>1. r.n # n
          BY <2>6, <4>2
        <5> HIDE DEF n
        <5> QED BY <1>4, <2>1, <2>4, <4>2, <5>1
      <4> QED BY <4>1, <4>2
    <3>1. Taken(r)' <=> Taken(r)
      BY <3>0 DEF Taken
    <3>2. CASE ~Taken(r)
      <4>1. Phase(r) = "none" /\ Phase(r)' = "none"
        BY <3>1, <3>2 DEF Phase
      <4> QED BY <2>2, <2>3, <2>6, <4>1
    <3>3. CASE Taken(r)
      <4>1. hist'[r.host][r.n] = hist[r.host][r.n]
        BY <3>0, <3>3 DEF Taken
      <4>2. PICK s : s = [host |-> r.host, name |-> r.name, n |-> r.n,
                          ts |-> hist[r.host][r.n].ts]
        OBVIOUS
      <4>3. s.host = r.host /\ s.n = r.n
        BY <4>2
      <4>4. Phase(r) = PhaseAt(r.host, s)
        BY <3>3, <4>2 DEF Phase, PhaseAt, Flying, Stored
      <4>5. Phase(r)' = PhaseAt(r.host, s)'
        BY <3>1, <3>3, <4>1, <4>2 DEF Phase, PhaseAt, Flying, Stored
      <4>6. Stored(s)' <=> Stored(s)
        BY DEF Stored, CycleMade
      <4>7. CASE r.host # h
        <5>1. acc'[r.host] = acc[r.host]
          BY <2>1, <4>7 DEF CycleMade
        <5>2. Flying(s)' <=> Flying(s)
          BY <4>3, <4>7, FlyingWithHost, FlyingWithHostNext DEF LifeInv, CycleMade
        <5> QED BY <2>2, <2>3, <4>4, <4>5, <4>6, <4>7, <5>1, <5>2 DEF PhaseAt
      <4>8. CASE r.host = h
        <5>1. s \in acc'[h] <=> ~closing /\ s \in acc[h]
          BY <1>3, <2>6, <4>3, <4>8 DEF CycleMade
        <5>2. ~Flying(s)
          BY <4>3, <4>8, FlyingWithHost DEF LifeInv, CycleMade
        <5>3. Flying(s)' <=> closing /\ s \in acc[h]
          <6>1. Flying(s)' <=> \E t \in Flushed(h, clock) : t.sample = s
            BY <4>3, <4>8, FlyingWithHostNext DEF LifeInv, CycleMade
          <6>2. \A t \in Flushed(h, clock) : closing /\ t.sample \in acc[h]
            BY <1>3 DEF Flushed
          <6>3. ASSUME closing, s \in acc[h]
                PROVE  \E t \in Flushed(h, clock) : t.sample = s
            <7>1. [bucket |-> open[h], sample |-> s] \in Flushed(h, clock)
              BY <1>3, <6>3 DEF Flushed
            <7>2. [bucket |-> open[h], sample |-> s].sample = s
              OBVIOUS
            <7> QED BY <7>1, <7>2
          <6> QED BY <6>1, <6>2, <6>3
        <5> QED BY <2>2, <2>3, <2>6, <4>4, <4>5, <4>6, <4>8, <5>1, <5>2, <5>3
                DEF PhaseAt
      <4> QED BY <4>7, <4>8
    <3> QED BY <3>2, <3>3
  <2> QED BY <2>5, <2>6
<1>8. Lifecycle!Take(h, new, closing)
  BY <1>5, <1>6, <1>7 DEF Lifecycle!Take, Lifecycle!Reading, Readings
<1> QED BY <1>3, <1>5, <1>8

\* The second transaction keeps what its job had closed.
LEMMA KeepMoves ==
    ASSUME LifeInv, LifeInv', NEW h \in Hosts, InsertTrends(h)
    PROVE  Lifecycle!Keep(h) \/ phases' = phases
<1>1. TypeOK
  BY DEF LifeInv, Base
<1>2. JobStep(h) /\ trend' = trend \union job[h].flushed
  BY <1>1, TrendsIn
<1>3. job'[h] # NoJob => job'[h].flushed = {}
  BY <1>1, TrendsIn
<1>4. PICK S : S = Lifecycle!Of(h, "closed")
  OBVIOUS
<1>5. ASSUME NEW r \in Readings
      PROVE  Phase(r)' = IF r \in S THEN "kept" ELSE Phase(r)
  <2>1. hist' = hist /\ acc' = acc /\ r.host \in Hosts
    BY <1>2 DEF JobStep, Readings
  <2>2. PICK s : /\ s.host = r.host
                 /\ Phase(r) = IF Taken(r) THEN PhaseAt(r.host, s) ELSE "none"
                 /\ Phase(r)' = IF Taken(r) THEN PhaseAt(r.host, s)' ELSE "none"
    BY <2>1, SameSample
  <2>3. r \in S <=> Phase(r) = "closed" /\ r.host = h
    BY <1>4, OfPhase
  <2>4. CASE r.host = h
    <3>1. ~Flying(s)'
      BY <1>3, <2>2, <2>4, FlyingWithHostNext DEF LifeInv
    <3>2. Flying(s) <=> \E t \in job[h].flushed : t.sample = s
      BY <1>2, <2>2, <2>4, FlyingWithHost DEF LifeInv, JobStep
    <3>3. Stored(s)' <=> Stored(s) \/ Flying(s)
      BY <1>2, <3>2 DEF Stored
    <3> QED BY <2>1, <2>2, <2>3, <2>4, <3>1, <3>3 DEF PhaseAt
  <2>5. CASE r.host # h
    <3>1. Flying(s)' <=> Flying(s)
      BY <1>2, <2>2, <2>5, FlyingWithHost, FlyingWithHostNext DEF LifeInv, JobStep
    <3>2. Stored(s)' <=> Stored(s)
      BY <1>2, <2>2, <2>5 DEF Stored, LifeInv, JobShape, JobStep
    <3> QED BY <2>1, <2>2, <2>3, <2>5, <3>1, <3>2 DEF PhaseAt
  <2> QED BY <2>4, <2>5
<1>6. CASE S = {}
  BY <1>5, <1>6, NoneMoves
<1>7. CASE S # {}
  <2>1. Lifecycle!Move(S, "kept")
    BY <1>5, MoveIs
  <2> QED BY <1>4, <1>7, <2>1 DEF Lifecycle!Keep, Lifecycle!Move
<1> QED BY <1>6, <1>7

\* A transaction that fails loses what its job still had closed.
LEMMA LoseMoves ==
    ASSUME LifeInv, LifeInv', NEW h \in Hosts, PersistFails(h)
    PROVE  Lifecycle!Lose(h) \/ phases' = phases
<1>1. TypeOK
  BY DEF LifeInv, Base
<1>2. JobStep(h) /\ trend' = trend /\ job'[h] = NoJob
  BY <1>1, JobDropped
<1>3. PICK S : S = Lifecycle!Of(h, "closed")
  OBVIOUS
<1>4. ASSUME NEW r \in Readings
      PROVE  Phase(r)' = IF r \in S THEN "gone" ELSE Phase(r)
  <2>1. hist' = hist /\ acc' = acc /\ r.host \in Hosts
    BY <1>2 DEF JobStep, Readings
  <2>2. PICK s : /\ s.host = r.host
                 /\ Phase(r) = IF Taken(r) THEN PhaseAt(r.host, s) ELSE "none"
                 /\ Phase(r)' = IF Taken(r) THEN PhaseAt(r.host, s)' ELSE "none"
    BY <2>1, SameSample
  <2>3. r \in S <=> Phase(r) = "closed" /\ r.host = h
    BY <1>3, OfPhase
  <2>4. Stored(s)' <=> Stored(s)
    BY <1>2 DEF Stored
  <2>5. Flying(s) => ~Stored(s)
    BY <2>1, PhasesApart
  <2>6. CASE r.host = h
    <3>1. ~Flying(s)'
      BY <1>2, <2>2, <2>6, FlyingWithHostNext DEF LifeInv
    <3> QED BY <2>1, <2>2, <2>3, <2>4, <2>5, <2>6, <3>1 DEF PhaseAt
  <2>7. CASE r.host # h
    <3>1. Flying(s)' <=> Flying(s)
      BY <1>2, <2>2, <2>7, FlyingWithHost, FlyingWithHostNext DEF LifeInv, JobStep
    <3> QED BY <2>1, <2>2, <2>3, <2>4, <2>7, <3>1 DEF PhaseAt
  <2> QED BY <2>6, <2>7
<1>5. CASE S = {}
  BY <1>4, <1>5, NoneMoves
<1>6. CASE S # {}
  <2>1. Lifecycle!Move(S, "gone")
    BY <1>4, MoveIs
  <2> QED BY <1>3, <1>6, <2>1 DEF Lifecycle!Lose, Lifecycle!Move
<1> QED BY <1>5, <1>6

\* Pruning the trends lets kept readings expire and moves no others.
LEMMA ExpireMoves ==
    ASSUME LifeInv, NEW h \in Hosts, PruneTrends(h)
    PROVE  \/ phases' = phases
           \/ \E S \in SUBSET Lifecycle!In("kept") : Lifecycle!Expire(S)
<1>1. TypeOK
  BY DEF LifeInv, Base
<1>2. /\ JobStep(h) /\ trend' \subseteq trend
      /\ job[h].step = "prune_trends" /\ job'[h] = NoJob
  BY <1>1, TrendsPruned
<1>3. InFlight' = InFlight
  <2>1. job[h].flushed = {}
    BY <1>2 DEF LifeInv, JobShape, JobStep
  <2> QED BY <1>2, <2>1, InFlightMember, InFlightMemberNext DEF JobStep
<1>4. PICK S : S = {r \in Readings : Phase(r) = "kept" /\ Phase(r)' # "kept"}
  OBVIOUS
<1>5. ASSUME NEW r \in Readings
      PROVE  Phase(r)' = IF r \in S THEN "gone" ELSE Phase(r)
  <2>1. hist' = hist /\ acc' = acc
    BY <1>2 DEF JobStep
  <2>2. PICK s : /\ s.host = r.host
                 /\ Phase(r) = IF Taken(r) THEN PhaseAt(r.host, s) ELSE "none"
                 /\ Phase(r)' = IF Taken(r) THEN PhaseAt(r.host, s)' ELSE "none"
    BY <2>1, SameSample
  <2>3. Flying(s)' <=> Flying(s)
    BY <1>3 DEF Flying
  <2>4. Stored(s)' => Stored(s)
    BY <1>2 DEF Stored
  <2>5. r \in S <=> Phase(r) = "kept" /\ Phase(r)' # "kept"
    BY <1>4
  <2> QED BY <2>1, <2>2, <2>3, <2>4, <2>5 DEF PhaseAt
<1>6. CASE S = {}
  BY <1>5, <1>6, NoneMoves
<1>7. CASE S # {}
  <2>1. S \in SUBSET Lifecycle!In("kept")
    BY <1>4, InPhase
  <2>2. Lifecycle!Move(S, "gone")
    BY <1>5, MoveIs
  <2> QED BY <1>7, <2>1, <2>2 DEF Lifecycle!Expire
<1> QED BY <1>6, <1>7

\* The first and the third transaction move no reading.
LEMMA RawMovesNone ==
    ASSUME LifeInv, NEW h \in Hosts, InsertSamples(h) \/ PruneRaw(h)
    PROVE  phases' = phases
<1>1. TypeOK
  BY DEF LifeInv, Base
<1>2. /\ JobStep(h) /\ trend' = trend
      /\ job'[h] # NoJob /\ job'[h].flushed = job[h].flushed
  BY <1>1, SamplesIn, RawPruned
<1>3. InFlight' = InFlight
  BY <1>2, InFlightMember, InFlightMemberNext DEF JobStep
<1>4. UNCHANGED <<hist, acc>>
  BY <1>2 DEF JobStep
<1> QED BY <1>2, <1>3, <1>4 DEF phases, Phase, Taken

\* Every step of the collectors is a step of the life of readings, or moves
\* none of them.
LEMMA LifeStep ==
    ASSUME LifeInv, LifeInv', [Next]_vars
    PROVE  [Lifecycle!Next]_phases
<1>1. TypeOK
  BY DEF LifeInv, Base
<1>2. CASE IdleStep
  <2>1. phases' = phases
    BY <1>2 DEF IdleStep, phases, Phase, Taken, InFlight
  <2> QED BY <2>1
<1>3. ASSUME NEW killed \in BOOLEAN, StopStep(killed) PROVE Lifecycle!Next
  BY <1>3, StopMoves DEF Lifecycle!Next
<1>4. ASSUME NEW h \in Hosts, NEW listed \in SUBSET Names,
             NEW valued \in SUBSET listed, CycleMade(h, listed, valued)
      PROVE  Lifecycle!Next
  BY <1>4, CycleMoves DEF Lifecycle!Next
<1>5. ASSUME NEW h \in Hosts, InsertSamples(h) \/ PruneRaw(h)
      PROVE  phases' = phases
  BY <1>5, RawMovesNone
<1>6. ASSUME NEW h \in Hosts, InsertTrends(h)
      PROVE  Lifecycle!Next \/ phases' = phases
  BY <1>6, KeepMoves DEF Lifecycle!Next
<1>7. ASSUME NEW h \in Hosts, PersistFails(h)
      PROVE  Lifecycle!Next \/ phases' = phases
  BY <1>7, LoseMoves DEF Lifecycle!Next
<1>8. ASSUME NEW h \in Hosts, PruneTrends(h)
      PROVE  Lifecycle!Next \/ phases' = phases
  BY <1>8, ExpireMoves DEF Lifecycle!Next
<1> QED BY <1>1, <1>2, <1>3, <1>4, <1>5, <1>6, <1>7, <1>8, StepCases

\* The collectors, their bucketers and the store implement the life of a
\* reading: open, closed, kept, gone, a whole closed bucket at a time.
THEOREM LifecycleImplemented == Spec => ImplementsLifecycle
<1>1. Init => LifeInv
  BY BaseInit, ShapeInit, ApartInit DEF LifeInv
<1>2. Init => Lifecycle!Init
  <2> SUFFICES ASSUME Init, NEW r \in Readings PROVE Phase(r) = "none"
    BY DEF Lifecycle!Init, Lifecycle!Reading, Readings
  <2>1. r.host \in Hosts
    BY DEF Readings
  <2>2. hist[r.host] = << >>
    BY <2>1 DEF Init
  <2>3. ~Taken(r)
    BY <2>2 DEF Taken
  <2> QED BY <2>3 DEF Phase
<1>3. LifeInv /\ Numbered /\ [Next]_vars => LifeInv' /\ Numbered'
  <2> SUFFICES ASSUME LifeInv, Numbered, [Next]_vars PROVE LifeInv' /\ Numbered'
    OBVIOUS
  <2>1. Base' /\ JobShape' /\ Numbered'
    BY BaseStep, ShapeStep DEF LifeInv
  <2>2. Apart'
    BY <2>1, ApartStep DEF LifeInv
  <2> QED BY <2>1, <2>2 DEF LifeInv
<1>4. Init => Numbered
  BY ShapeInit
<1>5. LifeInv /\ LifeInv' /\ [Next]_vars => [Lifecycle!Next]_phases
  BY LifeStep
<1> QED BY <1>1, <1>2, <1>3, <1>4, <1>5, PTL
        DEF Spec, ImplementsLifecycle, Lifecycle!Spec, phases
=============================================================================
