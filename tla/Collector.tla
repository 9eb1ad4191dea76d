----------------------------- MODULE Collector -----------------------------
(***************************************************************************)
(* The collection loop of every local Docker host (src/collector.rs), the  *)
(* trend bucketer it owns (src/trend.rs) and the one SQLite store all      *)
(* hosts share (src/store.rs).                                             *)
(*                                                                         *)
(* Everything between the reading of the clock and the start of `persist`  *)
(* runs without an await, so it is one step, Collect.  `persist` runs on   *)
(* the blocking pool and makes up to four transactions, each of which can  *)
(* fail and between any two of which the process can die, so each is a     *)
(* step of its own; the loop of a host waits for its own job and for       *)
(* nobody else's.  A failed `docker.collect()` changes none of the state   *)
(* here ("keeping last snapshot"): it is a stuttering step.                *)
(*                                                                         *)
(* The raw history of a container (src/web.rs) is read in two steps: the   *)
(* handler looks at the clock and decides for the raw table, and the query *)
(* gets at the store later, from the blocking pool and behind the store's  *)
(* lock, with any step of any collector in between.                        *)
(*                                                                         *)
(* A container keeps its id here, so one name stands for the id its raw    *)
(* rows are keyed by and for the name its trend rows are keyed by.         *)
(*                                                                         *)
(* A sample is named by its host, its container's name and the ordinal of  *)
(* its cycle; its value is abstracted to whether it has one.  A trend row  *)
(* is represented by the samples its envelope was computed from: a merge   *)
(* of two rollups of one bucket is the union of their samples.             *)
(***************************************************************************)
EXTENDS Integers, Sequences, FiniteSets

CONSTANTS
    Hosts,           \* the local hosts: one collector task each
    Names,           \* container names
    BucketMs,        \* width of a trend bucket
    RawRetention,    \* how long raw samples are kept ("point A")
    TrendRetention,  \* how long trend rows are kept
    PruneSecs,       \* prune_interval
    IntervalSecs,    \* interval
    NoBucket,        \* current_start = None
    NoSnapshot,      \* the shared dashboard before the first real cycle
    NoJob,           \* no persist job is running
    NoQuery,         \* no page waits for a raw history
    MaxTime,         \* bound on the clock
    MaxWindow,       \* bound on the length of a window of history asked for
    MaxCycles,       \* bound on the cycles of a host
    MaxUpsets,       \* bound on each of: failed transactions, shutdowns and
                     \* kills, times the wall clock is set back
    MaxEvents,       \* bound on cycles and upsets together
    MaxAsked         \* the same while a query waits for the store

ASSUME BucketAssumption == BucketMs \in Nat \ {0}
ASSUME RetentionAssumption == RawRetention \in Nat /\ TrendRetention \in Nat
ASSUME CadenceAssumption == PruneSecs \in Nat /\ IntervalSecs \in Nat
ASSUME BoundAssumption ==
    /\ MaxTime \in Nat /\ MaxWindow \in Nat /\ MaxCycles \in Nat
    /\ MaxUpsets \in Nat /\ MaxEvents \in Nat /\ MaxAsked \in Nat
ASSUME NullAssumption == NoBucket \notin Int

VARIABLES
    clock,    \* the wall clock
    up,       \* the process is running
    primed,   \* per host: a collection has primed the delta readings
    cycle,    \* per host: real cycles since the process started
    open,     \* per host: Bucketer.current_start
    acc,      \* per host: the samples in the bucketer's accumulators
    shared,   \* per host: the published snapshot
    job,      \* per host: the persist job on the blocking pool
    raw,      \* table container_sample
    trend,    \* table container_trend
    query,    \* the raw history query that waits for the store
    hist,     \* ghost, per host: every real cycle so far, its timestamp
              \* and the containers that had readings
    failed,   \* ghost: failed transactions so far
    stops,    \* ghost: shutdowns and kills so far
    stepped   \* ghost: times the clock was set back

memory == <<primed, cycle, open, acc, shared>>
tables == <<raw, trend>>
ghosts == <<hist, failed, stops, stepped>>
vars == <<clock, up, memory, job, tables, query, ghosts>>

-----------------------------------------------------------------------------
(* Helpers *)

\* u64::saturating_sub
SatSub(a, b) == IF a >= b THEN a - b ELSE 0

\* The start of the bucket a timestamp belongs to.
BucketStart(ts) == ts - (ts % BucketMs)

\* Real cycles between two prunes, never 0.
PruneCadence ==
    LET floored == IF IntervalSecs >= 1 THEN IntervalSecs ELSE 1
        cycles == PruneSecs \div floored
    IN  IF cycles >= 1 THEN cycles ELSE 1

Sample == [host: Hosts, name: Names, n: Nat \ {0}, ts: Nat]
RawRow == [sample: Sample, valued: BOOLEAN]
TrendRow == [bucket: Nat, sample: Sample]
Job == [step: {"samples", "trends", "prune_raw", "prune_trends"},
        rows: SUBSET RawRow, flushed: SUBSET TrendRow,
        prune: BOOLEAN, ts: Nat]
Query == [host: Hosts, name: Names, since: Nat, until: Nat, asked: Nat]

ASSUME JobAssumption == NoJob \notin Job

\* What counts towards MaxEvents.
Events ==
    LET cycles == UNION {{<<h, k>> : k \in DOMAIN hist[h]} : h \in Hosts}
    IN  Cardinality(cycles) + failed + stops + stepped

WithinBounds == Events < IF query = NoQuery THEN MaxEvents ELSE MaxAsked

-----------------------------------------------------------------------------
Init ==
    /\ clock = 0
    /\ up = TRUE
    /\ primed = [h \in Hosts |-> FALSE]
    /\ cycle = [h \in Hosts |-> 0]
    /\ open = [h \in Hosts |-> NoBucket]
    /\ acc = [h \in Hosts |-> {}]
    /\ shared = [h \in Hosts |-> NoSnapshot]
    /\ job = [h \in Hosts |-> NoJob]
    /\ raw = {}
    /\ trend = {}
    /\ query = NoQuery
    /\ hist = [h \in Hosts |-> <<>>]
    /\ failed = 0
    /\ stops = 0
    /\ stepped = 0

-----------------------------------------------------------------------------
(* The environment: the wall clock *)

Advance ==
    /\ clock < MaxTime
    /\ clock' = clock + 1
    /\ UNCHANGED <<up, memory, job, tables, query, ghosts>>

\* SystemTime is not monotonic: NTP or an operator can set it back.
StepBack ==
    /\ stepped < MaxUpsets /\ WithinBounds
    /\ \E earlier \in 0 .. clock - 1 : clock' = earlier
    /\ stepped' = stepped + 1
    /\ UNCHANGED <<up, memory, job, tables, query, hist, failed, stops>>

-----------------------------------------------------------------------------
(* The loop of one host *)

\* The first successful collection only primes the deltas.
Prime(h) ==
    /\ up
    /\ job[h] = NoJob
    /\ ~primed[h]
    /\ primed' = [primed EXCEPT ![h] = TRUE]
    /\ UNCHANGED <<clock, up, cycle, open, acc, shared, job, tables, query,
                   ghosts>>

\* A sample of a later bucket closes the open one.
Closing(h, ts) == open[h] # NoBucket /\ BucketStart(ts) > open[h]

\* Bucketer::push and close: the rollups of the bucket that closes, if any ...
FlushedAdjacent(h, ts) ==  \* mutant: only the next bucket closes the open one
    IF Closing(h, ts) /\ BucketStart(ts) = open[h] + BucketMs
      THEN {[bucket |-> open[h], sample |-> s] : s \in acc[h]} ELSE {}
Flushed(h, ts) ==
    IF Closing(h, ts) THEN {[bucket |-> open[h], sample |-> s] : s \in acc[h]}
                      ELSE {}

\* ... the bucket that is open afterwards ...
OpenAfterStuck(h, ts) ==   \* mutant: current_start is not moved on
    IF open[h] = NoBucket THEN BucketStart(ts) ELSE open[h]
OpenAfterPrevious(h, ts) == \* mutant: off by one bucket
    IF open[h] = NoBucket \/ Closing(h, ts) THEN BucketStart(ts) - BucketMs
                                            ELSE open[h]
OpenAfter(h, ts) ==
    IF open[h] = NoBucket \/ Closing(h, ts) THEN BucketStart(ts) ELSE open[h]

\* ... and the accumulators: drained when the bucket closes, then fed every
\* sample that has a value, also one whose timestamp lies before the bucket.
AccAfterNoDrain(h, ts, new) == acc[h] \union new  \* mutant: iter for drain
AccAfterFedFirst(h, ts, new) ==                   \* mutant: fed, then drained
    IF Closing(h, ts) THEN {} ELSE acc[h] \union new
AccAfter(h, ts, new) == (IF Closing(h, ts) THEN {} ELSE acc[h]) \union new

\* The raw rows of a cycle: every listed container, NULL where no reading.
RawRowsValued(listed, valued, sampleOf) ==        \* mutant: NULL rows skipped
    {[sample |-> sampleOf[c], valued |-> TRUE] : c \in valued}
RawRows(listed, valued, sampleOf) ==
    {[sample |-> sampleOf[c], valued |-> c \in valued] : c \in listed}

\* One real cycle over the containers `listed`, of which `valued` have
\* readings: push, publish, and start persisting.
Collect(h, listed, valued) ==
    LET ts == clock
        n == Len(hist[h]) + 1
        sampleOf == [c \in Names |-> [host |-> h, name |-> c, n |-> n, ts |-> ts]]
    IN
    /\ up
    /\ job[h] = NoJob
    /\ primed[h]
    /\ n <= MaxCycles /\ WithinBounds
    /\ open' = [open EXCEPT ![h] = OpenAfter(h, ts)]
    /\ acc' = [acc EXCEPT ![h] = AccAfter(h, ts, {sampleOf[c] : c \in valued})]
    /\ shared' = [shared EXCEPT ![h] = {sampleOf[c] : c \in listed}]
    /\ cycle' = [cycle EXCEPT ![h] = @ + 1]
    /\ job' = [job EXCEPT ![h] =
                 [step |-> "samples",
                  rows |-> RawRows(listed, valued, sampleOf),
                  flushed |-> Flushed(h, ts),
                  prune |-> cycle[h] % PruneCadence = 0,
                  ts |-> ts]]
    /\ hist' = [hist EXCEPT ![h] = Append(@, [ts |-> ts, valued |-> valued])]
    /\ UNCHANGED <<clock, up, primed, tables, query, failed, stops, stepped>>

-----------------------------------------------------------------------------
(* persist: one transaction per step, in this order *)

InsertSamples(h) ==
    /\ job[h] # NoJob /\ job[h].step = "samples"
    /\ raw' = raw \union job[h].rows
    /\ job' = [job EXCEPT ![h].step = "trends", ![h].rows = {}]
    /\ UNCHANGED <<clock, up, memory, trend, query, ghosts>>

\* What is left of a job once its trends are in.
AfterTrendsEarly(j) ==      \* mutant: nothing flushed ends the whole job
    IF j.prune /\ j.flushed # {}
      THEN [j EXCEPT !.step = "prune_raw", !.flushed = {}] ELSE NoJob
AfterTrends(j) ==
    IF j.prune THEN [j EXCEPT !.step = "prune_raw", !.flushed = {}] ELSE NoJob

InsertTrends(h) ==
    /\ job[h] # NoJob /\ job[h].step = "trends"
    /\ trend' = trend \union job[h].flushed
    /\ job' = [job EXCEPT ![h] = AfterTrends(job[h])]
    /\ UNCHANGED <<clock, up, memory, raw, query, ghosts>>

\* DELETE ... WHERE ts < cutoff keeps what is at the cutoff.
SurvivesOff(ts, cutoff) == ts > cutoff   \* mutant: WHERE ts <= cutoff
Survives(ts, cutoff) == ts >= cutoff

\* Both prunes are host-blind: the rows of every host go.
PruneRaw(h) ==
    /\ job[h] # NoJob /\ job[h].step = "prune_raw"
    /\ LET cutoff == SatSub(job[h].ts, RawRetention)
       IN  raw' = {r \in raw : Survives(r.sample.ts, cutoff)}
    /\ job' = [job EXCEPT ![h].step = "prune_trends"]
    /\ UNCHANGED <<clock, up, memory, trend, query, ghosts>>

PruneTrends(h) ==
    /\ job[h] # NoJob /\ job[h].step = "prune_trends"
    /\ LET cutoff == SatSub(job[h].ts, TrendRetention)
       IN  trend' = {t \in trend : Survives(t.bucket, cutoff)}
    /\ job' = [job EXCEPT ![h] = NoJob]
    /\ UNCHANGED <<clock, up, memory, raw, query, ghosts>>

\* Any of the transactions fails: the rest of the job is skipped, its error
\* is logged, and what the job still held is gone.
PersistFails(h) ==
    /\ failed < MaxUpsets /\ WithinBounds
    /\ job[h] # NoJob
    /\ job' = [job EXCEPT ![h] = NoJob]
    /\ failed' = failed + 1
    /\ UNCHANGED <<clock, up, memory, tables, query, hist, stops, stepped>>

Persist(h) ==
    InsertSamples(h) \/ InsertTrends(h) \/ PruneRaw(h) \/ PruneTrends(h)

-----------------------------------------------------------------------------
(* The raw history of a container *)

\* resolve_history: raw samples for a window that begins inside their retention
\* (seed_window is raw_retention), trends for any other.
ServedRawByEnd(since, until) ==      \* mutant: a window that ends inside it
    until >= SatSub(clock, RawRetention)
ServedRaw(since, until) == since >= SatSub(clock, RawRetention)

\* history_container decides at its own reading of the clock; what it decided
\* goes to the blocking pool.
ResolveHistory(h, c, since, until) ==
    /\ up
    /\ query = NoQuery /\ Events <= MaxAsked
    /\ since < until
    /\ ServedRaw(since, until)
    /\ query' = [host |-> h, name |-> c, since |-> since, until |-> until,
                 asked |-> clock]
    /\ UNCHANGED <<clock, up, memory, job, tables, ghosts>>

\* RAW_HISTORY_SQL, before it groups neighbouring rows into points: what the
\* query finds in the store.
RawHistory(q) ==
    {s \in {r.sample : r \in raw} :
        s.host = q.host /\ s.name = q.name /\ q.since <= s.ts /\ s.ts <= q.until}

\* The query has the store's lock, reads, and its rows go to the page.
AnswerHistory ==
    /\ query # NoQuery
    /\ query' = NoQuery
    /\ UNCHANGED <<clock, up, memory, job, tables, ghosts>>

-----------------------------------------------------------------------------
(* Stopping and starting *)

\* What the process held is gone, a page's request with it.
MemoryLost ==
    /\ primed' = [h \in Hosts |-> FALSE]
    /\ cycle' = [h \in Hosts |-> 0]
    /\ open' = [h \in Hosts |-> NoBucket]
    /\ acc' = [h \in Hosts |-> {}]
    /\ shared' = [h \in Hosts |-> NoSnapshot]
    /\ query' = NoQuery

\* SIGTERM or SIGINT: main returns, the tasks are dropped where they wait,
\* and the runtime waits for the jobs already on the blocking pool.
Shutdown ==
    /\ up
    /\ stops < MaxUpsets /\ WithinBounds
    /\ up' = FALSE
    /\ MemoryLost
    /\ stops' = stops + 1
    /\ UNCHANGED <<clock, job, tables, hist, failed, stepped>>

\* SIGKILL or power loss, also after a Shutdown that has not finished: what
\* SQLite committed stays, the rest is gone.
Kill ==
    /\ stops < MaxUpsets /\ WithinBounds
    /\ up \/ \E h \in Hosts : job[h] # NoJob
    /\ up' = FALSE
    /\ MemoryLost
    /\ job' = [h \in Hosts |-> NoJob]
    /\ stops' = stops + 1
    /\ UNCHANGED <<clock, tables, hist, failed, stepped>>

Restart ==
    /\ ~up
    /\ \A h \in Hosts : job[h] = NoJob
    /\ up' = TRUE
    /\ UNCHANGED <<clock, memory, job, tables, query, ghosts>>

-----------------------------------------------------------------------------
Next ==
    \/ Advance
    \/ StepBack
    \/ \E h \in Hosts :
         \/ Prime(h)
         \/ \E listed \in SUBSET Names : \E valued \in SUBSET listed :
              Collect(h, listed, valued)
         \/ InsertSamples(h)
         \/ InsertTrends(h)
         \/ PruneRaw(h)
         \/ PruneTrends(h)
         \/ PersistFails(h)
         \/ \E c \in Names : \E since \in 0 .. clock :
              \E until \in since .. since + MaxWindow :
                ResolveHistory(h, c, since, until)
    \/ AnswerHistory
    \/ Shutdown
    \/ Kill
    \/ Restart

Spec == Init /\ [][Next]_vars

-----------------------------------------------------------------------------
(* Properties *)

\* Every variable has its type: the accumulators and the job of a host hold
\* that host's samples, the tables hold rows of any host.
TypeOK ==
    /\ clock \in Nat /\ up \in BOOLEAN
    /\ primed \in [Hosts -> BOOLEAN]
    /\ cycle \in [Hosts -> Nat]
    /\ open \in [Hosts -> Nat \union {NoBucket}]
    /\ acc \in [Hosts -> SUBSET Sample]
    /\ shared \in [Hosts -> (SUBSET Sample) \union {NoSnapshot}]
    /\ job \in [Hosts -> Job \union {NoJob}]
    /\ raw \in SUBSET RawRow
    /\ trend \in SUBSET TrendRow
    /\ query \in Query \union {NoQuery}
    /\ hist \in [Hosts -> Seq([ts : Nat, valued : SUBSET Names])]
    /\ failed \in Nat /\ stops \in Nat /\ stepped \in Nat

\* The rollups on their way to the store.
InFlight == UNION {job[h].flushed : h \in {g \in Hosts : job[g] # NoJob}}

\* The real cycles the running process has made for a host.
ThisRun(h) == (Len(hist[h]) - cycle[h] + 1) .. Len(hist[h])

\* A time lies further back than `age` for some cycle already made.
Aged(ts, age) ==
    \E h \in Hosts : \E k \in DOMAIN hist[h] : ts + age < hist[h][k].ts

\* A sample counts towards one trend row at most, and never towards a row
\* while it is still accumulating: closing a bucket hands its samples over
\* and starts the next one empty, across failures, kills and clock jumps
\* (Bucketer::push, Bucketer::close and the merge on conflict).
SampleOnce ==
    LET rolled == trend \union InFlight IN
    /\ \A t, u \in rolled : t.sample = u.sample => t.bucket = u.bucket
    /\ \A h \in Hosts : \A s \in acc[h] : \A t \in rolled : t.sample # s

\* A trend row never holds a sample from after its bucket, whatever the wall
\* clock does, and while the clock was never set back it holds none from
\* before it either (Bucketer::push).
BucketBounds ==
    \A t \in trend \union InFlight :
        /\ t.bucket % BucketMs = 0
        /\ t.sample.ts < t.bucket + BucketMs
        /\ stepped = 0 => t.bucket <= t.sample.ts

\* While no transaction has failed, every reading the running process took
\* is in the open bucket, on its way to the store, in a trend row, or in a
\* bucket older than the trend retention: closing, persisting and pruning
\* lose none.
Accounted ==
    failed = 0 =>
      \A h \in Hosts : \A k \in ThisRun(h) : \A c \in hist[h][k].valued :
        LET s == [host |-> h, name |-> c, n |-> k, ts |-> hist[h][k].ts] IN
        \/ s \in acc[h]
        \/ \E t \in trend \union InFlight : t.sample = s
        \/ Aged(BucketStart(s.ts), TrendRetention)

\* A raw row of a host outlives its retention by less than a prune cadence of
\* that host's own cycles, however the process was stopped in between: the
\* first real cycle prunes, then every PruneCadence-th (collector::run).
RetentionBound ==
    failed = 0 /\ stepped = 0 =>
      \A h \in Hosts : job[h] = NoJob =>
        \A r \in raw : r.sample.host = h =>
          Cardinality({k \in ThisRun(h) :
              r.sample.ts + RawRetention < hist[h][k].ts}) < PruneCadence

\* The raw rows a host's job has still to insert.
RowsOf(h) == IF job[h] = NoJob THEN {} ELSE job[h].rows

\* A time has left the raw retention since a request looked at the clock.
AgedSince(q, ts) ==
    \E h \in Hosts : \E k \in DOMAIN hist[h] :
        q.asked < hist[h][k].ts /\ ts + RawRetention < hist[h][k].ts

\* Every reading of this run inside the window of a query, and what the host's
\* live snapshot shows of the container there.
Due(q) ==
    LET Read == {[host |-> q.host, name |-> q.name, n |-> k,
                  ts |-> hist[q.host][k].ts] :
                    k \in {i \in ThisRun(q.host) :
                             q.name \in hist[q.host][i].valued}}
        Shown == IF shared[q.host] = NoSnapshot THEN {}
                 ELSE {s \in shared[q.host] : s.name = q.name}
    IN  {s \in Read \union Shown : q.since <= s.ts /\ s.ts <= q.until}

\* Whenever a raw query gets at the store, it finds every reading of this run
\* inside its window and what the live page shows there, but for a row the
\* host's job is about to insert and for rows that left the raw retention
\* after the request chose the raw table: no prune, of this host or of
\* another, removes more than that from under it (history_container against
\* prune_raw).  It is stated while no transaction has failed.
RawHistoryComplete ==
    query # NoQuery /\ failed = 0 =>
      \A s \in Due(query) :
        \/ s \in RawHistory(query)
        \/ s \in {r.sample : r \in RowsOf(query.host)}
        \/ AgedSince(query, s.ts)

\* What web.rs says of a window served raw, "full resolution, exact values":
\* nothing of it is missing when it is read.  CollectorRaw.cfg shows the prune
\* of a later cycle take its first rows between the decision and the query.
RawHistoryExact ==
    query # NoQuery /\ failed = 0 /\ stepped = 0 =>
      \A s \in Due(query) :
        \/ s \in RawHistory(query)
        \/ s \in {r.sample : r \in RowsOf(query.host)}

\* Pruning removes nothing that is still inside its retention, neither of the
\* pruning host nor of the others whose rows it goes through (prune_raw,
\* prune_trends; the separate, longer retention of trends).
PruneOnlyExpired ==
    [][/\ \A r \in raw \ raw' : Aged(r.sample.ts, RawRetention)
       /\ \A t \in trend \ trend' : Aged(t.bucket, TrendRetention)]_vars

\* "A monitoring UI has nothing to flush" (main.rs): after a shutdown whose
\* jobs have finished, every reading taken is in a trend row or aged out.
NothingToFlush ==
    ~up /\ (\A h \in Hosts : job[h] = NoJob) =>
      \A h \in Hosts : \A k \in DOMAIN hist[h] : \A c \in hist[h][k].valued :
        \/ \E t \in trend : t.sample = [host |-> h, name |-> c, n |-> k,
                                       ts |-> hist[h][k].ts]
        \/ Aged(BucketStart(hist[h][k].ts), TrendRetention)

-----------------------------------------------------------------------------
(* Refinement of SampleLifecycle: where a reading is now *)

Readings == [host : Hosts, name : Names, n : 1 .. MaxCycles]

Taken(r) == r.n \in DOMAIN hist[r.host] /\ r.name \in hist[r.host][r.n].valued

Phase(r) ==
    LET s == [host |-> r.host, name |-> r.name, n |-> r.n,
              ts |-> hist[r.host][r.n].ts]
    IN  IF ~Taken(r) THEN "none"
        ELSE IF s \in acc[r.host] THEN "open"
        ELSE IF \E t \in InFlight : t.sample = s THEN "closed"
        ELSE IF \E t \in trend : t.sample = s THEN "kept"
        ELSE "gone"

Lifecycle == INSTANCE SampleLifecycle
    WITH Cycles <- 1 .. MaxCycles, phase <- [r \in Readings |-> Phase(r)]

\* The collectors, their bucketers and the store implement the life of a
\* reading: open, closed, kept, gone, a whole closed bucket at a time.
ImplementsLifecycle == Lifecycle!Spec
=============================================================================
