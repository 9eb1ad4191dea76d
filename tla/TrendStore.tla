---------------------------- MODULE TrendStore ----------------------------
(***************************************************************************)
(* The database file over its life (src/store.rs): opened by a build newer *)
(* than the one that wrote it, migrated in place, filled with trend rows   *)
(* and raw samples, and read by the charts.                                *)
(*                                                                         *)
(* The bucketer hands over long rollups, one per container and metric.     *)
(* The table holds one wide row per name and bucket, so rollups of one     *)
(* name and bucket have to be merged, and are in three places written in   *)
(* two languages: within a batch (pivot_trends), into a stored row (the    *)
(* upsert of INSERT_TREND_SQL) and in the migration of an older file       *)
(* (LEGACY_PIVOT_SQL).  `given` remembers every rollup ever stored, and    *)
(* the properties compare what is read with it.                            *)
(*                                                                         *)
(* The statements of an open commit one by one, but for the layout         *)
(* migration, which is one transaction; a crash may come between them.     *)
(* A median is a fraction <<numerator, denominator>>.                      *)
(***************************************************************************)
EXTENDS Integers, Sequences, FiniteSets, FiniteSetsExt, SequencesExt

CONSTANTS
    Ids,          \* container ids; all of them had the same name, in turn
    Metrics,      \* Metric::ALL
    Buckets,      \* bucket starts
    Chunk,        \* MIGRATION_CHUNK_MS
    Envelopes,    \* rollups of a metric: [min, med, max, n] (n is `samples`)
    Covers,       \* what a bucket may hold of a container, or NoData: by metric
    Files,        \* schemas a file may have when it is opened first
    LegacyRows,   \* sets of rollups a file in the long layout may hold
    Readings,     \* CPU readings
    NoData,       \* NULL
    MaxWrites,    \* bound on the transactions of the running program
    MaxCrashes    \* bound on crashes

\* Counts are positive and medians inside; no envelope is NULL.
ASSUME StoreAssumption ==
    /\ IsFiniteSet(Ids) /\ IsFiniteSet(Metrics)
    /\ Buckets \subseteq Nat /\ Chunk \in Nat \ {0}
    /\ Envelopes \subseteq [min : Int, med : Int, max : Int, n : Nat \ {0}]
    /\ \A e \in Envelopes : e.min <= e.med /\ e.med <= e.max
    /\ NoData \notin Envelopes \union [min : Int, med : Int \X Int, max : Int]
    /\ Covers \subseteq [Metrics -> Envelopes \union {NoData}]
    /\ MaxWrites \in Nat /\ MaxCrashes \in Nat

VARIABLES
    schema,   \* what there is in the file
    legacy,   \* the rollups of a container_trend in the long layout
    trend,    \* the wide rows, by name (there is one) and bucket
    raw,      \* container_sample
    pc,       \* the next statement of Store::open, "open", or "down"
    given,    \* ghost: every rollup stored so far
    writes,   \* ghost: transactions so far
    crashes   \* ghost: crashes so far

vars == <<schema, legacy, trend, raw, pc, given, writes, crashes>>

\* `flush` tells the rollups of different batches apart.
Rollup == [flush : Nat, id : Ids, bucket : Buckets, metric : Metrics, e : Envelopes]

\* The columns added in later releases, <<table, column>> in the order in which
\* they are backfilled.
Columns == << <<"sample", "host">>, <<"trend", "host">>, <<"sample", "net_rx">>,
              <<"sample", "net_tx">>, <<"sample", "disk_read">>,
              <<"sample", "disk_write">> >>
ColumnsOf(table) == {c \in Range(Columns) : c[1] = table}

\* samples: the table container_sample exists; columns: those of `Columns` that
\* do; layout: that of container_trend; indexed: the present indexes exist.
Schema == [samples : BOOLEAN, columns : SUBSET Range(Columns),
           layout : {"none", "long", "wide"}, indexed : BOOLEAN]

ASSUME FilesAssumption ==
    /\ Files \subseteq Schema
    /\ \A rows \in LegacyRows :
         IsFiniteSet(rows) /\ rows \subseteq Rollup /\ \A r \in rows : r.flush = 0

-----------------------------------------------------------------------------
(* Envelopes *)

Stored(e) == [min |-> e.min, med |-> <<e.med, 1>>, max |-> e.max]

\* The mean of two medians, weighted.
WeightedSum(p, wp, q, wq) ==   \* mutant: not divided by both counts
    <<p[1] * wp * q[2] + q[1] * wq * p[2], p[2] * q[2]>>
Weighted(p, wp, q, wq) ==
    <<p[1] * wp * q[2] + q[1] * wq * p[2], p[2] * q[2] * (wp + wq)>>

SameFraction(p, q) == p[1] * q[2] = q[1] * p[2]
AtMost(p, q) == p[1] * q[2] <= q[1] * p[2]

\* Envelope::merge; also each metric's columns in the upsert, where NULL
\* stands back and the weights are those of the rows.
MergeLater(a, wa, b, wb) ==   \* mutant: the median of the later one stays
    IF a = NoData THEN b
    ELSE IF b = NoData THEN a
    ELSE [min |-> Min({a.min, b.min}), max |-> Max({a.max, b.max}),
          med |-> b.med]
Merge(a, wa, b, wb) ==
    IF a = NoData THEN b
    ELSE IF b = NoData THEN a
    ELSE [min |-> Min({a.min, b.min}), max |-> Max({a.max, b.max}),
          med |-> Weighted(a.med, wa, b.med, wb)]

\* Rollups of one metric and bucket folded into one, with its sample count.
Folded(rollups) ==
    FoldSet(LAMBDA r, acc :
              [v |-> Merge(acc.v, acc.n, Stored(r.e), r.e.n), n |-> acc.n + r.e.n],
            [v |-> NoData, n |-> 0], rollups)

OfMetric(rollups, m) == {r \in rollups : r.metric = m}

\* pivot_trends: one wide row per bucket; `samples` is the count behind the
\* best-covered metric.
PivotTrends(batch) ==
    [b \in {r.bucket : r \in batch} |->
       LET here == {r \in batch : r.bucket = b} IN
       [samples |-> Max({Folded(OfMetric(here, m)).n : m \in Metrics}),
        env |-> [m \in Metrics |-> Folded(OfMetric(here, m)).v]]]

\* INSERT ... ON CONFLICT DO UPDATE: row-level sample counts for every metric.
Upserted(row, new) ==
    [samples |-> row.samples + new.samples,
     env |-> [m \in Metrics |->
                Merge(row.env[m], row.samples, new.env[m], new.samples)]]

\* LEGACY_PIVOT_SQL over one chunk: like pivot_trends, but `samples` is the
\* largest count of any rollup.
LegacyPivot(rollups) ==
    [b \in {r.bucket : r \in rollups} |->
       LET here == {r \in rollups : r.bucket = b} IN
       [samples |-> Max({r.e.n : r \in here}),
        env |-> [m \in Metrics |-> Folded(OfMetric(here, m)).v]]]

\* The hours from the first to the last bucket, half-open.
ChunksShort(first, last) ==   \* mutant: from < last
    {first + k * Chunk : k \in {j \in 0 .. last - first : first + j * Chunk < last}}
Chunks(first, last) ==
    {first + k * Chunk : k \in {j \in 0 .. last - first : first + j * Chunk <= last}}

Migrated ==
    LET starts == {r.bucket : r \in legacy}
        migrated == UNION {{r \in legacy : from <= r.bucket /\ r.bucket < from + Chunk} :
                              from \in Chunks(Min(starts), Max(starts))}
    IN  IF legacy = {} THEN << >> ELSE LegacyPivot(migrated)

-----------------------------------------------------------------------------
Init ==
    /\ schema \in Files
    /\ legacy \in IF schema.layout = "long" THEN LegacyRows ELSE {{}}
    /\ given = legacy
    /\ trend = << >>
    /\ raw = {}
    /\ pc = "tables"
    /\ writes = 0 /\ crashes = 0

-----------------------------------------------------------------------------
(* Store::open *)

NextOld(step) ==      \* mutant: the indexes before the columns they name
    CASE step = "tables" -> "trend"    [] step = "trend" -> "indexes"
      [] step = "indexes" -> "columns" [] step = "columns" -> "migrate"
      [] step = "migrate" -> "open"
NextStep(step) ==
    CASE step = "tables" -> "trend"    [] step = "trend" -> "columns"
      [] step = "columns" -> "migrate" [] step = "migrate" -> "indexes"
      [] step = "indexes" -> "open"

\* CREATE TABLE IF NOT EXISTS: with every column, in a fresh file.
CreateTables ==
    /\ pc = "tables"
    /\ schema' = IF schema.samples THEN schema
                 ELSE [schema EXCEPT !.samples = TRUE,
                                     !.columns = @ \union ColumnsOf("sample")]
    /\ pc' = NextStep(pc)
    /\ UNCHANGED <<legacy, trend, raw, given, writes, crashes>>

CreateTrendTable ==
    /\ pc = "trend"
    /\ schema' = IF schema.layout # "none" THEN schema
                 ELSE [schema EXCEPT !.layout = "wide",
                                     !.columns = @ \union ColumnsOf("trend")]
    /\ pc' = NextStep(pc)
    /\ UNCHANGED <<legacy, trend, raw, given, writes, crashes>>

\* add_column_if_missing, a statement per column: the first one missing.
AddColumn ==
    /\ pc = "columns"
    /\ LET missing == {k \in DOMAIN Columns : Columns[k] \notin schema.columns} IN
       IF missing = {}
         THEN schema' = schema /\ pc' = NextStep(pc)
         ELSE /\ schema' = [schema EXCEPT !.columns = @ \union {Columns[Min(missing)]}]
              /\ pc' = pc
    /\ UNCHANGED <<legacy, trend, raw, given, writes, crashes>>

\* migrate_trend_layout: rename, drop the old indexes, create, pivot, drop, all
\* or nothing.  The pivot reads the host and fails the open without it.
MigrateTrendLayout ==
    /\ pc = "migrate"
    /\ \/ /\ schema.layout = "wide"
          /\ pc' = NextStep(pc)
          /\ UNCHANGED <<schema, trend, legacy>>
       \/ /\ schema.layout = "long" /\ ColumnsOf("trend") \subseteq schema.columns
          /\ schema' = [schema EXCEPT !.layout = "wide", !.indexed = FALSE]
          /\ trend' = Migrated
          /\ legacy' = {}
          /\ pc' = NextStep(pc)
       \/ /\ schema.layout = "long" /\ ~(ColumnsOf("trend") \subseteq schema.columns)
          /\ pc' = "down"
          /\ UNCHANGED <<schema, trend, legacy>>
    /\ UNCHANGED <<raw, given, writes, crashes>>

\* An index on a column that is not there fails the open, and the program
\* with it.
CreateIndexes ==
    /\ pc = "indexes"
    /\ IF {<<"sample", "host">>, <<"trend", "host">>} \subseteq schema.columns
         THEN schema' = [schema EXCEPT !.indexed = TRUE] /\ pc' = NextStep(pc)
         ELSE schema' = schema /\ pc' = "down"
    /\ UNCHANGED <<legacy, trend, raw, given, writes, crashes>>

\* Committed statements stay, an open transaction is rolled back.
Crash ==
    /\ crashes < MaxCrashes
    /\ pc # "down"
    /\ pc' = "down"
    /\ crashes' = crashes + 1
    /\ UNCHANGED <<schema, legacy, trend, raw, given, writes>>

Restart ==
    /\ pc = "down"
    /\ pc' = "tables"
    /\ UNCHANGED <<schema, legacy, trend, raw, given, writes, crashes>>

-----------------------------------------------------------------------------
(* Writing *)

\* The rollups of one closed bucket: of each container that had a reading,
\* those of the metrics it had.
Batches(b) ==
    {{r \in [flush : {writes + 1}, id : Ids, bucket : {b}, metric : Metrics, e : Envelopes] :
         r.e = cover[r.id][r.metric]} :
       cover \in [Ids -> Covers]} \ {{}}

InsertContainerTrends(batch) ==
    /\ pc = "open" /\ writes < MaxWrites
    /\ LET fresh == PivotTrends(batch) IN
       trend' = [b \in DOMAIN trend \union DOMAIN fresh |->
                   IF b \notin DOMAIN fresh THEN trend[b]
                   ELSE IF b \notin DOMAIN trend THEN fresh[b]
                   ELSE Upserted(trend[b], fresh[b])]
    /\ given' = given \union batch
    /\ writes' = writes + 1
    /\ UNCHANGED <<schema, legacy, raw, pc, crashes>>

\* A container that is not running, or was not running at the last cycle,
\* has no CPU reading.
InsertSamples(ts, id, cpu) ==
    /\ pc = "open" /\ writes < MaxWrites
    /\ raw' = raw \union {[ts |-> ts, id |-> id, cpu |-> cpu]}
    /\ writes' = writes + 1
    /\ UNCHANGED <<schema, legacy, trend, pc, given, crashes>>

-----------------------------------------------------------------------------
Next ==
    \/ CreateTables \/ CreateTrendTable \/ AddColumn \/ MigrateTrendLayout
    \/ CreateIndexes \/ Crash \/ Restart
    \/ \E b \in Buckets : \E batch \in Batches(b) : InsertContainerTrends(batch)
    \/ \E ts \in Buckets, id \in Ids, cpu \in Readings \union {NoData} :
          InsertSamples(ts, id, cpu)

Spec == Init /\ [][Next]_vars

\* The open goes on, and a supervisor restarts the program.
Live ==
    /\ Spec
    /\ WF_vars(CreateTables) /\ WF_vars(CreateTrendTable) /\ WF_vars(AddColumn)
    /\ WF_vars(MigrateTrendLayout) /\ WF_vars(CreateIndexes) /\ WF_vars(Restart)

-----------------------------------------------------------------------------
(* Reading *)

Windows == {w \in Buckets \X Buckets : w[1] <= w[2]}

\* HISTORY_CONTAINER_SQL: per group of buckets the extremes and the mean of
\* the medians, skipping NULL.  A point is a group that has a row.
GroupOf(ts, group) == (ts \div group) * group

HistoryContainer(since, until, group) ==
    LET rows == {b \in DOMAIN trend : since <= b /\ b <= until} IN
    [g \in {GroupOf(b, group) : b \in rows} |->
       [m \in Metrics |->
          LET env == {trend[b].env[m] : b \in {x \in rows : GroupOf(x, group) = g}}
                       \ {NoData}
          IN  IF env = {} THEN NoData
              ELSE [min |-> Min({e.min : e \in env}),
                    max |-> Max({e.max : e \in env})]]]

\* recent_container_samples: row_to_point reads cpu_percent as an f64, which
\* fails for NULL, and one failing row fails the query.
RecentContainerSamples(id, since) ==
    LET rows == {s \in raw : s.id = id /\ s.ts >= since} IN
    IF \E s \in rows : s.cpu = NoData THEN NoData ELSE rows

-----------------------------------------------------------------------------
(* Properties *)

\* Every variable has its type; a median lies within its envelope and a file
\* that is open has the present schema.
EnvelopeOK(e) == /\ e.min <= e.max /\ e.med[2] > 0
                 /\ AtMost(<<e.min, 1>>, e.med) /\ AtMost(e.med, <<e.max, 1>>)

TypeOK ==
    /\ schema \in Schema
    /\ legacy \subseteq Rollup /\ given \subseteq Rollup
    /\ DOMAIN trend \subseteq Buckets
    /\ \A b \in DOMAIN trend :
         /\ trend[b].samples > 0
         /\ \A m \in Metrics : trend[b].env[m] = NoData \/ EnvelopeOK(trend[b].env[m])
    /\ raw \subseteq [ts : Buckets, id : Ids, cpu : Readings \union {NoData}]
    /\ pc \in {"tables", "trend", "columns", "migrate", "indexes", "open", "down"}
    /\ pc = "open" => schema = [samples |-> TRUE, columns |-> Range(Columns),
                                layout |-> "wide", indexed |-> TRUE]

\* Any window of the history of an open file, at any grouping, shows for every
\* metric exactly the extremes of the rollups that were ever stored for it,
\* whichever build stored them, in whichever batches, across crashes of the
\* migration (history_container over the three merges).
HistoryExact ==
    pc = "open" =>
      \A w \in Windows, group \in 1 .. Cardinality(Buckets) :
        LET history == HistoryContainer(w[1], w[2], group)
            inside == {r \in given : w[1] <= r.bucket /\ r.bucket <= w[2]}
            of(g) == {r \in inside : GroupOf(r.bucket, group) = g}
        IN
        /\ DOMAIN history = {GroupOf(r.bucket, group) : r \in inside}
        /\ \A g \in DOMAIN history, m \in Metrics :
             LET e == {r.e : r \in OfMetric(of(g), m)} IN
             history[g][m] =
               IF e = {} THEN NoData
               ELSE [min |-> Min({x.min : x \in e}), max |-> Max({x.max : x \in e})]

\* The mean of the medians of some rollups, weighted by their own counts.
WeightedMean(rollups) ==
    <<FoldSet(LAMBDA r, acc : r.e.med * r.e.n + acc, 0, rollups),
      FoldSet(LAMBDA r, acc : r.e.n + acc, 0, rollups)>>

\* Every container of every flush of these rollups of a bucket has all metrics,
\* with one count, and those of an older file are one to a metric (it has no
\* key): a row's count is then also that of its metrics.
Even(here) ==
    /\ \A r \in here : \A m \in Metrics :
         \E q \in here : q.metric = m /\ q.id = r.id /\ q.flush = r.flush /\ q.e.n = r.e.n
    /\ \A r, q \in here : r.flush = 0 /\ q.flush = 0 /\ r.metric = q.metric => r = q

EvenlyCovered(b) == Even({r \in given : r.bucket = b})

\* "The envelope keeps the extremes, the median is weighted by sample count"
\* (insert_container_trends): where the metrics of a bucket are covered alike,
\* a stored median is the mean of the rollups' medians by their own counts.
MedianWeighted ==
    \A b \in DOMAIN trend : EvenlyCovered(b) =>
      \A m \in Metrics :
        SameFraction(trend[b].env[m].med,
                     WeightedMean(OfMetric({r \in given : r.bucket = b}, m)))

\* A file of any earlier build is opened in the end, however often the program
\* crashes on the way (from_connection; "no such column: host").
Opens == <>[](pc = "open")

\* A chart gets the recent samples of its container, whichever of its readings
\* are missing ("Raw samples for one container at or after `since_ms`").
ChartServed ==
    pc = "open" =>
      \A id \in Ids, since \in Buckets : RecentContainerSamples(id, since) # NoData
=============================================================================
