# Verification of DockDoe

TLA+ models of DockDoe, the TLC configurations that check them on small
instances, and theorems about them that the TLA+ proof system checks for every
instance. The modules are translated from `src/src/*.rs` and `src/assets/*.js`;
`PROJECT.json` maps every definition to its lines, lists the hazards of the code
with the properties aimed at them, and for every property of a passing run a
mutation of a definition that makes the property fail.

    tlc -workers 2 -config CollectorOne.cfg MCCollector.tla
    tlapm CollectorProofs.tla

## 1. The system

DockDoe watches Docker hosts and shows them to browsers. One process serves one
or more *hosts*; a host is a Docker endpoint of its own or a *federated node*,
another DockDoe that this one (the hub) mirrors.

    Docker daemon -> collector -> shared slot -> SSE -> page
                        |  \-> notifier -> Apprise POSTs
                        v
                  bucketer -> persist job -> SQLite -> seed, backfill, history
    page -> actions, terminal -> Docker daemon, or hub -> node -> Docker daemon

| Component | State it keeps | Operations | What makes it correct |
|---|---|---|---|
| Collector (`collector.rs`) | primed flag, cycle number, its bucketer, the shared dashboard | prime, cycle (feed, publish, persist), prune cadence | readings are stored once, retention is bounded and pruning takes only what has expired |
| Trend bucketer (`trend.rs`) | start of the open bucket, accumulators | push, close | a reading enters the one bucket it belongs to, once |
| Store (`store.rs`) | `container_sample`, `container_trend`, `meta` | open and migrate, insert, upsert, prune, queries | migration and merges lose nothing and weigh rightly; queries answer what was stored |
| Notifier (`notify.rs`) | per container: status told, pending status and since when | evaluate, dispatch | an alert exactly for a change that persisted, in order |
| Stack and container actions (`docker.rs`, `web.rs`) | the host's read-only latch; all else in the handler's frame | list members, order, stop, wait, start, retry | dependency order, an honest outcome, an end |
| Terminal (`terminal.js`, `web.rs`, `docker.rs`) | the page's socket and flags, two pumps per bridge | connect, relay, resize, hang up | pipes keep order, everything ends together |
| Federation (`federation.rs`) | resolved name, stream or poll mode, mirrored slot and latch | resolve, connect, consume, poll, forward | the page catches up with the node and never goes back |
| Live streams (`web.rs`) | per connection: the last snapshot sent | tick, send | as above |
| Live charts (`live.js`) | points, EventSource, timers, visibility | seed, backfill, push, reconnect | points in order, none missing, alive |
| Rates (`docker.rs`) | per container: the last I/O and CPU counters | list, ask, reap, divide | no byte counted twice or left out, a CPU value whenever there is a baseline |
| Start (`main.rs`, `config.rs`) | the configuration, the hosts' tasks; the stored secret | load and validate, open, build auth, add hosts, bind, stop | what is served has been configured, a half-configured login is refused |
| Guards and login (`web.rs`, `auth.rs`) | none but the secret; the browser's cookie | check host, token or session, htmx header; login, logout | nothing guarded without a credential, sessions that last, redirects that end |
| HTML, logs, history page | none | rendering, proxying | not modelled, see section 8 |

They interact through shared state (the dashboard slot between collector or hub
loop and every stream; the read-only latch between every handler and every
stream; the one SQLite connection between all hosts), through detached tasks
(the notifier's POSTs), the blocking pool (persist jobs) and HTTP (browser, hub
and node).

The hard behaviours: three transactions of a job that fail one by one; a wall
clock that is set back; a stop between any two steps; several hosts pruning one
table; detached POSTs; a daemon that goes on living while a handler waits for
it; hubs that give up on requests their node goes on with; two-hop streams with
reconnects; a chart fed from a database and a stream that lag behind each other;
counters that restart while a baseline waits for the next reading; events cut
into chunks anywhere; a login whose secret, cookie and configuration are each
replaced at another moment; two pumps under a `select!` on each of two bridges;
in-place migration of files of five earlier builds. The full list, each at its
line, is under `hazards` in `PROJECT.json`.

## 2. The modules

| Module | Models | State and actions against the code |
|---|---|---|
| `Collector` | `collector::run`, `persist`, `Bucketer`, the store's writes and prunes, shutdown, kill, restart; the raw history query | one step per stretch without an await (`Collect` is everything from reading the clock to the start of `persist`), one per transaction, one per failure; a history request is two: it decides for the raw table (`ResolveHistory`), its query reads it later (`AnswerHistory`) |
| `SampleLifecycle` | abstract: the life of a reading: open, closed, kept, gone | implemented by `Collector` under the mapping `Phase` |
| `CollectorProofs`, `NotifierProofs`, `FederationProofs`, `StackProofs`, `TerminalProofs`, `AccessProofs`, `RatesProofs`; `HistoryProofs` | theorems about the module of that name; about `TrendStore` and `LiveChart` | section 6 |
| `Notifier` | `Tracker::evaluate`, `observe`, `dispatch` and the detached POSTs | a collection is `Begin` (the listing) and `Evaluate` (with the clock of its end) |
| `Federation` | the hub's loop (`run`, `consume_stream`, the poll fallback), `SseParser`, `dashboard_stream` on both hops, the page | one step per await; an event of the node travels in two pieces and a chunk holds any number of them; the two stores of a snapshot (flag, then slot) are two steps |
| `LatestRelay` | abstract: a viewer sees published snapshots and never an older one after a newer one | implemented by `Federation` with the page's view |
| `StackAction` | `stack_action`, `topo_order`, `start_in_order`, `stop_in_order`, `wait_healthy`, `wait_completed`, `container_action`, the latch | one step per call to the daemon; deadlines and sleeps are timers; `probed` is whose healthcheck has anything to show |
| `LiveChart` | `live.js` of a container page, its seed, backfill and stream, for a local and a federated host | one step per callback, request, answer |
| `TrendStore` | `Store::open` with its migrations; `pivot_trends`, the upsert, `LEGACY_PIVOT_SQL`; `history_container`, `recent_container_samples` | one step per statement of the open, the layout migration being one transaction; medians are fractions |
| `Terminal` | `terminal.js`, `ws_exec`, `exec_bridge`, `federated_exec_bridge`, `exec_socket`, `exec_start` | two pumps per bridge with a frame in hand each, bounded buffers per direction of a connection |
| `Startup` | `config::load`, `validate_hosts`, `main` with `build_auth` and the host loop, `Store::session_secret`; the operator's edits, kills, restarts | one step per part of `main` that can end it; only the file and the `meta` row outlive a process |
| `Access` | `check_host`, `require_auth`, `require_htmx`, `host_index`, `login_page`, `login_submit`, `logout`, the signed cookie | extends `Startup`; a request is an operator of the state (`Guarded`, `Answer`), and one browser sends requests and follows redirects |
| `Rates` | `DockerClient::collect`, `build_metrics`, `io_rates`, `cpu_percent`, the priming cycle | one step per answer of the daemon; `Finish` is everything after the last one |

`MC*` modules extend the module of that name; some of them add the values that a
configuration cannot spell (stacks, envelopes, files of earlier builds, config
files).

Composition. `Collector` holds the bucketer, the job and the store because one
reading passes through all three. `Federation` has both hops and the page in it
since its properties relate the two ends. `LiveChart` uses what the others
establish as its interface: a collector that publishes before it persists
(`Collector`), a stream that sends the slot if it is new (`Federation`), and a
query that answers in order of time (`TrendStore`; where that query fails, see
the finding below, a chart is empty, which `LiveChart` sees as a lost answer).

`Access` extends `Startup`, so that one behaviour has a browser with an old
cookie, an operator with an editor and a program that is killed in the middle of
its start.

## 3. What is abstracted

* Values. A reading is its host, name, ordinal and timestamp and whether it has
  a value. A snapshot is its number. A frame is its number in its session. Only
  `TrendStore` computes with values, small envelopes whose merges are exact.
* A trend row in `Collector` is the set of the readings it was computed from,
  which makes "twice" and "in the wrong bucket" visible.
* Strings, HTML, JSON, SQL text, TLS and the WebSocket protocol.
* A session cookie is its expiry and the number of the secret that signed it; a
  signature is valid for that secret alone.
* In `Rates` one counter of work stands for the CPU time and the four byte
  counters, which go through the same steps; a busy container does one unit of
  it in a unit of time.
* Time is a natural number that a step advances. Only `Collector` and `Notifier`
  let the wall clock be set; the others use monotonic timers.

## 4. The runs

| Run | Checks | Distinct states |
|---|---|---|
| `collector_one` | one host with a failing transaction, a stop or kill, a clock set back and a page that asks for raw history: `SampleOnce`, `BucketBounds`, `Accounted`, `RetentionBound`, `RawHistoryComplete`, `PruneOnlyExpired`, and `ImplementsLifecycle` (refinement) | 1.5 million |
| `notifier` | `AlertJustified`, `AlertNotMissed`, `InOrder` | 6.8 million |
| `federation` | `ImplementsRelay` (refinement), `CatchesUp`, `MirrorsReadOnly` | 170 thousand |
| `stack` | `DependencyOrder`, `OutcomeHonest`, `HealthyFirst`, `Terminates` | 550 thousand |
| `chart` | `Seamless`, `StaysLive` | 410 thousand |
| `store` | `HistoryExact`, `MedianWeighted`, `Opens` | 156 thousand |
| `terminal` | `PipesFaithful`, `OneSession`, `EndsTogether`, `SizeSettles` | 800 thousand |
| `access` | `SessionLasts`, `Admission`, `Lands` | 400 thousand |
| `rates` | `RateHonest`, `SteadyReading` | 1.7 million |
| `store_null`, `config_zero`, `rates_skew` | violated: section 7 | – |

Each passing run also checks its module's `TypeOK` (`ChartTypeOK`), which holds,
besides the types, what bounds the state (the reaped baselines of `Rates`, one
entry per host of `Startup`). `CollectorTwo.cfg` runs `RawHistoryComplete` and
`PruneOnlyExpired` with two hosts that prune one store (1.6 million states); it
passes too and is not listed because the theorems of section 6 cover every
number of hosts.

What they show, in words:

* *Collector.* A reading enters at most one trend row, and none while it is
  still open; a row holds nothing from after its bucket, nor from before it
  unless the clock was set back. While no transaction fails every reading is
  open, on its way, in a row, or older than the retention. As long as the clock
  is not set back either, a raw row outlives its retention by less than a prune
  cadence. Without any such condition no row is pruned inside it. A history
  query that was decided as raw, because its window begins inside the retention,
  waits for the store while cycles and prunes go on. While no transaction fails
  it still finds every reading of this process and the one on the page, but for
  those its host is about to insert and those that have left the retention since
  the decision. With failures and stops the life of a reading is still one of
  `SampleLifecycle`, where the closed readings of a host become kept or are lost
  together.
* *Notifier.* An alert goes out if and only if a status other than the one last
  told was seen by the running process over the whole delay. Two alerts for a
  container cannot overtake each other, because the delay is longer than the
  timeout of a POST.
* *Federation.* Over both hops, with broken connections, restarts of either
  side, a renamed host and a node without the endpoint, the page never goes
  back, and once the upsets end and wherever the chunks were cut, it shows the
  newest snapshot and the node's latch.
* *Stack actions.* For every dependency relation of three services (cyclic ones
  included) and four shapes with healthchecks, one-shots, shared namespaces and
  members that never start: wherever there is no cycle a member is started after
  what it needs has had its turn and stopped before it, a success means that
  everything runs, and every action ends. A wait for a healthy dependency ends
  only when it is healthy, has no healthcheck, has run out of time, has exited
  as it was meant to, or has never run: then there is no health to see, and the
  code takes that for no healthcheck. `HealthyFirst` allows the last only for a
  dependency that had its turn, that is whose own start has just failed.
* *Chart.* For a host of this instance the points stay in order, and none is
  missing between two of them but a sample that the next one replaced in the
  slot between two ticks of the open stream, and what a failed or cut-off
  backfill left out. For any host a visible page ends up with the newest sample.
* *Store.* Any file of an earlier build is opened in the end although the open
  is cut off at any statement; any window at any grouping shows exactly the
  extremes of what was ever stored; and a median is the weighted mean of its
  parts wherever the metrics of a row are covered alike.
* *Terminal.* Over one bridge or two, whatever hangs up first, the others end
  too; what arrives is a prefix of what was sent, both ways; the process ends up
  with the size of the window.
* *Start and access.* Under every order of edits, refused starts, kills and
  restarts: a cookie is good until its expiry with every later instance that
  asks for a login; a guarded handler runs only for the configured token, a
  login younger than the TTL, or where neither file nor flags name a user or
  password; and a browser that follows its redirects comes to an end.
* *Rates.* With failed listings and calls, containers that stop, vanish or are
  started again, reboots and restarts: a rate never claims bytes that were not
  moved between the two answers it compares and claims all of them if nothing
  was restarted; a CPU value is there exactly from the second answered reading
  on.

### Bounds, and why they are enough

Every bound is a constant named in its module and set in the `.cfg`.

* `Collector`: a bucket of two ticks, retentions of one and four ticks, three
  cycles within five ticks: buckets close, skip and reopen, prunes take raw rows
  and trend rows, and one upset of each kind (a failed transaction, a stop, a
  clock set back) falls anywhere in between, five cycles and upsets together.
  One container is enough: containers do not interact in the bucketer, and
  listed-without-a-reading is a separate choice. Two hosts meet only in the
  prunes, which two cycles each and one upset bring about. A window of history
  is at most one tick long (`MaxWindow`), which covers its first rows, its last
  ones and the newest; while a query waits there are three cycles and upsets at
  most (`MaxAsked`), enough for the one that stores a row, one that the request
  falls behind, and one that prunes.
* `Notifier`: a delay of two units over five lets a change flap, settle, be told
  and settle again. Changes fall only between collections: `Begin` is the only
  step that reads the condition, so a change during a collection is equivalent
  to one after it. One container: the tracker keeps an entry of its own each.
* `Federation`: two snapshots and two upsets of any kind; two names for the
  node's host give the rename, one denial the latch. Connections hold two
  events, four pieces, so that a chunk may hold the end of one and the beginning
  of the next, and be the rest of a broken one.
* `StackAction`: three containers, all 64 relations between them; budgets of two
  and one polls are enough for a wait to be met, to run out, and for a second
  pass; one flaw, one failed inspection, one interference.
* `LiveChart`: four samples whose distances put two into one second or leave a
  gap, a chart of four points, five events in all.
* `TrendStore`: three buckets in two chunks of the migration (as the half-open
  chunks need a bucket on a boundary and one past it), two metrics, two
  containers of one name, two transactions, one crash.
* `Terminal`: two sockets, since the second is where handlers of the first can
  do harm; buffers of one frame, so that every write can block; two events among
  keystrokes, output, a resize, an upset and a hasty click, so that two frames
  can follow each other over both bridges.
* `Access`: eleven files and three sets of flags, with a login from the file,
  from the flags, from both and from half of each, one host or two, refused
  hosts and settings; two starts and one edit between or during them; a TTL of
  one within two units of time, so that a session expires while the browser
  holds it. One browser: the guards keep no state of a request.
* `Rates`: one container, since containers share only the end of a cycle, which
  any step may put off; four units of time give a priming cycle, a published one
  and another, with two upsets between.

`CHECK_DEADLOCK FALSE` is set in every configuration: the bounds end the
behaviours, and a page or a stack that nobody uses may stop.

### Fairness, and what in the code justifies it

* `Federation`: the hub's loop and both streams are tokio tasks driven by
  tickers; a stopped process is restarted by its supervisor (the compose file's
  restart policy); the page runs its handlers. Nothing is assumed of the network
  but that upsets end (`MaxUpsets`), and of the node that it goes on publishing.
* `StackAction`: the handler is polled, every call to the daemon returns, time
  passes. Nothing is assumed of the containers.
* `LiveChart`: timers and callbacks run, requests to a running server end, the
  ticker ticks, the server is restarted. Not that the tab is ever shown.
* `TrendStore`: the open goes on, and a supervisor restarts the program.
* `Access`: the server answers a request and a client notices that nothing
  listens. Nothing is assumed of the operator, the user or the start.
* `Terminal`: one assumption, that whatever can go on does, including that the
  process in the container reads its input.

`LiveChart` has one more assumption, the constant `RoundTrip`: a persist and a
page's request fit between two samples, and a restart takes longer. Without it a
sample can be persisted after the backfill was read and replaced in the slot
before the stream opens.

Of an open stream nothing is assumed: the collector publishes without waiting
for anybody, while the stream looks at the slot once a second. With an interval
of a second, which the flag and the file accept, or after a late tick, a sample
is replaced before it was sent. The model collects these samples in `missed`;
`Seamless` says that the chart lacks no others.

## 5. Abstract specifications

`SampleLifecycle` states what collectors, bucketers and store promise for a
reading without buckets, jobs or clocks. `Collector` implements it with
`phase[r] <- Phase(r)`, computed from where the reading is; the run checks
`Lifecycle!Spec` as a property. A cycle that closes a bucket maps to `Take`, the
commit of the trends to `Keep`, its failure to `Lose`, a prune to `Expire`, a
shutdown or kill to `Stop`, all else to stuttering.

`LatestRelay` states what a chain of live views promises its last viewer.
`Federation` implements it with the node's count of snapshots and the page's
view.

## 6. What is proved

Every safety property that a run checks is a theorem for every value of the
constants. The properties of liveness are not (see the end of this section). The
proofs are in eight modules, each named after the model it is about;
`HistoryProofs` is about the two that keep and show a container's history.

| Module | Theorems | State |
|---|---|---|
| `CollectorProofs` | `TypeCorrect`, `CountsOnce`, `BucketsBounded`, `PrunesOnlyExpired` | `TypeOK`, `SampleOnce`, `BucketBounds`; the action property `PruneOnlyExpired` |
| | `NoneLost`, `RawHistoryHolds`, `RetentionHolds`, `LifecycleImplemented` | `Accounted`, `RawHistoryComplete`, `RetentionBound`; that `Collector` implements `SampleLifecycle` |
| `HistoryProofs` | `StoreInvHolds`, `TypeCorrect`, `HistoryIsExact`, `MediansAreWeighted` | the inductive invariant; `TypeOK`, `HistoryExact`, `MedianWeighted` |
| | `ChartTypeCorrect`, `ChartInvHolds`, `ChartIsSeamless` | `ChartTypeOK`; the inductive invariant and `Seamless`, under `RoundTrip` |
| `NotifierProofs` | `TypeCorrect`, `AlertsAreJustified`, `NoAlertIsMissed`, `AlertsInOrder` | `TypeOK`, `AlertJustified`, `AlertNotMissed`; the action property `InOrder` |
| `FederationProofs` | `TypeCorrect`, `MirrorRelays` | `TypeOK`; that `Federation` implements `LatestRelay` |
| `StackProofs` | `TypeCorrect`, `OutcomesAreHonest`, `OrderHolds`, `HealthHolds`, `TopoFacts` | `TypeOK`; the action properties `OutcomeHonest`, `DependencyOrder`, `HealthyFirst`; what `topo_order` returns |
| `TerminalProofs` | `TypeCorrect`, `OneSessionHolds`, `PipesHold`, `SessionsKept` | `TypeOK`, `OneSession`, `PipesFaithful`; the invariant they rest on |
| `AccessProofs` | `TypeCorrect`, `SessionsLast`, `AdmissionHolds` | `TypeOK`, `SessionLasts`, `Admission` |
| `RatesProofs` | `TypeCorrect`, `RatesAreHonest`, `ReadingsAreSteady` | `TypeOK`, `RateHonest`, `SteadyReading` |

### The collectors

`TypeOK` is inductive; a lemma each gives the types of what a cycle makes and of
a running job. `StepKinds` reduces the twelve actions to two kinds: a *quiet*
step takes no reading (what is open or rolled up only shrinks or stays), and a
*cycle* of one host takes new ones and may close a bucket.

* `SampleOnce` is not inductive: nothing in it says that a reading a cycle takes
  is new. `OnceInv` adds `OwnOpen` (open readings belong to their host and have
  an ordinal already used) and `PastRolled` (so do rolled-up ones). A new
  reading has the next ordinal, so it differs from all of them.
* `BucketBounds` speaks of closed buckets. `BoundsInv` adds `OpenBounds`, the
  same of the open one with what the clock allows: its start is a multiple of
  the width and, unless the clock was set back, not in the future.
  `BucketStartBounds` is the arithmetic of `Bucketer::push`.
* `PrunesOnlyExpired` needs that a job carries the time of a cycle that was made
  (`JobStamped`), so that what lies before its cutoff (`BeforeCutoff`) has aged
  by the retention for some cycle.

The second half of `CollectorProofs` follows a reading through all of it.
`JobShape` says what a job still holds after each of its transactions: without
it, a prune could come before an insert.

* `Accounted` is `Ledger`: each reading of this run is in one of the four
  places. A cycle moves the open bucket into its job, a transaction moves the
  job's part into a table, and a reading that leaves a table was old enough.
* `RawHistoryComplete` is about a query that may wait for any time. `Recorded`
  says where a reading is: every one of this run, and every one on the page, has
  its raw row, or has it in a job, or is past the retention for some cycle.
  `Entitled` keeps what the decision established, that the window began inside
  the retention *then*; so what is past it now has left it since
  (`RecordedIsComplete`). Nothing is assumed of the clock.
* `RetentionBound` counts a host's own cycles. `Swept` says that a row that is
  still there had not expired at the host's last pruning cycle, which is the one
  whose number is a multiple of the cadence (`JobIsLast`, `LastPrune`).
  `TimesRise` is needed because a prune compares with the time of *its* cycle,
  not with the clock.
* `LifecycleImplemented`: the mapping takes a reading to the first of the places
  it is in, and `Apart` says that a rollup in flight is not in the table yet, so
  that a commit moves a whole bucket at once. One lemma per action shows the
  step of `SampleLifecycle`, or the stutter, that it is.

### The database file

The properties of `TrendStore` speak of folds over sets of rollups, which the
community modules compute in the order of a `CHOOSE`. The proofs unfold them in
three layers.

* Folds. `SubsetInduction` is induction on the subsets of a finite set, derived
  from the well-founded order of finite sets; `SetRecursion` gives a recursive
  function on them for any base and steps; `FoldsAgree` says that two such
  functions agree where both are defined, so a fold has its equation
  (`FoldOfStep`). `TotalRemove` then shows that a sum does not depend on the
  order in which members are taken, which gives the sum of a union
  (`TotalUnion`) and of sets that match one to one (`TotalMatch`).
* Merges. `Summarises` says what makes a value the envelope of a set of rollups,
  `Balanced` that its median is their weighted mean. `MergeSummary` says that a
  merge keeps the first whatever the weights, `MergeBalanced` that it keeps the
  second if the weights are the counts; `FoldedGathers` extends both to any
  number of rollups.
* Rows. `RowOf` is what a wide row has to do with the rollups of its name and
  bucket, and `PivotRow`, `UpsertedRow` and `LegacyRow` show that each of the
  three merges of the code makes such a row. `MigratedAll` is the arithmetic of
  the migration's chunks.

The inductive invariant is `PathOK` (how far an open has come tells what of the
schema is there) with `RowsOK`: before the layout migration the legacy table
holds every rollup ever stored and the wide one none, after it each rollup is in
the row of its bucket. `HistoryExact` then follows for any grouping, since the
extremes of a group of rows are those of all their rollups (`ExtremesOfRows`).

The attempt corrected the model: the legacy table has no key, so one container
may have two rollups of a metric in a bucket, and the row made of them has the
larger of their counts, not the sum. `EvenlyCovered` now leaves such buckets out
(a later upsert weighs that row too lightly), and the runs have such a file.

### The live chart

`Seamless` is about pairs of neighbours on the chart; what a step appends
depends on what the chart does *not* show yet, and that is what `ChartInv` adds.
Let the rows be those of the database and the one being written, without the
samples that an open stream has missed between two ticks (`Rows`; without the
one being written, `Owed`). After the chart's last point, if that is no cut,
every row

* is in the answer under way or *late* (`AnswerInv`),
* is late while the stream connects (`ConnectInv`),
* is the sample in the slot while the stream is open (`OpenInv`),

where a late row is the newest sample, still in the slot, of which there may be
one at most (`Late`). That one is what the order of `collector::run` brings
about, which publishes before it persists: a sample may be in the slot and in no
answer, but never in neither. `RoundTrip` is needed where a second late row
would follow the first (`LocalPublish`) and where a restart, which begins with
an empty slot, would overtake a page that is not live yet (`LocalStart`). A
sample that is replaced while a stream is open either was sent, and is on the
chart, or is missed, and is no row any more. `SlotInv` ties slot and job to the
last sample, and the answer and the seed are `Convex`: they miss no row in
between.

The lemmas are in three layers. `SecondFacts`, `SecondMono` and `SinceCovers`
are the arithmetic of an axis coarser than the timestamps, the last one that
`since` loses nothing of the last point's second. `SeedSound`, `PushSound` and
`CappedSound` say what one round of the loops does to a chart that is `Sound`
(it ends in a sample, is in order, and has no gap). `SeededSound` and
`ExtendedSound` are inductions over the rows in their order.

### The notifier

The model remembers every snapshot of a container; the code keeps two statuses
and a time. `SumsUp` says what the code's three values say of all the snapshots:
which status was told last, and, if another is pending, the very snapshot it
began at. `AlertJustified` needs no more (`Kept`). `AlertNotMissed` also needs
timestamps in order (`OnTime`), so it holds until the clock is adjusted.
`AlertsInOrder` has a hypothesis, `PostTimeout < DelayMs`: 10 s in `notify.rs`
against a default of 30 s (`notify_delay_secs`). `OrderInv` says that a change
began to be pending after every POST still in flight was sent, so that by the
time it is told, that POST is over.

### Federation

`MirrorRelays` sorts what is under way from the node to the page into six
stages: on the wire and in the parser's buffer, parsed, in the loop's hand, in
the hub's slot, on the way to the page, shown. `Chain` says that no stage holds
a snapshot newer than one in a stage before it, `Rising` that each queue is in
order in itself, and the node's own number bounds all. The text before the
parser is a sequence of *pieces*, two to an event, cut anywhere: `Paired` says
that a piece that ends an event has its beginning before it in the buffer or was
cut off with it, and the lemmas about `Decoded` count which events a chunk
completes. After that, each action only moves snapshots from one stage to a
later one.

### Stack actions

`TopoFacts` is about `topo_order` alone. Its waves and the filter in them are
recursive functions; `Recursion` says that such a function exists and
`Induction` how to reason about it, both from `LeastNat`, which a well-founded
order of the library gives for finite sets. After each wave (`After`) what is
placed and what is left are the members, at most as many are left as waves
remain, the order is `Sorted`, and no placed member needs one that is left
(`Settled`). The wave that finds nobody ready is the hard case: `StuckIsCyclic`
takes, among those left that a member needs, one that needs the fewest, and
finds a cycle below it, so the order owes that member nothing.

`StackInv` then follows an action through its members. `OrderInv`: it goes
through that order, or through it backwards. `StopInv`: whom a stop has gone
past is stopped or refused. `PassInv`: whom a pass without failures has gone
past is running or meant to exit; with `OrderInv`, that is every member at the
end. `HealthInv`: what the current member needs healthy is still to be waited
for, being waited for, or met, given up on, gone as it was meant to, or has no
health to show (`Fit`). For the last case `TurnsInOrder` shows that such a
dependency had its turn before, wherever there is no cycle.

`OrderHolds` and `HealthHolds` have a hypothesis, `Single`: every service of a
stack has one container. Without it the code keeps neither promise, as it waits
for one container of a service only (`StackScaled.cfg`) and takes a service for
placed as soon as one of them is. `TypeCorrect` and `OutcomesAreHonest` need no
such thing.

### Terminal

The longest proof. A direction of a session is a chain of queues and hands: leg,
bridge, leg and, at a hub, another bridge and leg. `Flow` describes any such
chain, either way round: there are numbers `lo` and `hi` for each leg so that
the frames of a kind in it are just `lo + 1 .. hi` (`Run`), the hand between two
legs holds the frame in between or nothing, and what the sink has is the `lo` of
the last one. A leg whose end was dropped frees the chain from the equation at
that place, and only there; so what arrives after a cut is still a prefix. The
lemmas `FlowRead`, `FlowWrite`, `FlowToss`, `FlowFeed`, `FlowDrain`, `FlowCut`,
`FlowFresh`, `FlowShut` are about chains alone and are used for both directions
and both lengths.

`PipeInv` puts that together with how a session is wired (`Wired`): bridges open
one after the other, only one that is up holds frames, a dropped end leaves
nothing unread, the process gets only keystrokes; with what the page knows of
its sockets (`Socked`, `Current`); and with `OneSession`. The last is needed for
the order of the output too: a frame goes to the terminal of the *current*
session, and its number fits only if that session is the frame's own. A lemma
per action follows. The output's part of it (`OutFlow`) is stated, as
`PipesFaithful` and `OneSession` are, while nobody clicks on Connect during a
connect (`hasty = 0`).

### Start and access

`StartInv` ties what a running instance has to the configuration it was given:
`auth` is there exactly if a user or password is set once the hosts are added,
its secret is the stored one, and the hosts opened so far are the first of those
configured (`Placed`). `AccessInv` adds that the browser's cookie is of its last
login, a TTL before its expiry, and that it is signed with the stored secret,
which is written once and never replaced; that is why a cookie outlives every
restart.

### Rates

A counter may restart with its container or its host, and a baseline may be
several readings old. `RatesInv` compares three points in time, the baseline,
the answer of the cycle under way and now, in pairs (`BaselineNow`, `AnswerNow`,
`BaselineAnswer`): as long as the *life* (starts, reboots) is the same, the
difference of the counters is the work done, and no more than the host had time
for; after another start the counter is at most the work since (`Grown`,
`Spent`). `Existed` and `Remembered` say that a baseline is reaped only when its
container is gone for good, which `SteadyReading` needs.

### Assumptions

The proofs use what the modules assume of their constants, which TLC evaluates
in every run: `BucketAssumption` (a positive width; the code has a positive
constant), `RetentionAssumption`, `CadenceAssumption`, `IntervalAssumption`,
`DelayAssumption` and the bounds (natural numbers); `NullAssumption`,
`JobAssumption`, `FrameAssumption`, `RatesNulls` (that a null value is none of
the values it stands for, as `Option` has it); `TerminalAssumption` (the sockets
are numbered, a connection has room for a frame); `FilesAssumption`,
`FlagsAssumption` and `PagesAssumption` (files and flags are what `config.toml`
and the command line can say, and every host that is accepted has a URL);
`StackAssumption`, `ProxyAssumption`, `TimerAssumption` and `NoDepAssumption`
(the types of a stack, and one more null value); `ChartAssumption` (positive
distances and sizes). The only hypotheses beside them are the one of
`AlertsInOrder`; `Single`, which all stacks of `StackAction.cfg` satisfy; and
`RoundTrip` (section 4), which `LiveChart.cfg` sets.

Every invariant was checked by TLC on the instances of section 4 before it was
proved.

### What is only model-checked

* Liveness (`CatchesUp`, `MirrorsReadOnly`, `Terminates`, `StaysLive`, `Opens`,
  `EndsTogether`, `SizeSettles`, `Lands`): the prover does no `ENABLED`, on
  which fairness rests.

## 7. Where the code and its texts disagree

Three runs end in a violation of a property that a text of the repository
states.

* `store_null`: one sample without a CPU reading (a container that is not
  running, or has just been started) makes the query behind a container's charts
  fail, and the charts stay empty as long as that row is inside the window.
* `config_zero`: a `config.toml` with a global `interval_secs = 0` is accepted.
  The flag refuses it and a host's own interval is checked, but the merged
  global one is not: the collector panics in its task and the instance serves a
  host that nothing feeds.
* `rates_skew`: the counters are stamped with the end of the cycle they were
  read in. One slow call puts that end off for every container; the next cycle
  then divides by too short a time, and shows a rate above what was ever moved.

Some behaviours that a reader may not expect contradict the texts less directly,
and are kept as configurations outside the list of runs, each with one property
that TLC finds violated:

* `StackLatch.cfg` (`DenialLatches`): a stack action whose calls are all denied
  with a 403 does not latch the host, a container action does.
* `StackSpin.cfg` (`NoSpin`): a one-shot that exits and is started again counts
  as progress in every pass, so the loop never pauses while another member
  cannot start.
* `LiveChartHub.cfg` (`TimestampOrder`): on a federated host the first live
  point can be older than the last one of the backfill.
* `CollectorFlush.cfg` (`NothingToFlush`): a clean shutdown drops the open
  bucket.
* `FederationEvery.cfg` (`EverySample`): a snapshot that is replaced within a
  second is not sent.
* `FederationOld.cfg` (`PollsOnlyOldNodes`): a node renamed under its hub
  answers 404, and the hub polls it from then on.
* `StackBudget.cfg` (`WithinBudget`): a pass waits `DEP_WAIT` for each
  dependency and looks at the budget only when it is over.
* `CollectorRaw.cfg` (`RawHistoryExact`): a history served raw, with "full
  resolution, exact values" (`web.rs:1119-1121`), may lack the first rows of its
  window, which a prune takes between the decision and the query.
* `StackUnrun.cfg` (`HealthyOrGivenUp`): "a `service_healthy` dependency is
  waited on until its healthcheck reports healthy" (`docker.rs:216-217`), but a
  dependency whose first start has just failed shows no health, and its
  dependent is started at once.
* `StackScaled.cfg` (`HealthyFirst`): of a service with several containers only
  one is waited for.

And two that the conditions of a property leave out. A click on Connect while a
socket is connecting opens a second session; if the first one then opens and the
button is clicked again, the page shows itself disconnected while the first
socket and its process stay (`OneSession` is stated for `hasty = 0`). A process
that stops reading its input and is silent keeps its bridge after the browser
has gone, because `from_client` waits in its write (`EndsTogether` assumes that
the process reads).

## 8. What is not modelled

* HTML rendering, `overview.js`, `history.js`, logs, compose files: output only.
* In the store: the stack queries, `id` and `stack` of a row and the lookup of a
  name by id (in `Collector` a container keeps its id, so one name stands for
  the id of its raw rows and the name of its trend rows), SQLite itself (a
  transaction is atomic). Of the history endpoints the named ranges, which are
  constants.
* Memory, ports, names and states in a snapshot: passed on as the daemon reports
  them. The parsing of sizes, slugs, addresses and labels; TLS set-up.
* In the SSE parser: comments and unknown fields, which yield no event, and a
  character cut in two, which is decoded lossily and changes a text.
* Settings that drive no decision of the start: paths, retention, display. Of
  the sizes the memory cap is merged and checked, their parsing is not modelled.
* A connection that is gone without either end noticing, in `Terminal` and
  `LiveChart`; in `Federation` it is covered by the stream's stall timeout.

## 9. Plan

Built, in this order: `Collector` with `SampleLifecycle` and its proofs;
`Notifier`; `Federation` with `LatestRelay`; `StackAction`; `LiveChart`;
`TrendStore`; `Terminal`; `Startup` and `Access`; `Rates`; the SSE parser in
`Federation` and the raw history in `Collector`.

Proved, in this order: `Collector` (types, `SampleOnce`, `BucketBounds`,
`PruneOnlyExpired`), `Notifier`, `Access`, `Rates`, `Federation`, the rest of
`Collector` with its refinement, `Terminal`, `StackAction`, `TrendStore`,
`LiveChart`.
