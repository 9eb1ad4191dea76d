----------------------------- MODULE LiveChart -----------------------------
(***************************************************************************)
(* The live chart of a container's page (assets/live.js) and what feeds    *)
(* it: the seed in the page, the backfill fetched before every connection, *)
(* and the event stream (src/web.rs).                                      *)
(*                                                                         *)
(* Seed and backfill come from the database, the stream from the shared    *)
(* slot, and the collector publishes a sample to the slot before it        *)
(* persists it.  For a host of this instance the slot is the collector's   *)
(* own.  For a federated one the backfill is proxied to the node's         *)
(* database while the stream follows the hub's copy of the node's slot,    *)
(* which lags behind at its own pace.                                      *)
(*                                                                         *)
(* A sample is its timestamp, in units of which PerSecond make a second;   *)
(* 0 is no sample.  The clock of this module only moves on.  Buffers that  *)
(* are lost with a connection are not told apart from events never sent.   *)
(***************************************************************************)
EXTENDS Naturals, Sequences

CONSTANTS
    Sources,     \* may the page's host be a federated one: TRUE, FALSE or both
    PerSecond,   \* timestamps per second of the chart's axis
    Steps,       \* possible distances of a sample from the one before
    GapSecs,     \* wider spacings break the line (gapSecs)
    MaxPoints,   \* MAX_POINTS
    SeedWindow,  \* seed_window, in units of a timestamp
    RoundTrip,   \* a persist and a page's round trip fit between two samples
    NoJob,       \* nothing is being persisted
    MaxPub,      \* bound on the samples published
    MaxUpsets,   \* bound on dropped connections, failed requests, failed
                 \* transactions, restarts and hidden pages
    MaxEvents    \* bound on samples and upsets together

ASSUME ChartAssumption ==
    /\ Sources \subseteq BOOLEAN /\ RoundTrip \in BOOLEAN
    /\ PerSecond \in Nat \ {0} /\ MaxPoints \in Nat \ {0}
    /\ Steps \subseteq Nat \ {0} /\ GapSecs \in Nat \ {0} /\ SeedWindow \in Nat
    /\ MaxPub \in Nat /\ MaxUpsets \in Nat /\ MaxEvents \in Nat
    /\ NoJob \notin Nat

VARIABLES
    federated, \* the page's host is a federated node's
    up,        \* the process that serves the page is running
    latest,    \* the last sample the collector published
    job,       \* the sample being persisted
    db,        \* the samples in the database
    slot,      \* the dashboard the page's stream looks at
    page,      \* "none", "rendered" (the seed is in the page) or "loaded"
    seed,      \* the samples of the seed in the page
    hidden,    \* document.hidden
    chart,     \* the points of the chart
    fetch,     \* the backfill request: "none", "asked" or "answered"
    since,     \* its since_ms
    points,    \* the samples of its answer
    es,        \* the EventSource: "none", "connecting" or "open"
    sent,      \* what the stream sent last (the dedup of dashboard_stream)
    timer,     \* reconnectTimer is running
    pub,       \* ghost: samples published so far
    upsets,    \* ghost: upsets so far
    grace,     \* ghost: samples that may be published before the page is live
    cut,       \* ghost: points after which a backfill is known to be cut off
    missed     \* ghost: samples replaced in the slot before a tick of the open
               \* stream had sent them

collector == <<federated, latest, job, db, pub>>
request == <<fetch, since, points>>
stream == <<es, sent>>
ghosts == <<upsets, grace, cut, missed>>
chartVars == <<up, collector, slot, page, seed, hidden, chart, request, stream,
          timer, ghosts>>

Hole == 0                          \* the value of a null sample
Point == [t : Nat, s : Nat]

Upset == upsets < MaxUpsets /\ pub + upsets < MaxEvents /\ upsets' = upsets + 1
Second(s) == s \div PerSecond

-----------------------------------------------------------------------------
(* Points *)

LastTime(c) == IF c = <<>> THEN 0 ELSE c[Len(c)].t

\* A spacing wider than the gap gets a null point just after its start.
Broken(c, t) ==
    IF c # <<>> /\ t - LastTime(c) > GapSecs
      THEN Append(c, [t |-> LastTime(c) + 1, s |-> Hole]) ELSE c

Capped(c) == IF Len(c) > MaxPoints THEN SubSeq(c, Len(c) - MaxPoints + 1, Len(c))
                                   ELSE c

\* push: a point in the second of the last one is skipped.
Push(c, s) ==
    IF c # <<>> /\ LastTime(c) = Second(s) THEN c
    ELSE Capped(Append(Broken(c, Second(s)), [t |-> Second(s), s |-> s]))

\* The seed loop neither skips nor caps.
Seed(c, s) == Append(Broken(c, Second(s)), [t |-> Second(s), s |-> s])

\* recent_container_samples: at or after `from`, oldest first, which is the
\* order in which the chart takes them.
Recent(from) == {s \in db : s >= from}

Seeded(S) ==
    LET upTo[n \in 0 .. latest] ==
          IF n = 0 THEN <<>>
          ELSE IF n \in S THEN Seed(upTo[n - 1], n) ELSE upTo[n - 1]
    IN upTo[latest]

Extended(c, S) ==
    LET upTo[n \in 0 .. latest] ==
          IF n = 0 THEN c
          ELSE IF n \in S THEN Push(upTo[n - 1], n) ELSE upTo[n - 1]
    IN upTo[latest]

WindowStart == IF latest > SeedWindow THEN latest - SeedWindow ELSE 0
Clamped(from) == IF from > WindowStart THEN from ELSE WindowStart

-----------------------------------------------------------------------------
ChartInit ==
    /\ federated \in Sources
    /\ up = TRUE /\ latest = 0 /\ job = NoJob /\ db = {} /\ slot = 0
    /\ page = "none" /\ seed = {} /\ hidden = FALSE /\ chart = <<>>
    /\ fetch = "none" /\ since = 0 /\ points = {}
    /\ es = "none" /\ sent = 0 /\ timer = FALSE
    /\ pub = 0 /\ upsets = 0 /\ grace = 0 /\ cut = {} /\ missed = {}

-----------------------------------------------------------------------------
(* The collector: publish, then persist, one sample at a time *)

\* RoundTrip is the assumption that no sample is both persisted after a
\* backfill was read and replaced in the slot before the page that asked for it
\* is live.
InTime == RoundTrip /\ (fetch = "answered" \/ es = "connecting") => grace > 0

\* The slot is overwritten whether or not the ticker of an open stream, which
\* comes once a second, has found the sample before: with an interval of a
\* second, or a late tick, it has not.  For a federated host the collector is
\* the node's and runs on by itself.
Publish ==
    /\ federated \/ up
    /\ pub < MaxPub /\ pub + upsets < MaxEvents
    /\ job = NoJob
    /\ federated \/ InTime
    /\ \E d \in Steps : latest' = latest + d
    /\ job' = latest'
    /\ slot' = IF federated THEN slot ELSE latest'
    /\ pub' = pub + 1
    /\ grace' = IF grace > 0 THEN grace - 1 ELSE 0
    /\ missed' = IF ~federated /\ es = "open" /\ sent # slot
                   THEN missed \union {slot} ELSE missed
    /\ UNCHANGED <<federated, up, db, page, seed, hidden, chart, request,
                   stream, timer, upsets, cut>>

Persist ==
    /\ job # NoJob
    /\ db' = db \union {job}
    /\ job' = NoJob
    /\ UNCHANGED <<federated, up, latest, pub, slot, page, seed, hidden,
                   chart, request, stream, timer, ghosts>>

PersistFails ==
    /\ Upset
    /\ job # NoJob
    /\ job' = NoJob
    /\ UNCHANGED <<federated, up, latest, db, pub, slot, page, seed, hidden,
                   chart, request, stream, timer, grace, cut, missed>>

\* The hub catches up with the node, at any distance.
Relay ==
    /\ federated /\ up
    /\ slot # latest
    /\ slot' = latest
    /\ UNCHANGED <<up, collector, page, seed, hidden, chart, request, stream,
                   timer, ghosts>>

-----------------------------------------------------------------------------
(* The page's requests *)

OpenAnyway ==           \* mutant: hidden meanwhile
    /\ es' = IF es = "none" THEN "connecting" ELSE es
    /\ sent' = sent
OpenUnlessHidden ==
    /\ es' = IF es = "none" /\ ~hidden THEN "connecting" ELSE es
    /\ sent' = sent

\* connect(): ask for what came after the last point on the chart.  lastTs is
\* in seconds, so the rest of its second is asked for again.
SinceNext(c) == (LastTime(c) + 1) * PerSecond + 1  \* mutant: a second too late
Since(c) == LastTime(c) * PerSecond + 1

ConnectNow ==
    IF es = "none" /\ fetch = "none"
      THEN fetch' = "asked" /\ since' = Since(chart') /\ points' = {}
      ELSE UNCHANGED request

\* The server renders the page, for a container the dashboard lists.
Render ==
    /\ up /\ page = "none" /\ slot # 0
    /\ seed' = Recent(WindowStart)
    /\ page' = "rendered"
    /\ UNCHANGED <<up, collector, slot, hidden, chart, request, stream, timer,
                   ghosts>>

\* The script runs: draw the seed and connect.
Load ==
    /\ page = "rendered"
    /\ page' = "loaded"
    /\ chart' = Seeded(seed)
    /\ seed' = {}
    /\ IF hidden THEN UNCHANGED request ELSE ConnectNow
    /\ UNCHANGED <<up, collector, slot, hidden, stream, timer, ghosts>>

\* The backfill endpoint reads the database.
Answer ==
    /\ fetch = "asked" /\ up
    /\ fetch' = "answered"
    /\ points' = Recent(Clamped(since))
    /\ grace' = IF job = NoJob THEN 1 ELSE 0
    /\ cut' = IF Clamped(since) > since THEN cut \union {LastTime(chart)} ELSE cut
    /\ UNCHANGED <<up, collector, slot, page, seed, hidden, chart, since,
                   stream, timer, upsets, missed>>

\* No answer, or none that is ok: go live without.  A process that is down
\* answers nothing.
AnswerLost ==
    /\ fetch = "asked"
    /\ IF up THEN Upset ELSE upsets' = upsets
    /\ fetch' = "answered"
    /\ points' = {}
    /\ grace' = 1
    /\ cut' = cut \union {LastTime(chart)}
    /\ UNCHANGED <<up, collector, slot, page, seed, hidden, chart, since,
                   stream, timer, missed>>

\* The answer is in: append it, and only then open the stream.
Backfilled ==
    /\ fetch = "answered"
    /\ fetch' = "none" /\ points' = {} /\ since' = 0
    /\ chart' = Extended(chart, points)
    /\ OpenUnlessHidden
    /\ UNCHANGED <<up, collector, slot, page, seed, hidden, timer, ghosts>>

-----------------------------------------------------------------------------
(* The stream *)

Accept ==
    /\ es = "connecting" /\ up
    /\ es' = "open"
    /\ sent' = 0
    /\ UNCHANGED <<up, collector, slot, page, seed, hidden, chart, request,
                   timer, ghosts>>

\* A tick of dashboard_stream, and onMetrics.
Deliver ==
    /\ es = "open" /\ up
    /\ slot # 0 /\ slot # sent
    /\ sent' = slot
    /\ chart' = Push(chart, slot)
    /\ UNCHANGED <<up, collector, slot, page, seed, hidden, request, es,
                   timer, ghosts>>

\* onerror: drop the source and come back through connect() in a while.
OnErrorOnly == es' = "none" /\ sent' = 0 /\ timer' = timer  \* mutant: no timer
OnError == es' = "none" /\ sent' = 0 /\ timer' = TRUE

Drop ==
    /\ es # "none"
    /\ IF up THEN Upset ELSE upsets' = upsets
    /\ OnError
    /\ UNCHANGED <<up, collector, slot, page, seed, hidden, chart, request,
                   grace, cut, missed>>

Reconnect ==
    /\ timer
    /\ timer' = FALSE
    /\ chart' = chart
    /\ IF hidden THEN UNCHANGED request ELSE ConnectNow
    /\ UNCHANGED <<up, collector, slot, page, seed, hidden, stream, ghosts>>

-----------------------------------------------------------------------------
(* The tab and the server *)

\* visibilitychange and pagehide: disconnect.
Hide ==
    /\ page = "loaded" /\ ~hidden
    /\ Upset
    /\ hidden' = TRUE
    /\ es' = "none" /\ sent' = 0
    /\ UNCHANGED <<up, collector, slot, page, seed, chart, request, timer,
                   grace, cut, missed>>

\* visibilitychange and pageshow: connect.
Show ==
    /\ hidden
    /\ hidden' = FALSE
    /\ chart' = chart
    /\ ConnectNow
    /\ UNCHANGED <<up, collector, slot, page, seed, stream, timer, ghosts>>

\* The serving process stops: its slot is gone and so are its connections.
\* A local collector, and what it was persisting, go with it.
Stop ==
    /\ up
    /\ Upset
    /\ up' = FALSE
    /\ slot' = 0
    /\ job' = IF federated THEN job ELSE NoJob
    /\ IF es = "open" THEN OnError ELSE UNCHANGED <<stream, timer>>
    /\ UNCHANGED <<federated, latest, db, pub, page, seed, hidden, chart,
                   request, grace, cut, missed>>

\* A restart takes longer than a round trip.
Start ==
    /\ ~up
    /\ RoundTrip => fetch # "answered" /\ es # "connecting"
    /\ up' = TRUE
    /\ UNCHANGED <<collector, slot, page, seed, hidden, chart, request,
                   stream, timer, ghosts>>

-----------------------------------------------------------------------------
ChartNext ==
    \/ Publish \/ Persist \/ PersistFails \/ Relay
    \/ Render \/ Load \/ Answer \/ AnswerLost \/ Backfilled
    \/ Accept \/ Deliver \/ Drop \/ Reconnect
    \/ Hide \/ Show \/ Stop \/ Start

ChartSpec == ChartInit /\ [][ChartNext]_chartVars

\* The server is restarted, the browser runs timers and callbacks, requests
\* to a running server end, and the stream's ticker ticks.
ChartLive ==
    /\ ChartSpec
    /\ WF_chartVars(Start) /\ WF_chartVars(Relay) /\ WF_chartVars(Load)
    /\ WF_chartVars(Answer \/ AnswerLost) /\ WF_chartVars(Backfilled)
    /\ WF_chartVars(Accept \/ Drop) /\ WF_chartVars(Deliver) /\ WF_chartVars(Reconnect)

-----------------------------------------------------------------------------
(* Properties *)

\* Every variable has its type; a hidden page holds no connection, and the
\* page has at most one request under way.
ChartTypeOK ==
    /\ up \in BOOLEAN /\ latest \in Nat /\ job \in Nat \union {NoJob}
    /\ db \subseteq 1 .. latest /\ slot \in 0 .. latest
    /\ page \in {"none", "rendered", "loaded"} /\ seed \subseteq db
    /\ hidden \in BOOLEAN /\ chart \in Seq(Point)
    /\ fetch \in {"none", "asked", "answered"} /\ since \in Nat
    /\ points \subseteq db
    /\ es \in {"none", "connecting", "open"} /\ sent \in Nat
    /\ timer \in BOOLEAN /\ grace \in {0, 1} /\ cut \subseteq Nat
    /\ missed \subseteq 0 .. latest
    /\ hidden => es = "none"
    /\ fetch # "none" => es = "none"

\* "The stream is opened only after the backfill is in, so chart data stays
\* in timestamp order" (live.js).
TimestampOrder ==
    \A i, j \in DOMAIN chart : i < j => chart[i].t <= chart[j].t

\* Two samples on a chart with none between them.
Joined(c, i, j) ==
    /\ i < j /\ c[i].s # Hole /\ c[j].s # Hole
    /\ \A k \in i + 1 .. j - 1 : c[k].s = Hole

\* connect() "fetches the missed points before reopening the stream"
\* (live.js): for a host of this instance the chart stays in order, also when
\* the page is hidden or the connection breaks while a backfill is under way,
\* and what the database holds from between two samples of the chart is on it,
\* but for a second sample of one second, for one that the next replaced
\* between two ticks of the open stream (EverySample of Federation), and for
\* what follows a point where a backfill failed or would have gone back further
\* than the seed window.
Seamless ==
    ~federated =>
      /\ TimestampOrder
      /\ \A i, j \in DOMAIN chart :
           Joined(chart, i, j) /\ chart[i].t \notin cut =>
             ~\E s \in db \ missed : chart[i].t < Second(s) /\ Second(s) < chart[j].t

\* A page that stays visible ends up with the newest sample on its chart,
\* whatever was dropped, hidden or restarted before.
StaysLive ==
    (<>[](page = "loaded" /\ ~hidden)) =>
        <>[](slot # 0 => chart # <<>> /\ LastTime(chart) = Second(slot))
=============================================================================
