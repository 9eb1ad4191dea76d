----------------------------- MODULE Notifier ------------------------------
(***************************************************************************)
(* Alerts about container state changes of one host (src/notify.rs): the   *)
(* Tracker the collector feeds every snapshot into, and the detached POSTs *)
(* to the Apprise endpoint.                                                *)
(*                                                                         *)
(* docker.collect() lists the containers first and fetches their stats     *)
(* after; the clock is read when it returns.  So what a snapshot says was  *)
(* true at Begin and is judged with the time of Evaluate.  The wall clock  *)
(* decides about alerts, a monotonic one about the timeout of a POST.      *)
(***************************************************************************)
EXTENDS Integers, Sequences, FiniteSets

CONSTANTS
    Containers,   \* container ids
    DelayMs,      \* how long a new status must persist (delay_ms)
    PostTimeout,  \* timeout of the reqwest client
    NoReading,    \* no collection is under way
    NotTracked,   \* no entry for the container in Tracker.states
    NoPending,    \* Tracked.pending = None
    MaxTime,      \* bound on both clocks
    MaxObs,       \* bound on the evaluated snapshots of a container
    MaxUpsets     \* bound on restarts and adjustments of the wall clock; each
                  \* of them also takes one from MaxTime and from MaxObs

ASSUME DelayAssumption == DelayMs \in Nat /\ PostTimeout \in Nat \ {0}
ASSUME NotifierBounds ==
    MaxTime \in Nat /\ MaxObs \in Nat /\ MaxUpsets \in Nat

VARIABLES
    wall,      \* the wall clock (now_unix_ms)
    mono,      \* the monotonic clock
    real,      \* what each container is doing on the Docker host
    reading,   \* the listing of the collection under way
    states,    \* Tracker.states
    posts,     \* POSTs in flight
    inbox,     \* per container: number of the last alert Apprise accepted
    obs,       \* ghost, per container: the snapshots evaluated since tracked
    said,      \* ghost, per container: alerts dispatched so far
    jumps,     \* ghost: adjustments of the wall clock so far
    restarts   \* ghost: restarts so far

clocks == <<wall, mono, jumps>>
Upsets == jumps + restarts

vars == <<clocks, real, reading, states, posts, inbox, obs, said, restarts>>

Status == {"Up", "Unhealthy", "Down"}
Condition == {"running", "unhealthy", "stopped"}
\* An id is new once and, once removed, never comes back.
RealState == Condition \union {"new", "removed"}

StatusOf(x) ==
    CASE x = "running"   -> "Up"
      [] x = "unhealthy" -> "Unhealthy"
      [] x = "stopped"   -> "Down"

SatSub(a, b) == IF a >= b THEN a - b ELSE 0

Pending == [to : Status, since : Nat]
Tracked == [notified : Status, pending : Pending \union {NoPending}]
Post == [to : Status, container : Containers, seq : Nat \ {0}, at : Nat]

ASSUME NullAssumption == NotTracked \notin Tracked /\ NoPending \notin Pending

-----------------------------------------------------------------------------
Init ==
    /\ wall = 0 /\ mono = 0 /\ jumps = 0
    /\ real \in [Containers -> {"new", "running", "stopped"}]
    /\ reading = NoReading
    /\ states = [c \in Containers |-> NotTracked]
    /\ posts = {}
    /\ inbox = [c \in Containers |-> 0]
    /\ obs = [c \in Containers |-> <<>>]
    /\ said = [c \in Containers |-> 0]
    /\ restarts = 0

-----------------------------------------------------------------------------
(* The environment *)

\* Time passes; no POST outlives its timeout.
Advance ==
    /\ wall < MaxTime /\ mono + Upsets < MaxTime
    /\ \A p \in posts : mono < p.at + PostTimeout
    /\ wall' = wall + 1 /\ mono' = mono + 1
    /\ UNCHANGED <<jumps, real, reading, states, posts, inbox, obs, said,
                   restarts>>

\* The wall clock is set, forward or back.
Adjust ==
    /\ Upsets < MaxUpsets
    /\ \E t \in 0 .. MaxTime : t # wall /\ wall' = t
    /\ jumps' = jumps + 1
    /\ UNCHANGED <<mono, real, reading, states, posts, inbox, obs, said,
                   restarts>>

\* Only between two collections: Begin alone reads it, so a change during a
\* collection may as well happen after it.
Change(c) ==
    /\ reading = NoReading
    /\ real[c] # "removed"
    /\ \E x \in Condition \union {"removed"} :
         /\ x # real[c]
         /\ real' = [real EXCEPT ![c] = x]
    /\ UNCHANGED <<clocks, reading, states, posts, inbox, obs, said, restarts>>

-----------------------------------------------------------------------------
(* Tracker *)

\* The time the candidate status was first seen; `ts` when it is a new one.
SinceSticky(t, cur, ts) ==     \* mutant: a new target inherits the timer
    IF t.pending # NoPending THEN t.pending.since ELSE ts
SinceEarly(t, cur, ts) ==      \* mutant: the timer starts one unit early
    IF t.pending # NoPending /\ t.pending.to = cur THEN t.pending.since
                                                   ELSE ts - 1
Since(t, cur, ts) ==
    IF t.pending # NoPending /\ t.pending.to = cur THEN t.pending.since ELSE ts

FiresAtOnce(t, cur, ts) == cur # t.notified   \* mutant: no incubation
Fires(t, cur, ts) ==
    /\ cur # t.notified
    /\ SatSub(ts, Since(t, cur, ts)) >= DelayMs

\* Flapping back and firing both clear what was pending.
FoldForgetful(t, cur, ts) ==   \* mutant: the timer restarts every cycle
    IF cur = t.notified \/ Fires(t, cur, ts)
      THEN [notified |-> cur, pending |-> NoPending]
      ELSE [t EXCEPT !.pending = [to |-> cur, since |-> ts]]
Fold(t, cur, ts) ==
    IF cur = t.notified \/ Fires(t, cur, ts)
      THEN [notified |-> cur, pending |-> NoPending]
      ELSE [t EXCEPT !.pending = [to |-> cur, since |-> Since(t, cur, ts)]]

\* docker.collect() lists the containers ...
Begin ==
    /\ reading = NoReading
    /\ \A c \in Containers : Len(obs[c]) + Upsets < MaxObs
    /\ reading' = real
    /\ UNCHANGED <<clocks, real, states, posts, inbox, obs, said, restarts>>

\* ... and may fail, which evaluates nothing.
CollectFails ==
    /\ reading # NoReading
    /\ reading' = NoReading
    /\ UNCHANGED <<clocks, real, states, posts, inbox, obs, said, restarts>>

Listed == {c \in Containers : reading[c] \in Condition}

\* Tracker.evaluate and dispatch: a first sighting is adopted silently, what
\* is no longer listed is forgotten, every alert becomes a detached task.
Evaluate ==
    LET ts == wall
        cur == [c \in Listed |-> StatusOf(reading[c])]
        fires == {c \in Listed : states[c] # NotTracked
                                 /\ Fires(states[c], cur[c], ts)}
    IN
    /\ reading # NoReading
    /\ reading' = NoReading
    /\ states' = [c \in Containers |->
                    IF c \notin Listed THEN NotTracked
                    ELSE IF states[c] = NotTracked
                      THEN [notified |-> cur[c], pending |-> NoPending]
                    ELSE Fold(states[c], cur[c], ts)]
    /\ said' = [c \in Containers |->
                  IF c \in fires THEN said[c] + 1 ELSE said[c]]
    /\ posts' = posts \union
                  {[to |-> cur[c], container |-> c, seq |-> said[c] + 1,
                    at |-> mono] : c \in fires}
    /\ obs' = [c \in Containers |->
                 IF c \in Listed
                   THEN Append(obs[c], [ts |-> ts, status |-> cur[c],
                                        fired |-> c \in fires])
                   ELSE <<>>]
    /\ UNCHANGED <<clocks, real, inbox, restarts>>

-----------------------------------------------------------------------------
(* The detached tasks: in any order, and a failure is only logged *)

Deliver(p) ==
    /\ posts' = posts \ {p}
    /\ inbox' = [inbox EXCEPT ![p.container] = p.seq]
    /\ UNCHANGED <<clocks, real, reading, states, obs, said, restarts>>

PostFails(p) ==
    /\ posts' = posts \ {p}
    /\ UNCHANGED <<clocks, real, reading, states, inbox, obs, said, restarts>>

\* The process restarts: the tracker and the tasks are gone.
Restart ==
    /\ Upsets < MaxUpsets
    /\ restarts' = restarts + 1
    /\ reading' = NoReading
    /\ states' = [c \in Containers |-> NotTracked]
    /\ obs' = [c \in Containers |-> <<>>]
    /\ posts' = {}
    /\ UNCHANGED <<clocks, real, inbox, said>>

Next ==
    \/ Advance
    \/ Adjust
    \/ \E c \in Containers : Change(c)
    \/ Begin
    \/ CollectFails
    \/ Evaluate
    \/ \E p \in posts : Deliver(p) \/ PostFails(p)
    \/ Restart

Spec == Init /\ [][Next]_vars

-----------------------------------------------------------------------------
(* Properties *)

\* Every variable has its type.
TypeOK ==
    /\ wall \in Nat /\ mono \in Nat /\ jumps \in Nat /\ restarts \in Nat
    /\ real \in [Containers -> RealState]
    /\ reading \in [Containers -> RealState] \union {NoReading}
    /\ states \in [Containers -> Tracked \union {NotTracked}]
    /\ posts \in SUBSET Post
    /\ inbox \in [Containers -> Nat] /\ said \in [Containers -> Nat]
    /\ obs \in [Containers ->
                  Seq([ts : Nat, status : Status, fired : BOOLEAN])]

\* The status the user was last told of after the first i snapshots of o, the
\* baseline of the first sighting included.
ToldAfter(o, i) ==
    LET told == {1} \union {j \in 1 .. i : o[j].fired}
    IN  o[CHOOSE j \in told : \A k \in told : k <= j].status

\* In o, the status of snapshot i has been there, without a break, since a
\* snapshot at least the delay older.
Persisted(o, i) ==
    \E k \in 1 .. i :
        /\ \A j \in k .. i : o[j].status = o[i].status
        /\ o[k].ts + DelayMs <= o[i].ts

\* No alert without a change that stuck: it reports a status other than the
\* last one told, seen in every snapshot over at least the delay; a container
\* seen for the first time is never reported, nor does a flap that recovered
\* within the delay count towards it (Tracker::evaluate).
AlertJustified ==
    \A c \in Containers : \A i \in DOMAIN obs[c] :
        obs[c][i].fired =>
            /\ i > 1
            /\ obs[c][i].status # ToldAfter(obs[c], i - 1)
            /\ Persisted(obs[c], i)

\* A change that stuck is never missed: as soon as a status other than the
\* last one told has been seen over the delay, an alert goes out, as long as
\* the wall clock is not adjusted.
AlertNotMissed ==
    jumps = 0 =>
      \A c \in Containers : \A i \in 2 .. Len(obs[c]) :
        obs[c][i].status # ToldAfter(obs[c], i - 1) /\ Persisted(obs[c], i)
          => obs[c][i].fired

\* Apprise hears of the changes of one container in the order they happened,
\* although every POST is a task of its own: a change cannot settle before
\* the POST of the one before it has ended, because the delay is longer than
\* the timeout (the default: 30 s against 10 s) and the clock is not adjusted.
InOrder ==
    [][jumps = 0 => \A c \in Containers : inbox'[c] >= inbox[c]]_vars
=============================================================================
