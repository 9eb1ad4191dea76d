------------------------------- MODULE Rates -------------------------------
(***************************************************************************)
(* From the daemon's counters to rates (DockerClient::collect and          *)
(* build_metrics of src/docker.rs, the loop of src/collector.rs).          *)
(*                                                                         *)
(* A cycle lists the containers, asks for the stats of the running ones a  *)
(* few at a time, and reads its own clock once, when the last answer is    *)
(* in.  Time goes on meanwhile; containers start, stop and disappear, the  *)
(* host reboots, and a call may fail.  The counters start from zero with   *)
(* every start of a container, the host's CPU time with every boot.        *)
(*                                                                         *)
(* One counter of work stands for a container's CPU time and for each of   *)
(* its four byte counters: in a unit of time a container does one unit or  *)
(* none, which keeps one core busy and moves one byte.  Memory, which is   *)
(* passed on as read, is left out.                                         *)
(***************************************************************************)
EXTENDS Integers, FiniteSets, Functions

CONSTANTS
    Containers,  \* container ids
    Interval,    \* the period of the collector's ticker
    Missing,     \* a field or a value that is not there
    NoCycle,     \* no cycle is under way
    MaxTime,     \* bound on the clock
    MaxUpsets    \* bound on stops, removals, reboots, failed calls and
                 \* restarts of the collector

ASSUME IntervalAssumption == Interval \in Nat \ {0}
ASSUME RatesNulls ==
    /\ Missing \notin Nat \union [spent : Nat, total : Nat]
    /\ \A S \in SUBSET Containers : S # NoCycle
ASSUME RatesBounds == MaxTime \in Nat /\ MaxUpsets \in Nat

VARIABLES
    clock,     \* the monotonic clock of both the host and the collector
    state,     \* what each container is doing
    count,     \* its counter of work since its start
    system,    \* the host's CPU time counter
    due,       \* when the ticker fires next
    listed,    \* ids of the listing, running or not, or NoCycle
    asked,     \* ids whose stats are still to be answered
    stats,     \* the answers
    prevIo,    \* DockerClient.prev_io
    prevCpu,   \* DockerClient.prev_cpu
    primed,    \* the collector has thrown its first cycle away
    out,       \* the metrics just published, or NoCycle
    work,      \* ghost: all the work of each container so far
    lives,     \* ghost: its starts so far
    reboots,   \* ghost: reboots of the host so far
    last,      \* ghost: the last answer of each container, and its lives
    upsets     \* ghost: upsets so far

host == <<state, count, system, work, lives, reboots>>
cycle == <<listed, asked, stats>>
client == <<prevIo, prevCpu, primed, out, last>>
vars == <<clock, host, due, cycle, client, upsets>>

Running == {c \in Containers : state[c] = "running"}
Existing == {c \in Containers : state[c] \in {"running", "stopped"}}

\* The map `old` with the entries of `new` put into it.
Extended(old, new) ==
    [c \in DOMAIN old \union DOMAIN new |->
        IF c \in DOMAIN new THEN new[c] ELSE old[c]]

Upset == upsets < MaxUpsets /\ upsets' = upsets + 1

-----------------------------------------------------------------------------
(* The host. *)

Tick ==
    /\ clock < MaxTime
    /\ clock' = clock + 1
    /\ system' = system + 1
    /\ \E busy \in SUBSET Running :
        /\ count' = [c \in Containers |-> count[c] + IF c \in busy THEN 1 ELSE 0]
        /\ work' = [c \in Containers |-> work[c] + IF c \in busy THEN 1 ELSE 0]
    /\ UNCHANGED <<state, lives, reboots, due, cycle, client, upsets>>

StartOne ==
    /\ \E c \in Containers :
        /\ state[c] \in {"new", "stopped"}
        /\ state' = [state EXCEPT ![c] = "running"]
        /\ count' = [count EXCEPT ![c] = 0]
        /\ lives' = [lives EXCEPT ![c] = @ + 1]
    /\ UNCHANGED <<clock, system, work, reboots, due, cycle, client, upsets>>

\* An id that is removed never comes back.
StopOne ==
    /\ Upset
    /\ \E c \in Existing, to \in {"stopped", "gone"} :
        /\ state[c] # to
        /\ state' = [state EXCEPT ![c] = to]
    /\ UNCHANGED <<clock, count, system, work, lives, reboots, due, cycle,
                   client>>

\* The collector of a remote host lives through a reboot of it.
Reboot ==
    /\ Upset
    /\ system' = 0
    /\ reboots' = reboots + 1
    /\ state' = [c \in Containers |->
                    IF c \in Running THEN "stopped" ELSE state[c]]
    /\ UNCHANGED <<clock, count, work, lives, due, cycle, client>>

-----------------------------------------------------------------------------
(* The cycle. *)

Idle == listed = NoCycle

\* A tick that was missed comes at once (MissedTickBehavior::Burst).
List ==
    /\ Idle
    /\ clock >= due
    /\ due' = due + Interval
    /\ listed' = Existing
    /\ asked' = Running
    /\ stats' = <<>>
    /\ out' = NoCycle
    /\ UNCHANGED <<clock, host, prevIo, prevCpu, primed, last, upsets>>

\* collect() returns the error and the maps stay as they are.
ListFails ==
    /\ Idle
    /\ clock >= due
    /\ Upset
    /\ due' = due + Interval
    /\ UNCHANGED <<clock, host, cycle, client>>

\* A container that has stopped since the listing answers without its fields.
Answer(c) ==
    LET field(n) == IF state[c] = "running" THEN n ELSE Missing
    IN [count |-> field(count[c]), system |-> field(system), work |-> work[c],
        life |-> <<lives[c], reboots>>]

Read ==
    /\ \E c \in asked :
        /\ state[c] # "gone"
        /\ stats' = Extended(stats, [d \in {c} |-> Answer(d)])
        /\ asked' = asked \ {c}
    /\ UNCHANGED <<clock, host, due, listed, client, upsets>>

ReadFails ==
    /\ \E c \in asked :
        /\ IF state[c] = "gone" THEN UNCHANGED upsets ELSE Upset
        /\ asked' = asked \ {c}
    /\ UNCHANGED <<clock, host, due, listed, stats, client>>

SatSub(a, b) == IF a > b THEN a - b ELSE 0

\* mutant: the entries of containers that are gone stay.
ReapedNone(prev) == prev

Reaped(prev) == Restrict(prev, DOMAIN prev \intersect listed)

\* mutant: a baseline is set once and not moved.
BaselineFirst(prev, new) == Extended(new, prev)

Baseline(prev, new) == Extended(prev, new)

\* The readings of the cycle that become the next baselines.
IoRead == [c \in DOMAIN stats |-> [count |-> stats[c].count, at |-> clock]]

\* mutant: a reading without fields replaces the baseline as well.
CpuReadAny ==
    [c \in DOMAIN stats |->
        [count |-> stats[c].count, system |-> stats[c].system]]

CpuRead ==
    [c \in {d \in DOMAIN stats : stats[d].count # Missing} |->
        [count |-> stats[c].count, system |-> stats[c].system]]

\* io_rates and rate: a difference of counters and the time it is spread over.
Io(c) ==
    IF /\ c \in DOMAIN IoRead /\ c \in DOMAIN prevIo
       /\ Missing \notin {IoRead[c].count, prevIo[c].count}
       /\ clock > prevIo[c].at
    THEN [bytes |-> SatSub(IoRead[c].count, prevIo[c].count),
          secs |-> clock - prevIo[c].at]
    ELSE Missing

\* cpu_percent and cpu_percent_from_deltas: a share of the host's CPU time.
Cpu(c) ==
    IF /\ c \in DOMAIN CpuRead /\ c \in DOMAIN prevCpu
       /\ Missing \notin {CpuRead[c].count, prevCpu[c].count}
    THEN LET total == SatSub(CpuRead[c].system, prevCpu[c].system)
         IN [spent |-> IF total = 0 THEN 0
                       ELSE SatSub(CpuRead[c].count, prevCpu[c].count),
             total |-> total]
    ELSE Missing

\* What really happened between this answer and the one before it.
Truth(c) ==
    IF c \in DOMAIN stats /\ c \in DOMAIN last
    THEN [work |-> stats[c].work - last[c].work,
          calm |-> stats[c].life = last[c].life]
    ELSE Missing

Finish ==
    /\ ~Idle
    /\ asked = {}
    /\ primed' = TRUE
    /\ out' = IF primed
              THEN [c \in listed |->
                    [io |-> Io(c), cpu |-> Cpu(c), truth |-> Truth(c),
                     read |-> c \in DOMAIN stats /\ stats[c].count # Missing,
                     again |-> c \in DOMAIN last /\ last[c].cpu]]
              ELSE out
    /\ prevIo' = Baseline(Reaped(prevIo), IoRead)
    /\ prevCpu' = Baseline(Reaped(prevCpu), CpuRead)
    /\ last' = Extended(last, [c \in DOMAIN stats |->
                    [work |-> stats[c].work, life |-> stats[c].life,
                     cpu |-> stats[c].count # Missing
                                \/ (c \in DOMAIN last /\ last[c].cpu)]])
    /\ listed' = NoCycle
    /\ stats' = <<>>
    /\ UNCHANGED <<clock, host, due, asked, upsets>>

\* The process is restarted.
Restart ==
    /\ Upset
    /\ listed' = NoCycle
    /\ asked' = {}
    /\ stats' = <<>>
    /\ prevIo' = <<>> /\ prevCpu' = <<>> /\ last' = <<>>
    /\ primed' = FALSE
    /\ out' = NoCycle
    /\ due' = clock
    /\ UNCHANGED <<clock, host>>

Init ==
    /\ clock = 0 /\ due = 0
    /\ state \in [Containers -> {"new", "running"}]
    /\ count = [c \in Containers |-> 0]
    /\ system = 0
    /\ listed = NoCycle /\ asked = {} /\ stats = <<>>
    /\ prevIo = <<>> /\ prevCpu = <<>>
    /\ primed = FALSE
    /\ out = NoCycle
    /\ work = [c \in Containers |-> 0]
    /\ lives = [c \in Containers |-> 0]
    /\ reboots = 0
    /\ last = <<>>
    /\ upsets = 0

Next ==
    \/ Tick \/ StartOne \/ StopOne \/ Reboot
    \/ List \/ ListFails \/ Read \/ ReadFails \/ Finish \/ Restart

Spec == Init /\ [][Next]_vars

-----------------------------------------------------------------------------
Published == IF out = NoCycle THEN {} ELSE DOMAIN out

(* The shapes of the variables.  Among them: after a published cycle the   *)
(* maps of earlier readings hold no container that it did not list,        *)
(* however many have come and gone (the reaping in collect()).             *)
TypeOK ==
    /\ clock \in 0..MaxTime /\ due \in Nat /\ system \in 0..clock
    /\ state \in [Containers -> {"new", "running", "stopped", "gone"}]
    /\ \A c \in Containers : count[c] \in 0..work[c] /\ work[c] \in 0..clock
    /\ listed = NoCycle \/ listed \subseteq Containers
    /\ Idle => asked = {} /\ stats = <<>>
    /\ ~Idle => asked \union DOMAIN stats \subseteq listed
    /\ primed \in BOOLEAN
    /\ out # NoCycle =>
        primed /\ DOMAIN prevIo \union DOMAIN prevCpu \subseteq DOMAIN out
    /\ upsets \in 0..MaxUpsets

(* A published rate never claims a byte that was not moved between the two *)
(* answers it compares, and claims all of them if neither the container    *)
(* nor the host was restarted in between; failed listings and failed calls *)
(* in between only make the time longer (io_rates, rate).                  *)
RateHonest ==
    \A c \in Published : out[c].io # Missing =>
        /\ out[c].io.bytes <= out[c].truth.work
        /\ out[c].truth.calm => out[c].io.bytes = out[c].truth.work

(* A container has a CPU value from its second answered reading on,        *)
(* whatever failed or stopped in between, and none with its first: the dip *)
(* at the start of a chart that the priming cycle is there to prevent.     *)
(* Unless container or host was restarted it is at most a whole core.      *)
SteadyReading ==
    \A c \in Published :
        /\ out[c].cpu # Missing <=> out[c].read /\ out[c].again
        /\ out[c].cpu # Missing /\ out[c].truth.calm =>
                out[c].cpu.spent <= out[c].cpu.total

(* A rate is derived "over the elapsed wall-clock time" between the times  *)
(* the counters were read (the comment of PrevIo): it is never above what  *)
(* a container can move, one byte per unit of time.                        *)
RatePlausible ==
    \A c \in Published : out[c].io # Missing => out[c].io.bytes <= out[c].io.secs
=============================================================================
