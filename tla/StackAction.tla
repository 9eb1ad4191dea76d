---------------------------- MODULE StackAction ----------------------------
(***************************************************************************)
(* Start, stop and restart of a compose stack (src/docker.rs: stack_action *)
(* and what it calls) and the read-only latch its handlers keep            *)
(* (src/web.rs), against a Docker daemon that goes on living in between:   *)
(* containers become healthy, exit, crash, refuse to start, and a socket   *)
(* proxy may deny every POST.                                              *)
(*                                                                         *)
(* Every call to the daemon is a step.  Deadlines and sleeps are timers    *)
(* that Advance runs down.  The order in which a member's dependencies are *)
(* waited for is left open.  One action runs at a time; whatever a second  *)
(* one, another user or the daemon does to the containers meanwhile is     *)
(* Interfere.                                                              *)
(***************************************************************************)
EXTENDS Naturals, Sequences, FiniteSets, Functions

CONSTANTS
    Ids,            \* containers
    Services,       \* compose services
    Stacks,         \* the stacks considered, see StackAssumption
    Proxies,        \* whether the socket proxy denies POST: the cases considered
    DepWait,        \* DEP_WAIT, in polls
    Budget,         \* STACK_START_TIMEOUT, in polls
    NoDep,          \* not waiting for a dependency
    NoOutcome,      \* no action has finished yet
    MaxActions,     \* bound on the actions requested
    MaxFlaws,       \* bound on start and stop calls that fail in passing
    MaxBlind,       \* bound on inspect calls that fail
    MaxInterference,\* bound on outside changes
    MaxElapsed,     \* where the ghost stop watch stops
    MaxSpins        \* where the ghost count of passes stops

Condition == {"started", "healthy", "completed"}
Dep == [service : Services, condition : Condition]

\* A stack: its members in listing order, their services and depends_on
\* labels, whose namespaces they share, which of them have a healthcheck,
\* which are meant to exit, and which can never start.
ASSUME StackAssumption ==
    \A s \in Stacks :
        /\ s.listing \in Seq(Ids)
        /\ s.service \in [Ids -> Services] /\ s.label \in [Ids -> SUBSET Dep]
        /\ s.shares \in [Ids -> SUBSET Ids]
        /\ {s.checked, s.oneshot, s.broken} \subseteq SUBSET Ids
ASSUME ProxyAssumption == Proxies \subseteq BOOLEAN
ASSUME TimerAssumption == DepWait \in Nat /\ Budget \in Nat
ASSUME NoDepAssumption == NoDep \notin Dep

VARIABLES
    stack,      \* the stack acted on
    denies,     \* the proxy answers every POST with 403
    running,    \* the containers that are running
    healthy,    \* those whose healthcheck reports healthy
    probed,     \* those whose healthcheck has something to show: they have
                \* one, and have run since they were created
    act,        \* the action under way
    deps,       \* its members' dependencies, as stack_members found them
    left,       \* timer: what is left of STACK_START_TIMEOUT
    patience,   \* timer: what is left of DEP_WAIT
    nap,        \* timer: what is left of the sleep
    readOnly,   \* the host's read_only latch
    outcome,    \* of the last action that finished
    gaveUp,     \* ghost: dependencies whose wait timed out in this pass
    refused,    \* ghost: members whose stop failed in this action
    elapsed,    \* ghost: how long the action has been starting members
    spins,      \* ghost: passes of this action that ended without a sleep
    actions, flaws, blind, interference  \* ghost: counts for the bounds

docker == <<stack, denies, running, healthy, probed>>
timers == <<left, patience, nap, elapsed>>
counts == <<actions, flaws, blind, interference>>
vars == <<docker, act, deps, timers, readOnly, outcome, gaveUp, refused, spins,
          counts>>

Members == Range(stack.listing)
Idle == [kind |-> "none", pc |-> "idle", order |-> <<>>, next |-> 1, waits |-> {},
         on |-> NoDep, failed |-> 0, progressed |-> FALSE]

-----------------------------------------------------------------------------
(* topo_order: Kahn's algorithm, a wave at a time *)

InStack == {stack.service[m] : m \in Members}

\* The members of a set whose dependencies are placed or not in the stack.
ReadyAny(S, ds, placed) ==   \* mutant: any for all
    {m \in S : ds[m] = {} \/ \E d \in ds[m] :
                 d.service \notin InStack \/ d.service \in placed}
Ready(S, ds, placed) ==
    {m \in S : \A d \in ds[m] : d.service \notin InStack \/ d.service \in placed}

\* What a sequence has of a set, in its order.
Only(s, S) ==
    LET upto[k \in 0 .. Len(s)] ==
          IF k = 0 THEN <<>>
          ELSE IF s[k] \in S THEN Append(upto[k - 1], s[k]) ELSE upto[k - 1]
    IN  upto[Len(s)]

\* The members a wave takes of those that are left; when none is ready, all.
Wave(S, ds) ==
    LET ready == Ready(S, ds, {stack.service[m] : m \in Members \ S})
    IN  IF ready = {} THEN S ELSE ready

TopoOrder(ds) ==
    LET todo[k \in 0 .. Len(stack.listing)] ==
          IF k = 0 THEN Members ELSE todo[k - 1] \ Wave(todo[k - 1], ds)
        order[k \in 0 .. Len(stack.listing)] ==
          IF k = 0 THEN <<>>
          ELSE order[k - 1] \o Only(stack.listing, Wave(todo[k - 1], ds))
    IN  order[Len(stack.listing)]

\* Reverse order for stopping.
Backwards(s) == [k \in 1 .. Len(s) |-> s[Len(s) + 1 - k]]
StopOrderSame(ds) == TopoOrder(ds)   \* mutant: not reversed
StopOrder(ds) == Backwards(TopoOrder(ds))

-----------------------------------------------------------------------------
(* stack_members *)

\* Label dependencies, and a plain one on every other service whose namespace
\* the container shares, unless the label has that service already; the
\* namespaces of a container whose inspect call failed are not known.
DepsOf(m, unread) ==
    LET labelled == {d.service : d \in stack.label[m]}
        shared == IF m \in unread THEN {}
                  ELSE {stack.service[x] : x \in stack.shares[m] \intersect Members}
    IN  stack.label[m] \union
        {[service |-> s, condition |-> "started"] :
            s \in shared \ (labelled \union {stack.service[m]})}

\* id_by_service: of several containers of a service the last listed one.
IdOf(service) ==
    LET at == {k \in DOMAIN stack.listing : stack.service[stack.listing[k]] = service}
    IN  stack.listing[CHOOSE k \in at : \A j \in at : j <= k]

\* The dependencies of m to wait for before it is started.
WaitsNone(m) == {}   \* mutant: started without waiting
Waits(m) == {d \in deps[m] : d.service \in InStack /\ d.condition # "started"}

-----------------------------------------------------------------------------
Init ==
    /\ stack \in Stacks /\ denies \in Proxies
    /\ running \in {{}, Members} /\ healthy = {}
    /\ \E ran \in {running, Members} : probed = ran \intersect stack.checked
    /\ act = Idle /\ deps = [m \in Ids |-> {}]
    /\ left = 0 /\ patience = 0 /\ nap = 0
    /\ readOnly = FALSE /\ outcome = NoOutcome
    /\ gaveUp = {} /\ refused = {} /\ elapsed = 0 /\ spins = 0
    /\ actions = 0 /\ flaws = 0 /\ blind = 0 /\ interference = 0

-----------------------------------------------------------------------------
(* The daemon, its containers and the clock *)

\* A container that starts has its healthcheck run from then on; a stopped one
\* goes on showing "unhealthy".
Probed(m) == probed \union ({m} \intersect stack.checked)

BecomesHealthy(m) ==
    /\ m \in (running \intersect stack.checked) \ healthy
    /\ healthy' = healthy \union {m}
    /\ UNCHANGED <<stack, denies, running, probed, act, deps, timers, readOnly,
                   outcome, gaveUp, refused, spins, counts>>

Exits(m) ==
    /\ m \in running \intersect stack.oneshot
    /\ running' = running \ {m} /\ healthy' = healthy \ {m}
    /\ UNCHANGED <<stack, denies, probed, act, deps, timers, readOnly, outcome,
                   gaveUp, refused, spins, counts>>

\* A crash, another user, another action.
Interfere(m) ==
    /\ interference < MaxInterference
    /\ \/ /\ m \in running
          /\ running' = running \ {m} /\ healthy' = healthy \ {m}
          /\ UNCHANGED probed
       \/ /\ m \notin running
          /\ running' = running \union {m} /\ probed' = Probed(m)
          /\ UNCHANGED healthy
    /\ interference' = interference + 1
    /\ UNCHANGED <<stack, denies, act, deps, timers, readOnly, outcome, gaveUp,
                   refused, spins, actions, flaws, blind>>

DownOnly(t) == t - 1   \* mutant: not saturating
Down(t) == IF t = 0 THEN 0 ELSE t - 1

Advance ==
    /\ act.pc # "idle"
    /\ left + patience + nap > 0
    /\ left' = Down(left) /\ patience' = Down(patience) /\ nap' = Down(nap)
    /\ elapsed' = IF elapsed = MaxElapsed THEN elapsed ELSE elapsed + 1
    /\ UNCHANGED <<docker, act, deps, readOnly, outcome, gaveUp, refused, spins,
                   counts>>

-----------------------------------------------------------------------------
(* Requests *)

\* A stack action, once stack_members has answered.
Request(kind) ==
    \E unread \in SUBSET Members :
        LET ds == [m \in Ids |-> DepsOf(m, unread)] IN
        /\ act = Idle
        /\ actions < MaxActions
        /\ blind + Cardinality(unread) <= MaxBlind
        /\ blind' = blind + Cardinality(unread)
        /\ actions' = actions + 1
        /\ deps' = ds
        /\ act' = IF kind = "start"
                    THEN [Idle EXCEPT !.kind = kind, !.pc = "check", !.order = TopoOrder(ds)]
                    ELSE [Idle EXCEPT !.kind = kind, !.pc = "stop", !.order = StopOrder(ds)]
        /\ left' = IF kind = "start" THEN Budget ELSE 0
        /\ gaveUp' = {} /\ refused' = {} /\ elapsed' = 0 /\ spins' = 0
        /\ UNCHANGED <<docker, patience, nap, readOnly, outcome, flaws,
                       interference>>

\* stack_members fails, and latches the host when it was the listing that the
\* proxy denies: no member is touched.
ListFails ==
    /\ act = Idle
    /\ interference < MaxInterference
    /\ interference' = interference + 1
    /\ readOnly' \in {readOnly, TRUE}
    /\ UNCHANGED <<docker, act, deps, timers, outcome, gaveUp, refused, spins,
                   actions, flaws, blind>>

\* The connection of the request is closed, as a hub does with a forwarded
\* action after REQUEST_TIMEOUT: the handler is dropped where it waits.
Cancel ==
    /\ act # Idle
    /\ interference < MaxInterference
    /\ interference' = interference + 1
    /\ act' = Idle
    /\ left' = 0 /\ patience' = 0 /\ nap' = 0
    /\ UNCHANGED <<docker, deps, elapsed, readOnly, outcome, gaveUp, refused,
                   spins, actions, flaws, blind>>

\* How a start or stop call may end.
MayFail(m) == denies \/ m \in stack.broken
Fails(m) ==
    \/ MayFail(m) /\ UNCHANGED flaws
    \/ ~MayFail(m) /\ flaws < MaxFlaws /\ flaws' = flaws + 1

\* container_action, of any user at any time: one call, and the latch when it
\* is forbidden.
ContainerAction(m, kind) ==
    /\ interference < MaxInterference
    /\ interference' = interference + 1
    /\ \/ /\ denies
          /\ readOnly' = TRUE
          /\ UNCHANGED <<running, healthy, probed>>
       \/ /\ ~denies /\ m \notin stack.broken
          /\ running' = IF kind = "stop" THEN running \ {m} ELSE running \union {m}
          /\ probed' = IF kind = "stop" THEN probed ELSE Probed(m)
          /\ healthy' = healthy \ {m}
          /\ UNCHANGED readOnly
    /\ UNCHANGED <<stack, denies, act, deps, timers, outcome, gaveUp, refused,
                   spins, actions, flaws, blind>>

-----------------------------------------------------------------------------
(* stop_in_order *)

AtEnd == act.next > Len(act.order)
Current == act.order[act.next]
On(a, pc) == [a EXCEPT !.pc = pc]
Onward(a) == [a EXCEPT !.next = @ + 1]

Stop ==
    /\ act.pc = "stop" /\ ~AtEnd
    /\ \/ /\ ~denies
          /\ running' = running \ {Current} /\ healthy' = healthy \ {Current}
          /\ act' = Onward(act)
          /\ UNCHANGED <<refused, flaws>>
       \/ /\ \/ denies /\ UNCHANGED flaws
             \/ ~denies /\ flaws < MaxFlaws /\ flaws' = flaws + 1
          /\ refused' = refused \union {Current}
          /\ act' = Onward([act EXCEPT !.failed = @ + 1])
          /\ UNCHANGED <<running, healthy>>
    /\ UNCHANGED <<stack, denies, probed, deps, timers, readOnly, outcome, gaveUp,
                   spins, actions, blind, interference>>

\* A stop is done; a restart goes on to start, and forgets the failed stops:
\* topo_order of the same members is the order of the stops backwards.
Stopped ==
    /\ act.pc = "stop" /\ AtEnd
    /\ IF act.kind = "stop"
         THEN /\ act' = Idle
              /\ outcome' = [kind |-> "stop", failed |-> act.failed]
              /\ UNCHANGED left
         ELSE /\ act' = [Idle EXCEPT !.kind = act.kind, !.pc = "check",
                                     !.order = Backwards(act.order)]
              /\ left' = Budget
              /\ UNCHANGED outcome
    /\ UNCHANGED <<docker, deps, patience, nap, elapsed, readOnly, gaveUp, refused,
                   spins, counts>>

-----------------------------------------------------------------------------
(* start_in_order *)

\* run_state, "none" when the inspect call fails; is_running takes that for no.
RunState(m) == IF m \in running THEN "running" ELSE "stopped"
IsRunningUnless(state) == state # "stopped"   \* mutant: for yes
IsRunning(state) == state = "running"

Check ==
    /\ act.pc = "check" /\ ~AtEnd
    /\ \E state \in {RunState(Current), "none"} :
         /\ IF state = "none" THEN blind < MaxBlind /\ blind' = blind + 1
                              ELSE UNCHANGED blind
         /\ act' = IF IsRunning(state) THEN Onward(act)
                   ELSE [On(act, "wait") EXCEPT !.waits = Waits(Current)]
    /\ UNCHANGED <<docker, deps, timers, readOnly, outcome, gaveUp, refused, spins,
                   actions, flaws, interference>>

\* wait_healthy or wait_completed begins with the next dependency.
BeginWait ==
    /\ act.pc = "wait" /\ act.on = NoDep
    /\ \E d \in act.waits :
         act' = [act EXCEPT !.on = d, !.waits = @ \ {d}]
    /\ patience' = DepWait
    /\ UNCHANGED <<docker, deps, left, nap, elapsed, readOnly, outcome, gaveUp,
                   refused, spins, counts>>

\* What the poll of a dependency is satisfied with; health_status finds none
\* where there is no healthcheck, and where it has never run.
Met(d) ==
    LET x == IdOf(d.service) IN
    IF d.condition = "healthy" THEN x \in healthy \/ x \notin probed
                               ELSE x \notin running

\* A poll: met, or the inspect call failed, which counts as met; given up on;
\* or a sleep until the next one.
PollDep ==
    /\ act.pc = "wait" /\ act.on # NoDep /\ nap = 0
    /\ \/ /\ Met(act.on)
          /\ act' = [act EXCEPT !.on = NoDep] /\ patience' = 0
          /\ UNCHANGED <<nap, gaveUp, blind>>
       \/ /\ ~Met(act.on) /\ blind < MaxBlind /\ blind' = blind + 1
          /\ act' = [act EXCEPT !.on = NoDep] /\ patience' = 0
          /\ UNCHANGED <<nap, gaveUp>>
       \/ /\ ~Met(act.on) /\ patience = 0
          /\ act' = [act EXCEPT !.on = NoDep]
          /\ gaveUp' = gaveUp \union {IdOf(act.on.service)}
          /\ UNCHANGED <<patience, nap, blind>>
       \/ /\ ~Met(act.on) /\ patience > 0
          /\ nap' = 1
          /\ UNCHANGED <<act, patience, gaveUp, blind>>
    /\ UNCHANGED <<docker, deps, left, elapsed, readOnly, outcome, refused, spins,
                   actions, flaws, interference>>

\* The dependencies have been waited for: start the member.
Start ==
    /\ act.pc = "wait" /\ act.on = NoDep /\ act.waits = {}
    /\ \/ /\ ~MayFail(Current)
          /\ running' = running \union {Current} /\ probed' = Probed(Current)
          /\ act' = On(Onward([act EXCEPT !.progressed = TRUE]), "check")
          /\ UNCHANGED flaws
       \/ /\ Fails(Current)
          /\ act' = On(Onward([act EXCEPT !.failed = @ + 1]), "check")
          /\ UNCHANGED <<running, probed>>
    /\ UNCHANGED <<stack, denies, healthy, deps, timers, readOnly, outcome, gaveUp,
                   refused, spins, actions, blind, interference>>

\* When a pass with failures is the last one.
ExpiredNever == FALSE   \* mutant: no deadline
Expired == left = 0

\* The end of a pass without failures, or out of time.
Finished == act.failed = 0 \/ Expired

FinishPass ==
    /\ act.pc = "check" /\ AtEnd /\ Finished
    /\ act' = Idle
    /\ outcome' = [kind |-> act.kind, failed |-> act.failed]
    /\ left' = 0
    /\ UNCHANGED <<docker, deps, patience, nap, elapsed, readOnly, gaveUp, refused,
                   spins, counts>>

\* Another pass, after a sleep if nothing progressed in this one.
NextPass ==
    /\ act.pc = "check" /\ AtEnd /\ ~Finished
    /\ nap' = IF act.progressed THEN 0 ELSE 1
    /\ spins' = IF ~act.progressed THEN 0
                ELSE IF spins = MaxSpins THEN spins ELSE spins + 1
    /\ act' = [act EXCEPT !.pc = "nap"]
    /\ UNCHANGED <<docker, deps, left, patience, elapsed, readOnly, outcome, gaveUp,
                   refused, counts>>

Wake ==
    /\ act.pc = "nap" /\ nap = 0
    /\ act' = [Idle EXCEPT !.kind = act.kind, !.pc = "check", !.order = act.order]
    /\ gaveUp' = {}
    /\ UNCHANGED <<docker, deps, timers, readOnly, outcome, refused, spins, counts>>

-----------------------------------------------------------------------------
Handler ==
    \/ Stop \/ Stopped \/ Check \/ BeginWait \/ PollDep \/ Start
    \/ FinishPass \/ NextPass \/ Wake

Next ==
    \/ \E m \in Ids : BecomesHealthy(m) \/ Exits(m) \/ Interfere(m)
    \/ Advance
    \/ \E kind \in {"start", "stop", "restart"} :
         \/ Request(kind)
         \/ \E m \in Ids : ContainerAction(m, kind)
    \/ ListFails
    \/ Cancel
    \/ Handler

Spec == Init /\ [][Next]_vars

\* The runtime keeps polling the handler, the daemon answers, time passes.
Live == Spec /\ WF_vars(Handler) /\ WF_vars(Advance)

-----------------------------------------------------------------------------
(* Properties *)

\* Every variable has its type, and the timers run only where they are used.
TypeOK ==
    /\ stack \in Stacks /\ denies \in BOOLEAN
    /\ running \subseteq Ids /\ healthy \subseteq running \intersect probed
    /\ running \intersect stack.checked \subseteq probed /\ probed \subseteq stack.checked
    /\ act.pc \in {"idle", "stop", "check", "wait", "nap"}
    /\ act.pc = "idle" => act = Idle /\ left + patience + nap = 0
    /\ act.failed \in 0 .. Len(act.order) /\ act.next \in 1 .. Len(act.order) + 1
    /\ deps \in [Ids -> SUBSET Dep]
    /\ left \in 0 .. Budget /\ patience \in 0 .. DepWait /\ nap \in 0 .. 1
    /\ patience > 0 => act.on # NoDep
    /\ readOnly \in BOOLEAN

\* m needs a container of x's service, directly.
Needs(ds, m, x) == \E d \in ds[m] : d.service = stack.service[x]

\* What a set of members needs is in it too.
Closed(ds, S) == \A m \in S, x \in Members : Needs(ds, m, x) => x \in S

\* The members that m needs, directly or not.
Needed(ds, m) ==
    {y \in Members : \A S \in SUBSET Members :
        Closed(ds, S) /\ (\A x \in Members : Needs(ds, m, x) => x \in S) => y \in S}

\* No dependency cycle lies below m.
Orderly(ds, m) == \A x \in Needed(ds, m) \union {m} : x \notin Needed(ds, x)

\* x has had its turn in this pass.
HadTurn(x) == \E k \in 1 .. act.next - 1 : act.order[k] = x

\* "a service_healthy dependency is waited on until its healthcheck reports
\* healthy" (stack_action): no member is started before every container it
\* needs healthy is, as long as nobody interferes, unless that one has exited
\* since, as it was meant to, the wait for it ran out, an inspection failed, or it
\* has never run: a start of it has just failed in this pass (or a cycle keeps
\* it for later), and the code takes a healthcheck that has nothing to show for
\* none (wait_healthy).
HealthyFirst ==
    [][act.pc = "wait" /\ act'.pc = "check" /\ interference + blind = 0 =>
         \A d \in deps[Current] : d.condition = "healthy" =>
           \A x \in Members : stack.service[x] = d.service =>
             \/ x \in healthy \/ x \notin stack.checked
             \/ x \in gaveUp \/ x \in stack.oneshot \ running
             \/ x \notin probed /\ (HadTurn(x) \/ ~Orderly(deps, Current))]_vars

\* The same without that last exception, as the comment has it: StackUnrun.cfg
\* shows a member started beside a dependency whose own first start failed.
HealthyOrGivenUp ==
    [][act.pc = "wait" /\ act'.pc = "check" /\ interference + blind = 0 =>
         \A d \in deps[Current] : d.condition = "healthy" =>
           \A x \in Members : stack.service[x] = d.service =>
             \/ x \in healthy \/ x \notin stack.checked
             \/ x \in gaveUp \/ x \in stack.oneshot \ running]_vars

\* Nothing is stopped under a running container that needs it, unless that one
\* refused to stop or somebody else started it; and no member is started before
\* every container it needs has had its turn, in a stack with a dependency
\* cycle at least for the members that have none below them (stop_in_order,
\* start_in_order, topo_order).
DependencyOrder ==
    [][/\ interference = 0 /\ act.pc = "stop" /\ act'.next = act.next + 1 =>
            \A m \in Members : Orderly(deps, m) /\ Needs(deps, m, Current) =>
              m \notin running \/ m \in refused
       /\ act.pc = "wait" /\ act'.next = act.next + 1 /\ Orderly(deps, Current) =>
            \A x \in Members : Needs(deps, Current, x) => HadTurn(x)]_vars

\* A start or restart that reports no failure leaves every member running,
\* but for those that are meant to exit, as long as nobody interferes
\* (start_in_order).
OutcomeHonest ==
    [][interference = 0 /\ outcome' # outcome =>
         \/ outcome'.kind = "stop" \/ outcome'.failed > 0
         \/ Members \subseteq running \union stack.oneshot]_vars

\* Every action ends, whatever the containers do and however often a pass
\* makes progress on one that exits again (STACK_START_TIMEOUT, DEP_WAIT).
Terminates == act.pc # "idle" ~> act.pc = "idle"

\* "back off before retrying so we don't spin" (start_in_order): no more
\* passes in a row without a sleep than there are members to make progress on.
NoSpin == spins <= Cardinality(Members)

\* "Overall budget for getting every member of a stack running before giving
\* up" (STACK_START_TIMEOUT): an action does not start members for longer,
\* give or take a poll.
WithinBudget == act.pc \in {"check", "wait", "nap"} => elapsed <= Budget + 1

\* "action buttons and terminal disable automatically the moment the proxy
\* returns a 403" (README): an action the proxy denied leaves the host latched.
DenialLatches == outcome # NoOutcome /\ denies => readOnly
=============================================================================
