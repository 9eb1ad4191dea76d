------------------------------ MODULE Startup ------------------------------
(***************************************************************************)
(* From a config.toml and the flags to a serving instance (src/config.rs,  *)
(* build_auth and the host loop of src/main.rs, Store::session_secret).    *)
(*                                                                         *)
(* An operator edits the file and starts the program again and again; the  *)
(* start may be refused at every step, the process may be killed between   *)
(* any two, and only the file and the store's meta table outlive it.  Left *)
(* out: the paths, display options and retention settings, which are       *)
(* merged like the keys here and drive no decision of the start, and the   *)
(* parse of the file, which refuses a start like a bad host list does.     *)
(***************************************************************************)
EXTENDS Integers, Sequences, FiniteSets, SequencesExt

CONSTANTS
    Files,     \* the config files an operator may put in place
    Flags,     \* the flags the program may be started with
    Unset,     \* a key or flag that is not given
    Blank,     \* a value of nothing but white space
    BadName,   \* a name with other characters than a slug's
    NoConfig,  \* no configuration is loaded
    NoAuth,    \* AppState.auth = None
    NoSecret,  \* the meta table has no session_secret row
    MaxBoots,  \* bound on starts of the program
    MaxEdits   \* bound on changes of the file

Endpoint == {Unset, Blank, "unix", "tcp", "http", "ftp"}
HostKeys == {"name", "docker", "dockdoe", "token", "node_host", "interval"}
GlobalKeys == {"interval", "user", "password", "token", "allowed", "mem_cap"}

ASSUME FilesAssumption ==
    \A f \in Files :
        /\ DOMAIN f = GlobalKeys \union {"host"}
        /\ {f.interval, f.mem_cap} \subseteq Nat \union {Unset}
        /\ f.host \in Seq(Range(f.host))
        /\ \A i \in DOMAIN f.host :
            /\ DOMAIN f.host[i] = HostKeys
            /\ {f.host[i].docker, f.host[i].dockdoe} \subseteq Endpoint
            /\ f.host[i].interval \in Nat \union {Unset}
ASSUME FlagsAssumption ==
    \A c \in Flags :
        DOMAIN c = GlobalKeys /\ c.interval \in Nat /\ c.mem_cap \in Nat

\* The users and passwords a file or a flag gives.
Credentials ==
    {f[k] : f \in Files, k \in {"user", "password"}}
        \union {c[k] : c \in Flags, k \in {"user", "password"}}

ASSUME NullsAssumption ==
    /\ NoConfig \notin Files
    /\ NoSecret \notin Nat
    /\ NoAuth \notin [user : Credentials, password : Credentials, secret : Nat]
ASSUME StartBounds == MaxBoots \in Nat /\ MaxEdits \in Nat

VARIABLES
    file,     \* the config.toml in place
    flags,    \* the flags of this deployment
    phase,    \* how far the start has come
    cfg,      \* AppConfig of the process
    given,    \* ghost: the file it was loaded from
    secrets,  \* the session secrets the OS has handed out so far
    meta,     \* the session_secret row of the store
    auth,     \* AppState.auth: the pair and the secret
    todo,     \* cfg.hosts the loop has not come to yet
    order,    \* AppState.host_order
    tasks,    \* names of the hosts whose collector or federation task lives
    boots,    \* starts so far
    edits     \* changes of the file so far

settings == <<file, flags, edits>>
process == <<phase, cfg, given, auth, todo, order, tasks>>
startVars == <<settings, process, secrets, meta, boots>>

-----------------------------------------------------------------------------
(* Loading the configuration. *)

DefaultHost ==
    [name |-> "local", docker |-> "unix", dockdoe |-> Unset, token |-> Unset,
     node_host |-> Unset, interval |-> Unset]

HostsOf(f) == IF f.host = <<>> THEN <<DefaultHost>> ELSE f.host

IsNode(h) == h.dockdoe # Unset

OneEndpoint(h) ==
    \/ h.dockdoe = Unset /\ h.docker \notin {Unset, Blank}
    \/ h.docker = Unset /\ h.dockdoe = "http"

\* mutant: the interval of a host is not looked at.
ValidHostAnyPace(h) ==
    /\ h.name # BadName
    /\ OneEndpoint(h)
    /\ IsNode(h) \/ (h.token = Unset /\ h.node_host = Unset)
    /\ h.token # Blank

ValidHost(h) ==
    /\ h.name # BadName
    /\ OneEndpoint(h)
    /\ IsNode(h) \/ (h.token = Unset /\ h.node_host = Unset)
    /\ h.token # Blank
    /\ h.interval # 0

ValidHosts(hs) ==
    /\ hs # <<>>
    /\ \A i \in DOMAIN hs : ValidHost(hs[i])
    /\ \A i, j \in DOMAIN hs : hs[i].name = hs[j].name => i = j

\* mutant: a file speaks for the interval, given or not.
MergedFileOnly(f, c) ==
    [k \in GlobalKeys \union {"host"} |->
        IF k = "host" THEN HostsOf(f)
        ELSE IF k = "interval" \/ f[k] # Unset THEN f[k] ELSE c[k]]

\* A key of the file goes before the flag; the hosts are the file's alone.
Merged(f, c) ==
    [k \in GlobalKeys \union {"host"} |->
        IF k = "host" THEN HostsOf(f)
        ELSE IF f[k] # Unset THEN f[k] ELSE c[k]]

\* The flag parser refuses a zero interval; the file's is taken as it is.
ParsesFlags(c) == c.interval >= 1

\* The cap on the memory disc, in units of OVERVIEW_MEM_FLOOR, leaves it a range.
Loads(f, c) ==
    /\ ParsesFlags(c) /\ ValidHosts(HostsOf(f))
    /\ Merged(f, c).mem_cap >= 2 /\ Merged(f, c).token # Blank

EffectiveInterval(h, global) ==
    IF h.interval # Unset THEN h.interval
    ELSE IF ~IsNode(h) /\ h.docker = "unix" THEN global
    ELSE 10

-----------------------------------------------------------------------------
NoProcess ==
    /\ phase = "down"
    /\ cfg = NoConfig
    /\ given = NoConfig
    /\ auth = NoAuth
    /\ todo = <<>>
    /\ order = <<>>
    /\ tasks = {}

\* The process is gone, and all it held.
Exit ==
    /\ phase' = "down"
    /\ cfg' = NoConfig
    /\ given' = NoConfig
    /\ auth' = NoAuth
    /\ todo' = <<>>
    /\ order' = <<>>
    /\ tasks' = {}

StartInit ==
    /\ file \in Files
    /\ flags \in Flags
    /\ NoProcess
    /\ secrets = 0
    /\ meta = NoSecret
    /\ boots = 0
    /\ edits = 0

EditFile ==
    /\ edits < MaxEdits
    /\ file' \in Files \ {file}
    /\ edits' = edits + 1
    /\ UNCHANGED <<flags, process, secrets, meta, boots>>

\* A refused configuration ends the program before it has done anything.
Load ==
    /\ phase = "down"
    /\ boots < MaxBoots
    /\ boots' = boots + 1
    /\ IF Loads(file, flags)
       THEN /\ cfg' = Merged(file, flags)
            /\ given' = file
            /\ phase' = "loaded"
            /\ UNCHANGED <<auth, todo, order, tasks>>
       ELSE UNCHANGED process
    /\ UNCHANGED <<settings, secrets, meta>>

OpenStore ==
    /\ phase = "loaded"
    /\ \/ phase' = "opened" /\ UNCHANGED <<cfg, given, auth, todo, order, tasks>>
       \/ Exit
    /\ UNCHANGED <<settings, secrets, meta, boots>>

\* mutant: the secret is made anew for every process.
KnownSecretNever == NoSecret

KnownSecret == meta

HasPair == cfg.user # Unset /\ cfg.password # Unset

\* mutant: the login is on only if both credentials are there, else off.
HalfPairOff == FALSE

HalfPair == (cfg.user = Unset) # (cfg.password = Unset)

\* The store may refuse the secret's read or its insert.
BuildAuth ==
    /\ phase = "opened"
    /\ \/ /\ HasPair
          /\ secrets' = IF KnownSecret = NoSecret THEN secrets + 1 ELSE secrets
          /\ meta' = IF KnownSecret = NoSecret THEN secrets + 1 ELSE meta
          /\ auth' = [user |-> cfg.user, password |-> cfg.password,
                      secret |-> meta']
          /\ phase' = "hosts"
          /\ todo' = cfg.host
          /\ UNCHANGED <<cfg, given, order, tasks>>
       \/ /\ ~HasPair /\ ~HalfPair
          /\ phase' = "hosts"
          /\ todo' = cfg.host
          /\ UNCHANGED <<cfg, given, auth, order, tasks, secrets, meta>>
       \/ /\ HasPair \/ HalfPair
          /\ Exit
          /\ UNCHANGED <<secrets, meta>>
    /\ UNCHANGED <<settings, boots>>

AddHost ==
    /\ phase = "hosts"
    /\ todo # <<>>
    /\ \/ /\ todo' = Tail(todo)
          /\ order' = Append(order, Head(todo).name)
          /\ tasks' = tasks \union {Head(todo).name}
          /\ UNCHANGED <<phase, cfg, given, auth>>
       \/ Exit
    /\ UNCHANGED <<settings, secrets, meta, boots>>

\* tokio::time::interval panics on a period of zero, in the host's own task.
TaskPanics ==
    /\ \E h \in Range(cfg.host) :
        /\ h.name \in tasks
        /\ EffectiveInterval(h, cfg.interval) = 0
        /\ tasks' = tasks \ {h.name}
    /\ UNCHANGED <<settings, phase, cfg, given, auth, todo, order, secrets, meta,
                   boots>>

Bind ==
    /\ phase = "hosts"
    /\ todo = <<>>
    /\ \/ phase' = "serving" /\ UNCHANGED <<cfg, given, auth, todo, order, tasks>>
       \/ Exit
    /\ UNCHANGED <<settings, secrets, meta, boots>>

\* SIGTERM while serving, a kill at any time.
Stop ==
    /\ phase # "down"
    /\ Exit
    /\ UNCHANGED <<settings, secrets, meta, boots>>

StartNext ==
    \/ EditFile \/ Load \/ OpenStore \/ BuildAuth \/ AddHost \/ Bind
    \/ (cfg # NoConfig /\ TaskPanics)
    \/ Stop

Serving == phase = "serving"

StartTypeOK ==
    /\ file \in Files /\ flags \in Flags
    /\ phase \in {"down", "loaded", "opened", "hosts", "serving"}
    /\ cfg # NoConfig => cfg.interval \in Nat
    /\ secrets \in Nat /\ meta \in 1..secrets \union {NoSecret}
    /\ auth # NoAuth => Unset \notin {auth.user, auth.password}
    /\ given \in Files \union {NoConfig} /\ (given = NoConfig <=> phase = "down")
    /\ tasks \subseteq Range(order) /\ Len(order) = Cardinality(Range(order))
    /\ boots \in 0..MaxBoots /\ edits \in 0..MaxEdits

(* Every host the pages offer has the task that feeds it: a serving process *)
(* runs every host of its configuration, each once, and none of their tasks *)
(* has died of its settings (validate_hosts, the flag's range, the spawns). *)
FeedersRun ==
    Serving =>
        /\ Len(order) = Cardinality(Range(order))
        /\ Range(order) = {h.name : h \in Range(HostsOf(given))}
        /\ tasks = Range(order)
=============================================================================
