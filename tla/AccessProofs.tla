---------------------------- MODULE AccessProofs ----------------------------
(***************************************************************************)
(* Theorems about the start of the program and the guards, for every set   *)
(* of configuration files, flags, credentials and tokens, every lifetime   *)
(* of a session and every bound.                                           *)
(***************************************************************************)
EXTENDS Access, FiniteSetTheorems, TLAPS

-----------------------------------------------------------------------------
(* The configuration *)

\* A key of the configuration is the file's, or else the flag's (load()).
LEMMA MergedKeys ==
    ASSUME NEW f, NEW c
    PROVE  /\ Merged(f, c).user = IF f.user # Unset THEN f.user ELSE c.user
           /\ Merged(f, c).password
                = IF f.password # Unset THEN f.password ELSE c.password
           /\ Merged(f, c).token = IF f.token # Unset THEN f.token ELSE c.token
           /\ Merged(f, c).interval
                = IF f.interval # Unset THEN f.interval ELSE c.interval
           /\ Merged(f, c).host = HostsOf(f)
BY DEF Merged, GlobalKeys

\* The credentials of a configuration are some file's or flag's.
LEMMA MergedCredentials ==
    ASSUME NEW f \in Files, NEW c \in Flags
    PROVE  /\ Merged(f, c).user \in Credentials
           /\ Merged(f, c).password \in Credentials
           /\ Merged(f, c).interval \in Nat
<1>1. {f.user, f.password, c.user, c.password} \subseteq Credentials
  BY DEF Credentials
<1>2. f.interval \in Nat \union {Unset} /\ c.interval \in Nat
  BY FilesAssumption, FlagsAssumption
<1> QED BY <1>1, <1>2, MergedKeys

\* The hosts of a configuration that is accepted are a sequence, and no two
\* have the same name (validate_hosts).
LEMMA ValidNames ==
    ASSUME NEW f \in Files, ValidHosts(HostsOf(f))
    PROVE  /\ HostsOf(f) \in Seq(Range(HostsOf(f)))
           /\ \A i, j \in 1 .. Len(HostsOf(f)) :
                HostsOf(f)[i].name = HostsOf(f)[j].name => i = j
<1>1. HostsOf(f) \in Seq(Range(HostsOf(f)))
  <2>1. CASE f.host = <<>>
    <3>1. HostsOf(f) = <<DefaultHost>>
      BY <2>1 DEF HostsOf
    <3>2. DefaultHost \in Range(<<DefaultHost>>)
      BY DEF Range
    <3> QED BY <3>1, <3>2
  <2>2. CASE f.host # <<>>
    BY <2>2, FilesAssumption DEF HostsOf
  <2> QED BY <2>1, <2>2
<1> QED BY <1>1 DEF ValidHosts

-----------------------------------------------------------------------------
(* The start of the program *)

\* The loop over the hosts: those before todo have their place in the order,
\* todo holds the others.
Placed ==
    LET hosts == HostsOf(given) IN
    /\ order \in Seq({hosts[i].name : i \in 1 .. Len(hosts)})
    /\ Len(order) <= Len(hosts)
    /\ \A i \in 1 .. Len(order) : order[i] = hosts[i].name
    /\ todo \in Seq(Range(hosts))
    /\ Len(todo) = Len(hosts) - Len(order)
    /\ \A i \in 1 .. Len(todo) : todo[i] = hosts[Len(order) + i]

StartInv ==
    /\ StartTypeOK
    /\ phase # "down" => /\ cfg = Merged(given, flags)
                         /\ ValidHosts(HostsOf(given))
    /\ phase \in {"down", "loaded", "opened"} =>
         order = <<>> /\ tasks = {} /\ auth = NoAuth
    /\ auth # NoAuth => auth.secret = meta /\ meta # NoSecret
    /\ phase \in {"hosts", "serving"} =>
         /\ Placed
         /\ auth = NoAuth => cfg.user = Unset /\ cfg.password = Unset

\* No name is twice among the first hosts of a valid configuration.
LEMMA OrderDistinct ==
    ASSUME NEW f \in Files, ValidHosts(HostsOf(f)), NEW names,
           NEW o \in Seq(names), Len(o) <= Len(HostsOf(f)),
           \A i \in 1 .. Len(o) : o[i] = HostsOf(f)[i].name
    PROVE  Len(o) = Cardinality(Range(o))
<1> DEFINE hosts == HostsOf(f)
           n == Len(o)
           F == [i \in 1 .. n |-> o[i]]
<1>1. n \in Nat /\ Len(hosts) \in Nat
  BY ValidNames
<1>2. \A i, j \in 1 .. n : o[i] = o[j] => i = j
  <2>1. 1 .. n \subseteq 1 .. Len(hosts)
    BY <1>1
  <2>2. \A i, j \in 1 .. Len(hosts) : hosts[i].name = hosts[j].name => i = j
    BY ValidNames
  <2> QED BY <1>1, <2>1, <2>2
<1>3. Range(o) = {o[i] : i \in 1 .. n}
  BY <1>1 DEF Range
<1>4. F \in Bijection(1 .. n, Range(o))
  BY <1>2, <1>3 DEF Bijection, Injection, Surjection, IsInjective
<1>5. IsFiniteSet(1 .. n) /\ Cardinality(1 .. n) = n
  <2> HIDE DEF n, hosts
  <2>1. n \in Int /\ (1 > n => n = 0)
    BY <1>1
  <2> QED BY <2>1, FS_Interval
<1>6. Cardinality(1 .. n) = Cardinality(Range(o))
  BY <1>4, <1>5, FS_Bijection DEF ExistsBijection
<1> QED BY <1>5, <1>6

\* Nothing runs yet.
LEMMA StartInitially == StartInit => StartInv
<1> SUFFICES ASSUME StartInit PROVE StartInv
  OBVIOUS
<1>1. Range(<<>>) = {} /\ Cardinality({}) = 0
  BY FS_EmptySet DEF Range
<1>2. StartTypeOK
  <2>1. /\ file \in Files /\ flags \in Flags /\ phase = "down"
        /\ cfg = NoConfig /\ given = NoConfig /\ auth = NoAuth
        /\ order = <<>> /\ tasks = {} /\ secrets = 0 /\ meta = NoSecret
        /\ boots = 0 /\ edits = 0
    BY DEF StartInit, NoProcess
  <2>2. Len(order) = Cardinality(Range(order)) /\ tasks \subseteq Range(order)
    BY <1>1, <2>1
  <2>3. boots \in 0 .. MaxBoots /\ edits \in 0 .. MaxEdits
    BY <2>1, StartBounds
  <2> QED BY <2>1, <2>2, <2>3, NullsAssumption DEF StartTypeOK
<1> QED BY <1>2 DEF StartInit, NoProcess, StartInv

\* A process that ends leaves nothing behind but the store.
LEMMA StartExit ==
    ASSUME StartInv, Exit, UNCHANGED <<settings, secrets, meta, boots>>
    PROVE  StartInv'
<1>1. Range(<<>>) = {} /\ Cardinality({}) = 0
  BY FS_EmptySet DEF Range
<1>2. /\ phase' = "down" /\ cfg' = NoConfig /\ given' = NoConfig /\ auth' = NoAuth
      /\ order' = <<>> /\ tasks' = {}
      /\ UNCHANGED <<file, flags, secrets, meta, boots, edits>>
  BY DEF Exit, settings
<1>3. Len(order') = Cardinality(Range(order')) /\ tasks' \subseteq Range(order')
  BY <1>1, <1>2
<1>4. StartTypeOK'
  BY <1>2, <1>3, NullsAssumption DEF StartInv, StartTypeOK
<1> QED BY <1>2, <1>4 DEF StartInv

\* The file is read and the secret made; the loop over the hosts begins with
\* nothing in its order.
LEMMA StartLoad == StartInv /\ Load => StartInv'
<1> SUFFICES ASSUME StartInv, Load PROVE StartInv'
  OBVIOUS
<1>1. /\ UNCHANGED <<file, flags, edits, secrets, meta, auth, order, tasks>>
      /\ phase = "down" /\ boots < MaxBoots /\ boots' = boots + 1
  BY DEF Load, settings, process
<1>2. boots' \in 0 .. MaxBoots
  BY <1>1, StartBounds DEF StartInv, StartTypeOK
<1>3. CASE Loads(file, flags)
  <2>1. cfg' = Merged(file, flags) /\ given' = file /\ phase' = "loaded"
    BY <1>3 DEF Load
  <2>2. file \in Files /\ flags \in Flags
    BY DEF StartInv, StartTypeOK
  <2>3. cfg'.interval \in Nat
    BY <2>1, <2>2, MergedCredentials
  <2>4. StartTypeOK'
    BY <1>1, <1>2, <2>1, <2>2, <2>3, NullsAssumption DEF StartInv, StartTypeOK
  <2> QED BY <1>1, <1>3, <2>1, <2>4 DEF StartInv, Loads
<1>4. CASE ~Loads(file, flags)
  <2>1. UNCHANGED <<phase, cfg, given>>
    BY <1>4 DEF Load, process
  <2>2. StartTypeOK'
    BY <1>1, <1>2, <2>1 DEF StartInv, StartTypeOK
  <2> QED BY <1>1, <2>1, <2>2 DEF StartInv
<1> QED BY <1>3, <1>4

\* build_auth: the secret is loaded or made.
LEMMA StartBuildAuth == StartInv /\ BuildAuth => StartInv'
<1> SUFFICES ASSUME StartInv, BuildAuth PROVE StartInv'
  OBVIOUS
<1>1. /\ phase = "opened" /\ UNCHANGED <<file, flags, edits, boots>>
      /\ order = <<>> /\ tasks = {} /\ auth = NoAuth
      /\ cfg = Merged(given, flags) /\ ValidHosts(HostsOf(given))
      /\ given \in Files /\ flags \in Flags
      /\ secrets \in Nat /\ meta \in 1 .. secrets \union {NoSecret}
  BY NullsAssumption DEF BuildAuth, settings, StartInv, StartTypeOK
<1>2. cfg.host = HostsOf(given)
  BY <1>1, MergedKeys
<1>3. ASSUME phase' = "hosts", todo' = cfg.host, UNCHANGED <<cfg, given, order, tasks>>
      PROVE  Placed'
  <2>1. HostsOf(given) \in Seq(Range(HostsOf(given)))
    BY <1>1, ValidNames
  <2>2. todo' = HostsOf(given) /\ order' = <<>> /\ given' = given
    BY <1>1, <1>2, <1>3
  <2> QED BY <2>1, <2>2 DEF Placed
<1>4. CASE /\ HasPair
           /\ secrets' = IF KnownSecret = NoSecret THEN secrets + 1 ELSE secrets
           /\ meta' = IF KnownSecret = NoSecret THEN secrets + 1 ELSE meta
           /\ auth' = [user |-> cfg.user, password |-> cfg.password,
                       secret |-> meta']
           /\ phase' = "hosts"
           /\ todo' = cfg.host
           /\ UNCHANGED <<cfg, given, order, tasks>>
  <2>1. /\ secrets' \in Nat /\ meta' \in 1 .. secrets' /\ meta' # NoSecret
    BY <1>1, <1>4, NullsAssumption DEF KnownSecret
  <2>2. auth' \in [user : Credentials, password : Credentials, secret : Nat]
    BY <1>1, <1>4, <2>1, MergedCredentials
  <2>3. auth' # NoAuth /\ auth'.secret = meta'
    BY <1>4, <2>2, NullsAssumption
  <2>4. Unset \notin {auth'.user, auth'.password}
    BY <1>4 DEF HasPair
  <2>5. StartTypeOK'
    BY <1>1, <1>4, <2>1, <2>4 DEF StartInv, StartTypeOK
  <2> QED BY <1>1, <1>3, <1>4, <2>1, <2>3, <2>5 DEF StartInv
<1>5. CASE /\ ~HasPair /\ ~HalfPair
           /\ phase' = "hosts"
           /\ todo' = cfg.host
           /\ UNCHANGED <<cfg, given, auth, order, tasks, secrets, meta>>
  <2>1. cfg.user = Unset /\ cfg.password = Unset
    BY <1>5 DEF HasPair, HalfPair
  <2>2. StartTypeOK'
    BY <1>1, <1>5 DEF StartInv, StartTypeOK
  <2> QED BY <1>1, <1>3, <1>5, <2>1, <2>2 DEF StartInv
<1>6. CASE Exit /\ UNCHANGED <<secrets, meta>>
  <2>1. UNCHANGED <<settings, secrets, meta, boots>>
    BY <1>6 DEF BuildAuth
  <2> QED BY <1>6, <2>1, StartExit
<1> QED BY <1>4, <1>5, <1>6 DEF BuildAuth

\* The loop takes the next host.
LEMMA StartAddHost == StartInv /\ AddHost => StartInv'
<1> SUFFICES ASSUME StartInv, AddHost PROVE StartInv'
  OBVIOUS
<1>1. CASE Exit
  BY <1>1, StartExit DEF AddHost
<1>2. CASE ~Exit
  <2> DEFINE hosts == HostsOf(given)
             n == Len(order)
             names == {hosts[i].name : i \in 1 .. Len(hosts)}
  <2>1. /\ UNCHANGED <<file, flags, edits, boots, secrets, meta, phase, cfg, given,
                       auth>>
        /\ phase = "hosts" /\ todo # <<>> /\ todo' = Tail(todo)
        /\ order' = Append(order, Head(todo).name)
        /\ tasks' = tasks \union {Head(todo).name}
    BY <1>2 DEF AddHost, settings
  <2>2. /\ order \in Seq(names) /\ todo \in Seq(Range(hosts))
        /\ n <= Len(hosts) /\ Len(todo) = Len(hosts) - n
        /\ \A i \in 1 .. n : order[i] = hosts[i].name
        /\ \A i \in 1 .. Len(todo) : todo[i] = hosts[n + i]
        /\ given \in Files /\ ValidHosts(hosts)
    BY <2>1, NullsAssumption DEF StartInv, StartTypeOK, Placed
  <2>3. n \in Nat /\ Len(hosts) \in Nat
    BY <2>2, ValidNames
  <2> HIDE DEF hosts
  <2>4. Len(todo) > 0 /\ Head(todo) = hosts[n + 1] /\ n + 1 \in 1 .. Len(hosts)
    BY <2>1, <2>2, <2>3
  <2>5. /\ Head(todo).name \in names
        /\ order' \in Seq(names) /\ Len(order') = n + 1
    BY <2>1, <2>2, <2>4
  <2>6. \A i \in 1 .. n + 1 : order'[i] = hosts[i].name
    BY <2>1, <2>2, <2>3, <2>4
  <2>7. /\ todo' \in Seq(Range(hosts)) /\ Len(todo') = Len(hosts) - (n + 1)
        /\ \A i \in 1 .. Len(todo') : todo'[i] = hosts[n + 1 + i]
    <3>1. /\ todo' \in Seq(Range(hosts)) /\ Len(todo') = Len(todo) - 1
          /\ \A i \in 1 .. Len(todo') : todo'[i] = todo[i + 1]
      BY <2>1, <2>2, <2>4
    <3>2. \A i \in 1 .. Len(todo') : /\ i + 1 \in 1 .. Len(todo)
                                    /\ n + (i + 1) = n + 1 + i
      BY <2>2, <2>3, <3>1
    <3>3. \A i \in 1 .. Len(todo') : todo'[i] = hosts[n + (i + 1)]
      BY <2>2, <3>1, <3>2
    <3> QED BY <2>2, <2>3, <3>1, <3>2, <3>3
  <2>8. Placed'
    <3>1. HostsOf(given)' = hosts
      BY <2>1 DEF hosts
    <3> QED BY <2>3, <2>4, <2>5, <2>6, <2>7, <3>1 DEF Placed
  <2>9. Len(order') = Cardinality(Range(order'))
    <3>1. n + 1 <= Len(hosts)
      BY <2>4
    <3> QED BY <2>2, <2>5, <2>6, <3>1, OrderDistinct DEF hosts
  <2>10. tasks' \subseteq Range(order')
    <3>1. tasks \subseteq Range(order)
      BY DEF StartInv, StartTypeOK
    <3>2. Range(order) \subseteq Range(order') /\ Head(todo).name \in Range(order')
      <4>1. /\ DOMAIN order = 1 .. n /\ DOMAIN order' = 1 .. n + 1
            /\ order'[n + 1] = Head(todo).name /\ n + 1 \in 1 .. n + 1
            /\ \A i \in 1 .. n : i \in 1 .. n + 1 /\ order'[i] = order[i]
        BY <2>1, <2>2, <2>3, <2>5
      <4> QED BY <4>1 DEF Range
    <3> QED BY <2>1, <3>1, <3>2
  <2>11. StartTypeOK'
    BY <2>1, <2>9, <2>10 DEF StartInv, StartTypeOK
  <2> QED BY <2>1, <2>8, <2>11 DEF StartInv
<1> QED BY <1>1, <1>2

\* Every step of the operator, the start and the end of a process.
LEMMA StartStep == StartInv /\ [StartNext]_startVars => StartInv'
<1> SUFFICES ASSUME StartInv, [StartNext]_startVars PROVE StartInv'
  OBVIOUS
<1> USE DEF settings, process
<1>1. CASE EditFile
  <2>1. /\ UNCHANGED <<flags, process, secrets, meta, boots>> /\ file' \in Files
        /\ edits' \in 0 .. MaxEdits
    BY <1>1, StartBounds DEF EditFile, StartInv, StartTypeOK
  <2>2. StartTypeOK'
    BY <2>1 DEF StartInv, StartTypeOK
  <2> QED BY <2>1, <2>2 DEF StartInv, Placed
<1>2. CASE Load
  BY <1>2, StartLoad
<1>3. CASE OpenStore
  <2>1. CASE Exit
    BY <1>3, <2>1, StartExit DEF OpenStore
  <2>2. CASE ~Exit
    <3>1. /\ phase = "loaded" /\ phase' = "opened"
          /\ UNCHANGED <<settings, cfg, given, auth, todo, order, tasks, secrets, meta,
                         boots>>
      BY <1>3, <2>2 DEF OpenStore
    <3>2. StartTypeOK'
      BY <3>1 DEF StartInv, StartTypeOK
    <3> QED BY <3>1, <3>2 DEF StartInv
  <2> QED BY <2>1, <2>2
<1>4. CASE BuildAuth
  BY <1>4, StartBuildAuth
<1>5. CASE AddHost
  BY <1>5, StartAddHost
<1>6. CASE Bind
  <2>1. CASE Exit
    BY <1>6, <2>1, StartExit DEF Bind
  <2>2. CASE ~Exit
    <3>1. /\ phase = "hosts" /\ phase' = "serving"
          /\ UNCHANGED <<settings, cfg, given, auth, todo, order, tasks, secrets, meta,
                         boots>>
      BY <1>6, <2>2 DEF Bind
    <3>2. StartTypeOK'
      BY <3>1 DEF StartInv, StartTypeOK
    <3> QED BY <3>1, <3>2 DEF StartInv, Placed
  <2> QED BY <2>1, <2>2
<1>7. CASE TaskPanics
  <2>1. /\ tasks' \subseteq tasks
        /\ UNCHANGED <<settings, phase, cfg, given, auth, todo, order, secrets, meta,
                       boots>>
    BY <1>7 DEF TaskPanics
  <2>2. StartTypeOK'
    BY <2>1 DEF StartInv, StartTypeOK
  <2> QED BY <2>1, <2>2 DEF StartInv, Placed
<1>8. CASE Stop
  BY <1>8, StartExit DEF Stop
<1>9. CASE UNCHANGED startVars
  <2>1. UNCHANGED <<settings, process, secrets, meta, boots>>
    BY <1>9 DEF startVars
  <2>2. StartTypeOK'
    BY <2>1 DEF StartInv, StartTypeOK
  <2> QED BY <2>1, <2>2 DEF StartInv, Placed
<1> QED BY <1>1, <1>2, <1>3, <1>4, <1>5, <1>6, <1>7, <1>8, <1>9 DEF StartNext

\* The secret, once made, is made no more (Store::session_secret).
LEMMA SecretKept ==
    ASSUME StartInv, [StartNext]_startVars, meta # NoSecret
    PROVE  meta' = meta
BY DEF StartNext, EditFile, Load, OpenStore, BuildAuth, AddHost, Bind, TaskPanics,
       Stop, KnownSecret, startVars

-----------------------------------------------------------------------------
(* Sessions *)

\* A cookie is of the last login and expires a TTL after it.
OfLogin(c) == c # NoCookie => login \in 0 .. now /\ c.expiry = login + TTL

AccessInv ==
    /\ StartInv
    /\ TypeOK
    /\ OfLogin(cookie)
    /\ cookie # NoCookie => cookie.key = meta /\ meta # NoSecret
    /\ ~Idle => OfLogin(request.cookie) /\ request.bearer = Unset

\* No browser has been there yet.
LEMMA AccessInit == Init => AccessInv
<1> SUFFICES ASSUME Init PROVE AccessInv
  OBVIOUS
<1>1. StartInv
  BY StartInitially DEF Init
<1>2. TypeOK
  BY <1>1, AccessAssumption DEF Init, TypeOK, Shown, StartInv
<1> QED BY <1>1, <1>2 DEF Init, AccessInv, OfLogin, Idle

\* A request of the browser is a request and carries its cookie.
LEMMA AskType ==
    ASSUME TypeOK, NEW path \in Path, NEW to \in PageHosts \union {Unset},
           NEW h \in HostHeaders, NEW post \in BOOLEAN, NEW htmx \in BOOLEAN,
           NEW pair \in Pairs \union {Unset}
    PROVE  /\ Ask(path, to, h, post, htmx, pair) \in Request
           /\ Ask(path, to, h, post, htmx, pair).cookie = cookie
           /\ Ask(path, to, h, post, htmx, pair).bearer = Unset
BY DEF Ask, Request, TypeOK

\* Where an answer sends the browser is a page there is.
LEMMA AnswerTargets ==
    ASSUME AccessInv, Serving, NEW r, NEW to \in Answer(r)
    PROVE  to.path \in Path /\ to.to \in PageHosts \union {Unset}
<1>1. to \in {ToLogin, Home} \/ (Len(order) = 1 /\ to = ToHost(order[1]))
  <2>1. to \in Redirect(r) \/ to = ToLogin
    BY DEF Answer, GuardRedirect
  <2>2. CASE to \in Redirect(r)
    BY <2>2 DEF Redirect
  <2> QED BY <2>1, <2>2
<1>2. CASE to \in {ToLogin, Home}
  BY <1>2 DEF ToLogin, Home, Path, Public
<1>3. CASE Len(order) = 1 /\ to = ToHost(order[1])
  <2>1. Placed /\ ValidHosts(HostsOf(given)) /\ given \in Files
    BY NullsAssumption DEF AccessInv, StartInv, StartTypeOK, Serving
  <2>2. /\ Len(order) <= Len(HostsOf(given)) /\ order[1] = HostsOf(given)[1].name
        /\ HostsOf(given) \in Seq(Range(HostsOf(given)))
    BY <1>3, <2>1, ValidNames DEF Placed
  <2>3. 1 \in DOMAIN HostsOf(given)
    BY <1>3, <2>2
  <2> QED BY <1>3, <2>1, <2>2, <2>3, PagesAssumption DEF ToHost, Path
<1> QED BY <1>1, <1>2, <1>3

\* A request goes out with the browser's cookie.
LEMMA AccessSend ==
    ASSUME AccessInv, NEW path \in Path, NEW to \in PageHosts \union {Unset},
           NEW h \in HostHeaders, NEW post \in BOOLEAN, NEW htmx \in BOOLEAN,
           NEW pair \in Pairs \union {Unset},
           Send(Ask(path, to, h, post, htmx, pair))
    PROVE  AccessInv'
<1> DEFINE r == Ask(path, to, h, post, htmx, pair)
<1>1. r \in Request /\ r.cookie = cookie /\ r.bearer = Unset
  BY AskType DEF AccessInv
<1> HIDE DEF r
<1>2. /\ request' = r
      /\ UNCHANGED <<startVars, now, cookie, page, login>>
  BY DEF Send, r
<1>3. StartInv'
  BY <1>2, StartStep DEF AccessInv
<1>4. TypeOK'
  BY <1>1, <1>2, <1>3 DEF AccessInv, TypeOK, StartInv
<1>5. OfLogin(cookie)' /\ OfLogin(request.cookie)'
  BY <1>1, <1>2 DEF AccessInv, OfLogin
<1>6. UNCHANGED meta
  BY <1>2 DEF startVars
<1> QED BY <1>1, <1>2, <1>3, <1>4, <1>5, <1>6 DEF AccessInv

\* An answer: a login issues a cookie of the running instance's secret, a
\* logout takes it away, and a redirect is followed with what is left.
LEMMA AccessServe == AccessInv /\ Serve => AccessInv'
<1> SUFFICES ASSUME AccessInv, Serve PROVE AccessInv'
  OBVIOUS
<1>1. /\ ~Idle /\ Serving /\ UNCHANGED <<startVars, now>>
      /\ cookie' = CookieAfter(request) /\ login' = LoginAfter(request)
      /\ request \in Request
  BY DEF Serve, AccessInv, TypeOK, Idle
<1>2. StartInv' /\ UNCHANGED meta
  BY <1>1, StartStep DEF AccessInv, startVars
<1>3. now \in Nat /\ now \in 0 .. MaxTime
  BY AccessAssumption DEF AccessInv, TypeOK
<1>4. /\ login' \in 0 .. now \union {Never}
      /\ cookie' # NoCookie =>
           /\ cookie' \in Cookie /\ cookie'.expiry = login' + TTL
           /\ cookie'.key = meta /\ meta # NoSecret /\ login' \in 0 .. now
  <2>1. CASE Reaches(request) /\ GoodLogin(request)
    <3>1. cookie' = IssueCookie /\ login' = now
      BY <1>1, <2>1 DEF CookieAfter, LoginAfter, GoodLogin
    <3>2. auth.secret = meta /\ meta # NoSecret /\ meta \in Nat
      BY <2>1 DEF GoodLogin, AccessInv, StartInv, StartTypeOK
    <3>3. IssueCookie \in Cookie /\ IssueCookie.expiry = now + TTL
          /\ IssueCookie.key = meta
      BY <1>3, <3>2, AccessAssumption DEF IssueCookie, Cookie
    <3> QED BY <1>3, <3>1, <3>2, <3>3
  <2>2. CASE /\ ~(Reaches(request) /\ GoodLogin(request))
             /\ Reaches(request) /\ request.path = "/logout" /\ auth # NoAuth
    BY <1>1, <2>2 DEF CookieAfter, LoginAfter
  <2>3. CASE /\ ~(Reaches(request) /\ GoodLogin(request))
             /\ ~(Reaches(request) /\ request.path = "/logout" /\ auth # NoAuth)
    <3>1. cookie' = cookie /\ login' = login
      BY <1>1, <2>3 DEF CookieAfter, LoginAfter
    <3> QED BY <3>1 DEF AccessInv, TypeOK, OfLogin
  <2> QED BY <2>1, <2>2, <2>3
<1>5. OfLogin(cookie)'
  BY <1>1, <1>4 DEF OfLogin
<1>6. cookie' # NoCookie => cookie' \in Cookie /\ cookie'.expiry <= now' + TTL
  BY <1>1, <1>3, <1>4, AccessAssumption
<1>7. CASE Answer(request) # {}
  <2>1. PICK to \in Answer(request) :
           request' = [Ask(to.path, to.to, request.host, FALSE, FALSE, Unset)
                       EXCEPT !.cookie = cookie']
    BY <1>7 DEF Serve
  <2>2. UNCHANGED page
    BY <1>7 DEF Serve
  <2>3. to.path \in Path /\ to.to \in PageHosts \union {Unset}
    BY <1>1, AnswerTargets
  <2>4. /\ Ask(to.path, to.to, request.host, FALSE, FALSE, Unset) \in Request
        /\ Ask(to.path, to.to, request.host, FALSE, FALSE, Unset).bearer = Unset
    <3>1. request.host \in HostHeaders
      BY <1>1 DEF Request
    <3>2. TypeOK
      BY DEF AccessInv
    <3>3. ASSUME NEW p \in Path, NEW t \in PageHosts \union {Unset},
                 NEW h \in HostHeaders
          PROVE  /\ Ask(p, t, h, FALSE, FALSE, Unset) \in Request
                 /\ Ask(p, t, h, FALSE, FALSE, Unset).bearer = Unset
      BY <3>2, AskType
    <3> QED BY <2>3, <3>1, <3>3
  <2>5. request' \in Request /\ request'.cookie = cookie' /\ request'.bearer = Unset
    BY <1>4, <2>1, <2>4 DEF Request
  <2>6. TypeOK'
    BY <1>1, <1>2, <1>3, <1>4, <1>6, <2>2, <2>5 DEF AccessInv, TypeOK, StartInv
  <2> QED BY <1>1, <1>2, <1>4, <1>5, <2>5, <2>6 DEF AccessInv, OfLogin
<1>8. CASE Answer(request) = {}
  <2>1. /\ request' = NoRequest
        /\ page' = IF Reaches(request) THEN PageOf(request) ELSE "none"
    BY <1>8 DEF Serve
  <2>2. page' \in Shown
    BY <2>1 DEF PageOf, Shown
  <2>3. TypeOK'
    BY <1>1, <1>2, <1>3, <1>4, <1>6, <2>1, <2>2 DEF AccessInv, TypeOK, StartInv
  <2> QED BY <1>2, <1>4, <1>5, <2>1, <2>3 DEF AccessInv, Idle
<1> QED BY <1>7, <1>8

\* Every step of the program, the browser and the clock.
LEMMA AccessStep == AccessInv /\ [Next]_vars => AccessInv'
<1> SUFFICES ASSUME AccessInv, [Next]_vars PROVE AccessInv'
  OBVIOUS
<1> USE DEF browser
<1>1. CASE Program
  <2>1. StartInv' /\ UNCHANGED <<now, browser, login>>
    BY <1>1, StartStep DEF Program, AccessInv
  <2>2. meta # NoSecret => meta' = meta
    BY <1>1, SecretKept DEF Program, AccessInv
  <2>3. TypeOK'
    BY <2>1 DEF AccessInv, TypeOK, StartInv
  <2> QED BY <2>1, <2>2, <2>3 DEF AccessInv, OfLogin, Idle
<1>2. CASE Visit \/ Act \/ Submit \/ Logout
  <2>1. {"/", "/host", "/action", "/login", "/logout"} \subseteq Path
    BY DEF Path, Public
  <2>2. CASE Visit
    <3>1. PICK h \in HostHeaders, htmx \in BOOLEAN :
             \/ Send(Ask("/", Unset, h, FALSE, FALSE, Unset))
             \/ \E p \in PageHosts : Send(Ask("/host", p, h, FALSE, htmx, Unset))
      BY <2>2 DEF Visit
    <3>2. CASE Send(Ask("/", Unset, h, FALSE, FALSE, Unset))
      BY <2>1, <3>2, AccessSend
    <3>3. ASSUME NEW p \in PageHosts, Send(Ask("/host", p, h, FALSE, htmx, Unset))
          PROVE  AccessInv'
      BY <2>1, <3>3, AccessSend
    <3> QED BY <3>1, <3>2, <3>3
  <2>3. CASE Act
    <3>1. PICK h \in HostHeaders, htmx \in BOOLEAN :
             Send(Ask("/action", Unset, h, TRUE, htmx, Unset))
      BY <2>3 DEF Act
    <3> QED BY <2>1, <3>1, AccessSend
  <2>4. CASE Submit
    <3>1. PICK h \in HostHeaders, pair \in Pairs :
             Send(Ask("/login", Unset, h, TRUE, FALSE, pair))
      BY <2>4 DEF Submit
    <3> QED BY <2>1, <3>1, AccessSend
  <2>5. CASE Logout
    <3>1. PICK h \in HostHeaders : Send(Ask("/logout", Unset, h, TRUE, FALSE, Unset))
      BY <2>5 DEF Logout
    <3> QED BY <2>1, <3>1, AccessSend
  <2> QED BY <1>2, <2>2, <2>3, <2>4, <2>5
<1>3. CASE Serve
  BY <1>3, AccessServe
<1>4. CASE Fail \/ Forget \/ UNCHANGED vars
  <2>1. /\ UNCHANGED <<startVars, now, login>>
        /\ cookie' \in {cookie, NoCookie}
        /\ request' \in {request, NoRequest} /\ page' \in {page, "none"}
    BY <1>4 DEF Fail, Forget, vars
  <2>2. StartInv' /\ UNCHANGED meta
    BY <2>1, StartStep DEF AccessInv, startVars
  <2>3. TypeOK'
    BY <2>1, <2>2 DEF AccessInv, TypeOK, StartInv, Shown
  <2> QED BY <2>1, <2>2, <2>3 DEF AccessInv, OfLogin, Idle
<1>5. CASE Tick
  <2>1. /\ UNCHANGED <<startVars, browser, login>> /\ now' = now + 1
        /\ now \in 0 .. MaxTime /\ now' \in 0 .. MaxTime
    BY <1>5, AccessAssumption DEF Tick, AccessInv, TypeOK
  <2>2. StartInv' /\ UNCHANGED meta
    BY <2>1, StartStep DEF AccessInv, startVars
  <2>3. login \in 0 .. now => login \in 0 .. now'
    BY <2>1
  <2>4. cookie # NoCookie => cookie \in Cookie /\ cookie.expiry <= now' + TTL
    BY <2>1, AccessAssumption DEF AccessInv, TypeOK, Cookie
  <2>5. TypeOK'
    BY <2>1, <2>2, <2>3, <2>4 DEF AccessInv, TypeOK, StartInv
  <2> QED BY <2>1, <2>2, <2>3, <2>5 DEF AccessInv, OfLogin, Idle
<1> QED BY <1>1, <1>2, <1>3, <1>4, <1>5 DEF Next

\* Type correctness of the start, the guards and the browser.
THEOREM TypeCorrect == Spec => []TypeOK
<1>1. AccessInv => TypeOK
  BY DEF AccessInv
<1> QED BY <1>1, AccessInit, AccessStep, PTL DEF Spec

\* A cookie is good for a TTL from its login with every instance that asks
\* for one, whatever was restarted or reconfigured (TokenSigner, verify).
THEOREM SessionsLast == Spec => []SessionLasts
<1>1. AccessInv => SessionLasts
  <2> SUFFICES ASSUME AccessInv, Serving, auth # NoAuth, cookie # NoCookie
               PROVE  TokenValid(cookie) <=> now < login + TTL
    BY DEF SessionLasts
  <2>1. /\ cookie.key = auth.secret /\ cookie.expiry = login + TTL
        /\ login \in Nat /\ now \in Nat
    BY DEF AccessInv, StartInv, OfLogin, TypeOK
  <2> QED BY <2>1, AccessAssumption DEF TokenValid
<1> QED BY <1>1, AccessInit, AccessStep, PTL DEF Spec

\* A guarded handler runs only for the configured token, for a login less
\* than a TTL old, or where no credential is configured (require_auth).
THEOREM AdmissionHolds == Spec => []Admission
<1>1. AccessInv => Admission
  <2> DEFINE Open == {given.user, given.password, flags.user, flags.password}
                        = {Unset}
             Token == IF given.token = Unset THEN flags.token ELSE given.token
             Machines == {MachineRequest(b, p, h) : b \in Tokens \union {Unset},
                             p \in Path, h \in HostHeaders}
  <2> SUFFICES ASSUME AccessInv, Serving
               PROVE  /\ \A r \in Machines : Reaches(r) /\ r.path \notin Public =>
                           Open \/ (Token # Unset /\ r.bearer = Token)
                      /\ ~Idle /\ Reaches(request) /\ request.path \notin Public =>
                           Open \/ (login # Never /\ now < login + TTL)
    BY DEF Admission
  <2>1. cfg = Merged(given, flags) /\ cfg.token = Token
    BY MergedKeys DEF AccessInv, StartInv, Serving
  <2>2. auth = NoAuth => Open
    BY <2>1, MergedKeys DEF AccessInv, StartInv, Serving
  <2> HIDE DEF Open, Token
  <2>3. ASSUME NEW r, Reaches(r), r.path \notin Public
        PROVE  \/ r.bearer # Unset /\ r.bearer = Token /\ Token # Unset
               \/ auth = NoAuth
               \/ auth # NoAuth /\ TokenValid(r.cookie)
    BY <2>1, <2>3 DEF Reaches, Guarded, Passed, Presents
  <2>4. ASSUME NEW r \in Machines, Reaches(r), r.path \notin Public
        PROVE  Open \/ (Token # Unset /\ r.bearer = Token)
    <3>1. PICK b \in Tokens \union {Unset}, p \in Path, h \in HostHeaders :
             r = MachineRequest(b, p, h)
      BY <2>4
    <3> HIDE DEF Machines
    <3>2. r.cookie = NoCookie
      BY <3>1 DEF MachineRequest, Ask
    <3> QED BY <2>2, <2>3, <2>4, <3>2 DEF TokenValid
  <2>5. ASSUME ~Idle, Reaches(request), request.path \notin Public
        PROVE  Open \/ (login # Never /\ now < login + TTL)
    <3>1. request.bearer = Unset
      BY <2>5 DEF AccessInv
    <3>2. CASE TokenValid(request.cookie)
      <4>1. /\ request.cookie # NoCookie /\ request.cookie.expiry > now
            /\ login \in 0 .. now /\ request.cookie.expiry = login + TTL
        BY <2>5, <3>2 DEF TokenValid, AccessInv, OfLogin
      <4>2. now \in Nat
        BY AccessAssumption DEF AccessInv, TypeOK
      <4> QED BY <4>1, <4>2, AccessAssumption
    <3> QED BY <2>2, <2>3, <2>5, <3>1, <3>2
  <2> QED BY <2>4, <2>5
<1> QED BY <1>1, AccessInit, AccessStep, PTL DEF Spec
=============================================================================
