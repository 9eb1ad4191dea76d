------------------------------- MODULE Access ------------------------------
(***************************************************************************)
(* Who reaches what: the guards around every request (check_host,          *)
(* require_auth and require_htmx of src/web.rs), the login and its signed  *)
(* cookie (src/auth.rs), the landing pages with their redirects, and one   *)
(* browser that uses them while the operator edits the configuration,      *)
(* starts and stops the program (Startup).                                 *)
(*                                                                         *)
(* A cookie is its expiry and the number of the secret that signed it: a   *)
(* signature is valid for exactly the secret it was made with.  Requests   *)
(* take time, so the instance that answers may not be the one that was     *)
(* running when the browser attached its cookie.  The half second before a *)
(* failed login is answered is part of that time.                          *)
(***************************************************************************)
EXTENDS Startup

CONSTANTS
    Pairs,       \* <<user, password>> a user may type
    Tokens,      \* bearer tokens a client may present
    HostHeaders, \* Host headers, "localhost" among them or not
    PageHosts,   \* host names a URL may hold
    NoCookie,    \* the browser holds no session cookie
    NoRequest,   \* no request of the browser is under way
    Never,       \* no login stands
    TTL,         \* SESSION_TTL
    MaxTime      \* bound on the clock

ASSUME AccessAssumption ==
    /\ TTL \in Nat \ {0} /\ MaxTime \in Nat
    /\ Never \notin Nat
\* A URL may hold the name of every host that the configuration accepts.
ASSUME PagesAssumption ==
    \A f \in Files : ValidHosts(HostsOf(f)) =>
        \A i \in DOMAIN HostsOf(f) : HostsOf(f)[i].name \in PageHosts

VARIABLES
    now,      \* the clock of now_unix_secs
    cookie,   \* the browser's session cookie
    request,  \* the browser's request under way
    page,     \* what the browser shows
    login     \* ghost: the browser's last login that no logout ended

browser == <<cookie, request, page>>
vars == <<startVars, now, browser, login>>

Cookie == [expiry : Nat, key : Nat]
Public == {"/login", "/assets"}
Path == {"/", "/host", "/logout", "/action"} \union Public

\* bearer and pair are Unset where the request carries none.
Request ==
    [path : Path, to : PageHosts \union {Unset}, host : HostHeaders,
     post : BOOLEAN, htmx : BOOLEAN, bearer : Tokens \union {Unset},
     pair : Pairs \union {Unset}, cookie : Cookie \union {NoCookie}]

-----------------------------------------------------------------------------
(* The guards. *)

HostAllowed(r) ==
    cfg.allowed = {} \/ r.host = "localhost" \/ r.host \in cfg.allowed

TokenValid(c) == c # NoCookie /\ c.expiry > now /\ c.key = auth.secret

Presents(r) == cfg.token # Unset /\ r.bearer # Unset

\* What require_auth makes of a request: let through as "bearer", "open",
\* "public" or "session", or answered on the spot.
Guarded(r) ==
    CASE Presents(r) -> IF r.bearer = cfg.token THEN "bearer" ELSE "wrong token"
      [] ~Presents(r) /\ auth = NoAuth -> "open"
      [] ~Presents(r) /\ auth # NoAuth ->
            IF r.path \in Public THEN "public"
            ELSE IF TokenValid(r.cookie) THEN "session" ELSE "login first"

Passed == {"bearer", "open", "public", "session"}

\* require_htmx stands before the actions only.
Issued(r) == r.path = "/action" => Guarded(r) = "bearer" \/ r.htmx

Reaches(r) == HostAllowed(r) /\ Guarded(r) \in Passed /\ Issued(r)

-----------------------------------------------------------------------------
(* The handlers: what the browser is told, as a path to go to or a page. *)

\* A page of a host, the chooser and a fragment are all content; a refusal, an
\* unknown host and a failed request leave the browser with nothing.
Shown == {"none", "form", "content"}

\* mutant: whoever holds a cookie is sent home, valid or not.
LoggedInHolding(r) == r.cookie # NoCookie

LoggedIn(r) == TokenValid(r.cookie)

Home == [path |-> "/", to |-> Unset]
ToLogin == [path |-> "/login", to |-> Unset]
ToHost(h) == [path |-> "/host", to |-> h]

GoodLogin(r) ==
    /\ r.path = "/login" /\ r.post
    /\ auth # NoAuth
    /\ r.pair = <<auth.user, auth.password>>

\* The redirect a handler answers with, if it does.
Redirect(r) ==
    CASE r.path = "/" /\ Len(order) = 1 -> {ToHost(order[1])}
      [] r.path = "/login" /\ ~r.post /\ (auth = NoAuth \/ LoggedIn(r)) -> {Home}
      [] r.path = "/login" /\ r.post /\ (auth = NoAuth \/ GoodLogin(r)) -> {Home}
      [] r.path = "/logout" -> {ToLogin}
      [] OTHER -> {}

PageOf(r) ==
    CASE r.path = "/login" -> "form"
      [] r.path = "/host" /\ r.to \notin Range(order) -> "none"
      [] OTHER -> "content"

\* What the guards answer in place of a handler: a browser is sent to the
\* login, by the redirect or, for htmx, by the HX-Redirect header.
GuardRedirect(r) ==
    IF HostAllowed(r) /\ Guarded(r) = "login first" THEN {ToLogin} ELSE {}

Answer(r) == IF Reaches(r) THEN Redirect(r) ELSE GuardRedirect(r)

IssueCookie == [expiry |-> now + TTL, key |-> auth.secret]

\* The browser's cookie after the answer.
CookieAfter(r) ==
    CASE Reaches(r) /\ GoodLogin(r) -> IssueCookie
      [] Reaches(r) /\ r.path = "/logout" /\ auth # NoAuth -> NoCookie
      [] OTHER -> cookie

LoginAfter(r) ==
    CASE Reaches(r) /\ GoodLogin(r) -> now
      [] Reaches(r) /\ r.path = "/logout" /\ auth # NoAuth -> Never
      [] OTHER -> login

-----------------------------------------------------------------------------
(* The browser. *)

Ask(path, to, host, post, htmx, pair) ==
    [path |-> path, to |-> to, host |-> host, post |-> post, htmx |-> htmx,
     bearer |-> Unset, pair |-> pair, cookie |-> cookie]

Idle == request = NoRequest

Send(r) ==
    /\ Idle
    /\ request' = r
    /\ UNCHANGED <<startVars, now, cookie, page, login>>

\* An address typed in, a bookmark of any host, or a fragment of a page.
Visit ==
    \E host \in HostHeaders, htmx \in BOOLEAN :
        \/ Send(Ask("/", Unset, host, FALSE, FALSE, Unset))
        \/ \E h \in PageHosts : Send(Ask("/host", h, host, FALSE, htmx, Unset))

\* The action buttons, or a form that posts to their address.
Act ==
    \E host \in HostHeaders, htmx \in BOOLEAN :
        Send(Ask("/action", Unset, host, TRUE, htmx, Unset))

Submit ==
    /\ page = "form"
    /\ \E host \in HostHeaders, pair \in Pairs :
        Send(Ask("/login", Unset, host, TRUE, FALSE, pair))

Logout ==
    \E host \in HostHeaders : Send(Ask("/logout", Unset, host, TRUE, FALSE, Unset))

\* The answer: the browser takes the cookie along and follows a redirect.
Serve ==
    /\ ~Idle
    /\ Serving
    /\ cookie' = CookieAfter(request)
    /\ login' = LoginAfter(request)
    /\ IF Answer(request) # {}
       THEN /\ \E to \in Answer(request) :
                request' = [Ask(to.path, to.to, request.host, FALSE, FALSE, Unset)
                            EXCEPT !.cookie = cookie']
            /\ UNCHANGED page
       ELSE /\ request' = NoRequest
            /\ page' = IF Reaches(request) THEN PageOf(request) ELSE "none"
    /\ UNCHANGED <<startVars, now>>

\* Nothing listens, or the process went away under the request.
Fail ==
    /\ ~Idle
    /\ ~Serving
    /\ request' = NoRequest
    /\ page' = "none"
    /\ UNCHANGED <<startVars, now, cookie, login>>

\* Max-Age by the browser's own clock, or the user clears the site's data.
Forget ==
    /\ cookie # NoCookie
    /\ cookie' = NoCookie
    /\ UNCHANGED <<startVars, now, request, page, login>>

Tick ==
    /\ now < MaxTime
    /\ now' = now + 1
    /\ UNCHANGED <<startVars, browser, login>>

Program == StartNext /\ UNCHANGED <<now, browser, login>>

Init ==
    /\ StartInit
    /\ now = 0
    /\ cookie = NoCookie
    /\ request = NoRequest
    /\ page = "none"
    /\ login = Never

Next ==
    \/ Program \/ Visit \/ Act \/ Submit \/ Logout \/ Serve \/ Fail
    \/ Forget \/ Tick

\* A request is answered or fails; the rest is up to the user.
Spec == Init /\ [][Next]_vars /\ WF_vars(Serve) /\ WF_vars(Fail)

-----------------------------------------------------------------------------
(* The shapes of all variables; a cookie never outlasts one TTL from now. *)
TypeOK ==
    /\ StartTypeOK
    /\ now \in 0..MaxTime
    /\ cookie # NoCookie => cookie \in Cookie /\ cookie.expiry <= now + TTL
    /\ request # NoRequest => request \in Request
    /\ page \in Shown
    /\ login \in 0..now \union {Never}

(* "Log in once and be done" (the module comment of auth.rs): a cookie from *)
(* a login is good until its expiry with every later instance that asks for *)
(* a login, whatever was restarted, killed or reconfigured in between.      *)
SessionLasts ==
    Serving /\ auth # NoAuth /\ cookie # NoCookie =>
        (TokenValid(cookie) <=> now < login + TTL)

\* What a machine client may ask; its requests change nothing of this state.
MachineRequest(bearer, path, host) ==
    [Ask(path, Unset, host, path = "/action", FALSE, Unset)
     EXCEPT !.bearer = bearer, !.cookie = NoCookie]

(* A guarded handler runs only for a client that presents the token of the  *)
(* configuration, for a browser whose login is less than a TTL old, or      *)
(* where neither the file nor the flags name a user or a password; with     *)
(* only one of the two given nothing is served (require_auth, build_auth).  *)
Admission ==
    Serving =>
        LET Open == {given.user, given.password, flags.user, flags.password}
                        = {Unset}
            Machines == {MachineRequest(b, p, h) : b \in Tokens \union {Unset},
                            p \in Path, h \in HostHeaders}
            Token == IF given.token = Unset THEN flags.token ELSE given.token
        IN /\ \A r \in Machines :
                Reaches(r) /\ r.path \notin Public =>
                    Open \/ (Token # Unset /\ r.bearer = Token)
           /\ ~Idle /\ Reaches(request) /\ request.path \notin Public =>
                Open \/ (login # Never /\ now < login + TTL)

(* A browser that follows its redirects comes to a page, the login form or  *)
(* a refusal; the guards and the handlers never send it around for ever.    *)
Lands == ~Idle ~> Idle
=============================================================================
