------------------------------- MODULE Perimeter -------------------------------
(***************************************************************************)
(* How the dashboard's server is configured and what that lets through:    *)
(* the connection string (web/lib/connection.ts), the cache in front of it *)
(* (web/lib/env.ts), the origin and token checks (web/lib/csrf.ts), the    *)
(* cookies' attributes (web/lib/session.ts) and the headers of every       *)
(* response (web/middleware.ts).                                           *)
(*                                                                         *)
(* A connection string is represented by what the parser looks at; an      *)
(* origin by its scheme and host.                                          *)
(***************************************************************************)
EXTENDS Naturals, FiniteSets

-----------------------------------------------------------------------------
(* WARDER_URL *)

Strings ==
  [scheme : {"warder", "warder+insecure", "https"}, password : BOOLEAN, token : {"", "short", "long"},
   host : {"", "core"}, path : {"development", "production", "", "staging"},
   origin : {"", "malformed", "http", "https"}]

NoString == [scheme |-> "", password |-> FALSE, token |-> "", host |-> "", path |-> "", origin |-> ""]

Origin(scheme, host) == [scheme |-> scheme, host |-> host]

\* The declared origin names the host "vault"; development falls back.
AppOrigin(u) == IF u.origin = "" THEN Origin("http", "localhost") ELSE Origin(u.origin, "vault")

\* Does not throw.
resolveAppOrigin(u) == u.origin \in (IF u.path = "production" THEN {"https"} ELSE {"", "http", "https"})

\* Does not throw.
parseConnection(u) ==
  /\ u.scheme \in {"warder", "warder+insecure"}
  /\ ~u.password /\ u.token = "long" /\ u.host # ""
  /\ u.path \in {"development", "production"}
  /\ ~(u.path = "production" /\ u.scheme = "warder+insecure")
  /\ resolveAppOrigin(u)

Connection(u) ==
  [transport |-> IF u.scheme = "warder" THEN "https" ELSE "http", posture |-> u.path,
   appOrigin |-> AppOrigin(u)]

None == [transport |-> "none", posture |-> "none", appOrigin |-> Origin("none", "none")]

-----------------------------------------------------------------------------
VARIABLES
  url,       \* process.env.WARDER_URL
  cached,    \* the connection, None until it has been parsed
  answer     \* the request being served and what becomes of it

perimeterVars == <<url, cached, answer>>

Hosts   == {"vault", "localhost", "lan"}
Origins == [scheme : {"http", "https"}, host : Hosts]
NoOrigin == Origin("none", "none")

\* gated: the route asks for the token beside the origin; token: it is there
\* and right; tls and prefetch matter to the headers only.
HttpRequest ==
  [path : {"/", "/docs", "/projects", "/login", "/api"}, safe : BOOLEAN, gated : BOOLEAN,
   origin : Origins \cup {NoOrigin}, host : Hosts, token : BOOLEAN, tls : BOOLEAN, prefetch : BOOLEAN]

\* Requests that differ in what the code tells apart.
Sensible(q) ==
  /\ q.path # "/api" => q.safe /\ q.gated /\ ~q.token /\ q.origin = NoOrigin /\ q.host = "vault"
  /\ q.path = "/api" => ~q.prefetch /\ ~q.tls
  /\ q.safe => q.origin = NoOrigin

HttpRequests == {q \in HttpRequest : Sensible(q)}

Asked == CHOOSE q \in HttpRequests : TRUE

Nothing == [asked |-> Asked, core |-> "none", secure |-> TRUE, cache |-> "none", hsts |-> FALSE]

PerimeterInit ==
  /\ url \in Strings \cup {NoString} /\ cached = None
  /\ answer = Nothing

\* connection(): parsed once; an error is not kept.
Known == IF cached # None THEN cached ELSE IF parseConnection(url) THEN Connection(url) ELSE None

\* Mutant: development's leniency in every posture.
originMatches0(c, q) == q.origin = c.appOrigin \/ q.origin.host = q.host

originMatches(c, q) == q.origin = c.appOrigin \/ (c.posture = "development" /\ q.origin.host = q.host)

assertSameOrigin(c, q) == q.safe \/ (q.origin # NoOrigin /\ c # None /\ originMatches(c, q))

assertCsrf(c, q) == assertSameOrigin(c, q) /\ (q.safe \/ q.token)

\* Unconfigured: the safer setting.
secureCookies(c) == c = None \/ c.posture = "production"

isPublicPage(path) == path \in {"/", "/docs"}

\* Middleware does not run for a prefetch; the framework's own header says private.
CacheControl(q) ==
  IF q.prefetch THEN "private" ELSE IF isPublicPage(q.path) THEN "public" ELSE "no-store"

\* handleRoute and handlePreAuthRoute, or the page that is rendered, for a request
\* with a session; callCoreApi, and the headers around them.
Serve(q) ==
  /\ answer = Nothing
  /\ cached' = IF isPublicPage(q.path) THEN cached ELSE Known
  /\ answer' = [asked |-> q,
                core  |-> IF ~isPublicPage(q.path) /\ Known # None
                             /\ (IF q.gated THEN assertCsrf(Known, q) ELSE assertSameOrigin(Known, q))
                          THEN Known.transport ELSE "none",
                secure |-> secureCookies(Known), cache |-> CacheControl(q), hsts |-> q.tls /\ ~q.prefetch]
  /\ UNCHANGED url

Served ==
  /\ answer # Nothing /\ answer' = Nothing
  /\ UNCHANGED <<url, cached>>

PerimeterNext ==
  \/ \E q \in HttpRequests : Serve(q)
  \/ Served

PerimeterSpec == PerimeterInit /\ [][PerimeterNext]_perimeterVars

-----------------------------------------------------------------------------
(* Properties *)

PerimeterTypeOK ==
  /\ url \in Strings \cup {NoString}
  /\ cached.transport \in {"none", "http", "https"} /\ cached.posture \in {"none", "development", "production"}
  /\ answer.asked \in HttpRequests /\ answer.core \in {"none", "http", "https"}

\* Whatever string the server was given: what reaches the core in production
\* does so over TLS, from the one declared origin, which is https, beside
\* cookies that never travel over plain HTTP; and what was not understood lets
\* nothing through.
ProductionIsClosed ==
  answer.core # "none" =>
    /\ cached = Connection(url)
    /\ cached.posture = "production" =>
         /\ answer.core = "https" /\ answer.secure /\ cached.appOrigin.scheme = "https"
         /\ ~answer.asked.safe => answer.asked.origin = cached.appOrigin
    /\ ~answer.asked.safe /\ answer.asked.gated => answer.asked.token
=============================================================================
