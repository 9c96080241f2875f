--------------------------- MODULE BrowserSessions ---------------------------
(***************************************************************************)
(* The browser, the dashboard's own backend (web/middleware.ts, web/lib,   *)
(* web/app/api) and the core's sessions.  Several tabs share one cookie    *)
(* jar.  A page reads the CSRF token from document.cookie, and the browser *)
(* attaches the cookies when the request goes out: another tab's answer    *)
(* may change the jar in between.  The backend checks the call, the core   *)
(* authenticates and then does what it asks for, and the answer may        *)
(* replace or clear the cookies, in whatever order answers arrive.  Pages  *)
(* are rendered on the server from the same cookies, and redirect.         *)
(*                                                                         *)
(* Sessions are numbered in the order the core mints them, 0 is none; the  *)
(* CSRF token set with a session has its number.  One tab is followed from  *)
(* page to page; the others are calls that may carry any page's view.      *)
(***************************************************************************)
EXTENDS Naturals, FiniteSets, Sequences

CONSTANTS
  Orgs,            \* the organizations the person belongs to
  Nobody,          \* no organization
  MaxSessions,     \* bound: sessions minted
  MaxCalls,        \* bound: calls sent
  Routes           \* the routes explored, a subset of Api

-----------------------------------------------------------------------------
(* The routes.  gate: what is checked before anything else ("read" for a   *)
(* GET, which nothing is); as: the credential handed to the core; body:    *)
(* whether a request can be refused for its shape; does: what the core is  *)
(* asked for, "change" about something named by an identifier, "add" in    *)
(* the session's organization, "self" about the account, "move" and        *)
(* "found" to go on in another organization.                               *)

PostLogin          == [gate |-> "origin", as |-> "nobody",  body |-> TRUE,  does |-> "sign-in"]
PostAssertFinish   == [gate |-> "origin", as |-> "nobody",  body |-> TRUE,  does |-> "sign-in"]
PostAssertRecovery == [gate |-> "origin", as |-> "nobody",  body |-> TRUE,  does |-> "sign-in"]
PostSigninFinish   == [gate |-> "origin", as |-> "nobody",  body |-> TRUE,  does |-> "sign-in"]
PostSignup         == [gate |-> "origin", as |-> "nobody",  body |-> TRUE,  does |-> "sign-up"]
PostAssertBegin    == [gate |-> "origin", as |-> "nobody",  body |-> TRUE,  does |-> "self"]
PostSigninBegin    == [gate |-> "origin", as |-> "nobody",  body |-> FALSE, does |-> "self"]
PostRecover        == [gate |-> "origin", as |-> "nobody",  body |-> TRUE,  does |-> "end-all"]
PostReset          == [gate |-> "origin", as |-> "nobody",  body |-> TRUE,  does |-> "end-all"]
PostAccept         == [gate |-> "origin", as |-> "either",  body |-> TRUE,  does |-> "self"]
PostInspect        == [gate |-> "origin", as |-> "either",  body |-> TRUE,  does |-> "read"]
GetSession         == [gate |-> "none",   as |-> "session", body |-> FALSE, does |-> "read"]
PostLogout         == [gate |-> "csrf",   as |-> "session", body |-> FALSE, does |-> "sign-out"]
PostPassword       == [gate |-> "csrf",   as |-> "session", body |-> TRUE,  does |-> "end-all"]
GetPasskeys        == [gate |-> "read",   as |-> "session", body |-> FALSE, does |-> "read"]
DeletePasskey      == [gate |-> "csrf",   as |-> "session", body |-> TRUE,  does |-> "self"]
PostRegisterBegin  == [gate |-> "csrf",   as |-> "session", body |-> FALSE, does |-> "self"]
PostRegisterFinish == [gate |-> "csrf",   as |-> "session", body |-> TRUE,  does |-> "self"]
RecoveryCodes      == [gate |-> "csrf",   as |-> "session", body |-> FALSE, does |-> "self"]
PostOrganization   == [gate |-> "csrf",   as |-> "session", body |-> TRUE,  does |-> "found"]
PostSwitch         == [gate |-> "csrf",   as |-> "session", body |-> TRUE,  does |-> "move"]
GetAudit           == [gate |-> "read",   as |-> "session", body |-> FALSE, does |-> "read"]
GetProjectAudit    == [gate |-> "read",   as |-> "session", body |-> TRUE,  does |-> "read"]
PostProject        == [gate |-> "csrf",   as |-> "session", body |-> TRUE,  does |-> "add"]
PostIdentity       == [gate |-> "csrf",   as |-> "session", body |-> TRUE,  does |-> "add"]
DisableIdentity    == [gate |-> "csrf",   as |-> "session", body |-> TRUE,  does |-> "change"]
PostInvitation     == [gate |-> "csrf",   as |-> "session", body |-> TRUE,  does |-> "add"]
DeleteInvitation   == [gate |-> "csrf",   as |-> "session", body |-> TRUE,  does |-> "change"]
DeleteMember       == [gate |-> "csrf",   as |-> "session", body |-> TRUE,  does |-> "change"]
IssueRecovery      == [gate |-> "csrf",   as |-> "session", body |-> TRUE,  does |-> "change"]
PostEnvironment    == [gate |-> "csrf",   as |-> "session", body |-> TRUE,  does |-> "change"]
PostAccess         == [gate |-> "csrf",   as |-> "session", body |-> TRUE,  does |-> "change"]
DeleteAccess       == [gate |-> "csrf",   as |-> "session", body |-> TRUE,  does |-> "change"]
PostToken          == [gate |-> "csrf",   as |-> "session", body |-> TRUE,  does |-> "change"]
RevokeToken        == [gate |-> "csrf",   as |-> "session", body |-> TRUE,  does |-> "change"]
PostSecret         == [gate |-> "csrf",   as |-> "session", body |-> TRUE,  does |-> "change"]
PostBatch          == [gate |-> "csrf",   as |-> "session", body |-> TRUE,  does |-> "change"]
PostReveal         == [gate |-> "csrf",   as |-> "session", body |-> TRUE,  does |-> "change"]
PostRotate         == [gate |-> "csrf",   as |-> "session", body |-> TRUE,  does |-> "change"]
PostExpiry         == [gate |-> "csrf",   as |-> "session", body |-> TRUE,  does |-> "change"]
GetVersions        == [gate |-> "read",   as |-> "session", body |-> TRUE,  does |-> "read"]
GetOrganizations   == [gate |-> "read",   as |-> "session", body |-> FALSE, does |-> "read"]
GetInvitations     == [gate |-> "read",   as |-> "session", body |-> FALSE, does |-> "read"]
GetIdentities      == [gate |-> "read",   as |-> "session", body |-> FALSE, does |-> "read"]
GetProjects        == [gate |-> "read",   as |-> "session", body |-> FALSE, does |-> "read"]
GetRecoveryCodes   == [gate |-> "read",   as |-> "session", body |-> FALSE, does |-> "read"]
GetAccess          == [gate |-> "read",   as |-> "session", body |-> TRUE,  does |-> "read"]
GetEnvironments    == [gate |-> "read",   as |-> "session", body |-> TRUE,  does |-> "read"]
GetTokens          == [gate |-> "read",   as |-> "session", body |-> TRUE,  does |-> "read"]
GetSecrets         == [gate |-> "read",   as |-> "session", body |-> TRUE,  does |-> "read"]

Api ==
  {PostLogin, PostAssertFinish, PostAssertRecovery, PostSigninFinish, PostSignup, PostAssertBegin,
   PostSigninBegin, PostRecover, PostReset, PostAccept, PostInspect, GetSession, PostLogout,
   PostPassword, GetPasskeys, DeletePasskey, PostRegisterBegin, PostRegisterFinish, RecoveryCodes,
   PostOrganization, PostSwitch, GetAudit, GetProjectAudit, PostProject, PostIdentity,
   DisableIdentity, PostInvitation, DeleteInvitation, DeleteMember, IssueRecovery, PostEnvironment,
   PostAccess, DeleteAccess, PostToken, RevokeToken, PostSecret, PostBatch, PostReveal, PostRotate,
   PostExpiry, GetVersions, GetOrganizations, GetInvitations, GetIdentities, GetProjects,
   GetRecoveryCodes, GetAccess, GetEnvironments, GetTokens, GetSecrets}

ASSUME SessionBounds == MaxSessions \in Nat \ {0} /\ MaxCalls \in Nat /\ Routes \subseteq Api

-----------------------------------------------------------------------------
VARIABLES
  sess,    \* the core's sessions, a sequence of [org, live]
  jar,     \* the browser's cookies
  tab,     \* what the tab followed shows, and what it is loading
  calls,   \* the calls under way, and those that nobody waits for any longer
  sent     \* how many were sent

sessionVars == <<sess, jar, tab, calls, sent>>

Pages    == {"public", "loading", "sign-in", "welcome", "dashboard", "missing", "error"}
Paths    == {"none", "/login", "/welcome", "/projects", "/projects/[id]", "page"}
Statuses == {"none", "ok", "invalid", "csrf", "signed-out", "refused", "unreachable"}
SessionNumbers == 0..MaxSessions

Tab  == [at : Pages, org : Orgs \cup {Nobody}, goal : Paths, cookie : SessionNumbers]

\* own: by the tab followed, whose document still waits for it; late: the
\* backend, or the browser, has stopped waiting.
Call == [own : BOOLEAN, route : Routes, header : SessionNumbers,
         cookie : SessionNumbers, csrf : SessionNumbers,
         at : {"sending", "core", "working", "done"}, late : BOOLEAN,
         mint : SessionNumbers, status : Statuses]

Live(s) == s \in DOMAIN sess /\ sess[s].live

EmptyJar == [session |-> 0, csrf |-> 0]

StartSession(s) == [session |-> s, csrf |-> s]

SessionInit ==
  /\ calls = {} /\ sent = 0
  /\ tab = [at |-> "public", org |-> Nobody, goal |-> "none", cookie |-> 0]
  /\ \/ sess = << >> /\ jar = EmptyJar
     \/ \* signed in before
        \E org \in Orgs \cup {Nobody} : sess = <<[org |-> org, live |-> TRUE]>> /\ jar = StartSession(1)

-----------------------------------------------------------------------------
(* Cookies *)

\* Mutant: one of the two cookies deleted, the other forgotten.
EndOnlySession == [jar EXCEPT !.session = 0]

EndSession == EmptyJar

\* maxAge: both cookies lapse together, near the end of the session.
CookiesLapse ==
  /\ jar # EmptyJar
  /\ jar' = EmptyJar
  /\ UNCHANGED <<sess, tab, calls, sent>>

\* The sessions, with these ended.
Ending(dead) == [s \in DOMAIN sess |-> [org |-> sess[s].org, live |-> sess[s].live /\ s \notin dead]]

\* Ended elsewhere: by another device, by an administrator, or by its age.
SessionEnded(s) ==
  /\ Live(s)
  /\ sess' = Ending({s})
  /\ UNCHANGED <<jar, tab, calls, sent>>

-----------------------------------------------------------------------------
(* Pages.  Each load is rendered by the server from the cookies it carries. *)

\* The document is gone, and with it the continuations of its calls.
Forget(cs) == {[c EXCEPT !.own = FALSE] : c \in cs}

\* A link, or the address bar, which leaves the document.
Towards(path, org, cookie) == [at |-> "loading", org |-> org, goal |-> path, cookie |-> cookie]

Navigate(path) ==
  /\ tab.goal = "none"
  /\ path = "/projects/[id]" => tab.at = "dashboard"
  /\ tab' = Towards(path, IF path = "/projects/[id]" THEN tab.org ELSE Nobody, 0)
  /\ calls' \in {calls, Forget(calls)}
  /\ UNCHANGED <<sess, jar, sent>>

Show(page, org) == tab' = [at |-> page, org |-> org, goal |-> "none", cookie |-> 0]

Redirect(path) == tab' = Towards(path, Nobody, 0)

\* /login and /signup: a session cookie, live or not, redirects.
LoadSignIn ==
  /\ tab.goal = "/login"
  /\ IF jar.session # 0 THEN Redirect("/projects") ELSE Show("sign-in", Nobody)
  /\ UNCHANGED <<sess, jar, calls, sent>>

LoadWelcome ==
  /\ tab.goal = "/welcome"
  /\ \/ IF ~Live(jar.session) THEN Redirect("/login")
        ELSE IF sess[jar.session].org = Nobody THEN Show("welcome", Nobody)
        ELSE Redirect("/projects")
     \/ jar.session # 0 /\ Show("error", Nobody)
  /\ UNCHANGED <<sess, jar, calls, sent>>

\* The layout asks the core who this is, on every render.
LoadLayout ==
  /\ tab.goal \in {"/projects", "/projects/[id]"}
  /\ \/ IF ~Live(jar.session) THEN Redirect("/login")
        ELSE IF sess[jar.session].org = Nobody THEN Redirect("/welcome")
        ELSE IF tab.goal = "/projects/[id]" /\ sess[jar.session].org # tab.org
             THEN Show("missing", Nobody)
        ELSE tab' = Towards("page", sess[jar.session].org, jar.session)
     \/ jar.session # 0 /\ Show("error", Nobody)
  /\ UNCHANGED <<sess, jar, calls, sent>>

\* Then the page reads what it lists, under the same cookie.
LoadPage ==
  /\ tab.goal = "page"
  /\ \/ Live(tab.cookie) /\ Show("dashboard", tab.org)
     \/ Show("error", Nobody)
  /\ UNCHANGED <<sess, jar, calls, sent>>

Load == LoadSignIn \/ LoadWelcome \/ LoadLayout \/ LoadPage

-----------------------------------------------------------------------------
(* Calls *)

Offered(r) ==
  CASE tab.at = "dashboard" -> r.does \notin {"sign-in", "sign-up", "end-all", "found"} /\ r.as = "session"
    [] tab.at = "welcome"   -> r.does \in {"found", "sign-out"}
    [] tab.at = "sign-in"   -> r.as # "session"
    [] tab.at = "public"    -> r.gate \in {"origin", "none"}
    [] OTHER                -> FALSE

\* Mutant: that there is a token is checked, and not that it is the cookie's.
AnyToken(c) == c.route.gate = "csrf" => c.csrf # 0 /\ c.header # 0

PassesGate(c) == c.route.gate = "csrf" => c.csrf # 0 /\ c.header = c.csrf

\* handleRoute and handlePreAuthRoute, up to the core: the gate, the shape of
\* the body, the session.  All they look at came with the request.
Backend(c) ==
  IF ~PassesGate(c) THEN {[c EXCEPT !.at = "done", !.status = "csrf"]}
  ELSE (IF c.route.body THEN {[c EXCEPT !.at = "done", !.status = "invalid"]} ELSE {}) \cup
       (IF c.route.as = "session" /\ c.cookie = 0
        THEN {[c EXCEPT !.at = "done", !.status = "signed-out"]} ELSE {c})

\* apiFetch, up to fetch(): the token, read from document.cookie now.
Fetch(r, own) ==
  /\ sent < MaxCalls /\ sent' = sent + 1
  /\ calls' = calls \cup
       {[own |-> own, route |-> r, header |-> IF r.gate \in {"read", "none"} THEN 0 ELSE jar.csrf,
         cookie |-> 0, csrf |-> 0, at |-> "sending", late |-> FALSE, mint |-> 0, status |-> "none"]}
  /\ UNCHANGED <<sess, jar, tab>>

Send(r) == tab.goal = "none" /\ Offered(r) /\ Fetch(r, TRUE)

SendElsewhere(r) == Fetch(r, FALSE)

Becomes(c, ds) == calls' = (calls \ {c}) \cup ds

\* The request goes out, with the cookies the jar holds by then.
Attach(c) ==
  /\ c.at = "sending"
  /\ \E d \in Backend([c EXCEPT !.cookie = jar.session, !.csrf = jar.csrf, !.at = "core"]) :
       Becomes(c, {d})
  /\ UNCHANGED <<sess, jar, tab, sent>>

\* A session to come, and those that it replaces.
Mint(org, replaced) == sess' = Append(Ending(replaced), [org |-> org, live |-> TRUE])

\* What the core does for a call, and the session it mints.  Another session
\* takes the place of the old one, whose end may fail and is then only logged.
Acts(c, minted) ==
  \/ /\ c.route.does \in {"sign-in", "sign-up"}
     /\ Len(sess) < MaxSessions /\ minted = Len(sess) + 1
     /\ \E org \in Orgs \cup {Nobody} : (c.route.does = "sign-up" => org = Nobody) /\ Mint(org, {})
  \/ \* the second factor is asked for
     c.route = PostLogin /\ minted = 0 /\ UNCHANGED sess
  \/ /\ c.route.does \in {"move", "found"}
     /\ Len(sess) < MaxSessions /\ minted = Len(sess) + 1
     /\ \E org \in Orgs \ {sess[c.cookie].org}, replaced \in SUBSET {c.cookie} : Mint(org, replaced)
  \/ \* already there
     c.route = PostSwitch /\ sess[c.cookie].org # Nobody /\ minted = 0 /\ UNCHANGED sess
  \/ c.route.does = "sign-out" /\ minted = 0 /\ sess' = Ending({c.cookie})
  \/ c.route.does = "end-all"  /\ minted = 0 /\ sess' = Ending(DOMAIN sess)
  \/ c.route.does \in {"add", "change", "self", "read"} /\ minted = 0 /\ UNCHANGED sess

\* What is late has nobody to answer.
Settled(c, s, minted) ==
  IF c.late THEN {} ELSE {[c EXCEPT !.at = "done", !.status = s, !.mint = minted]}

\* The credential is looked up once, before the handler runs.
Authenticate(c) ==
  /\ c.at = "core"
  /\ c.route.as = "session" => Live(c.cookie)
  /\ Becomes(c, {[c EXCEPT !.at = "working"]})
  /\ UNCHANGED <<sess, jar, tab, sent>>

\* Too many requests, no such row, a database that fails; or a 401, which a
\* credential that does not hold gets, a wrong password, and also a session the
\* core could not look up.
Refuse(c) ==
  /\ c.at \in {"core", "working"}
  /\ \E s \in {"refused", "signed-out"} : Becomes(c, Settled(c, s, 0))
  /\ UNCHANGED <<sess, jar, tab, sent>>

\* A sign-in may still fail once its session is there.
Work(c) ==
  /\ c.at = "working"
  /\ \E minted \in SessionNumbers :
       /\ Acts(c, minted)
       /\ \/ Becomes(c, Settled(c, "ok", minted))
          \/ c.route.does = "sign-in" /\ Becomes(c, Settled(c, "refused", 0))
  /\ UNCHANGED <<jar, tab, sent>>

\* Sign-out and the account control never report what the core said.
Reported(c, s) == IF c.route \in {PostLogout, GetSession} /\ s \notin {"csrf", "invalid"} THEN "ok" ELSE s

\* Set-Cookie.
Cookies(c, s) ==
  IF s # "ok" THEN jar
  ELSE IF c.mint # 0 THEN StartSession(c.mint)
  ELSE IF c.route.does = "sign-out" THEN EndSession ELSE jar

\* What the page does next: every 401, and everything but a sign-in, loads a new
\* document.
Onward(c, s) ==
  CASE c.route.does \in {"sign-in", "sign-up", "move", "found"} /\ s = "ok" -> "/projects"
    [] c.route.does = "sign-out"                          -> "/login"
    [] s = "signed-out"                                   -> "/login"
    [] OTHER                                              -> "none"

\* The core may still be at work for a call that nobody waits for.
Unheard(c) == IF c.at \in {"core", "working"} THEN {[c EXCEPT !.late = TRUE, !.own = FALSE]} ELSE {}

AnswerWith(c, s) ==
  LET onward == Onward(c, s)
      others == (calls \ {c}) \cup Unheard(c)
  IN
  /\ jar' = Cookies(c, s)
  /\ IF ~c.own \/ onward = "none"
     THEN calls' = others /\ UNCHANGED tab
     ELSE /\ calls' = IF c.route.as = "session" \/ s = "signed-out" THEN Forget(others) ELSE others
          /\ Redirect(onward)
  /\ UNCHANGED <<sess, sent>>

\* callCoreApi waits fifteen seconds.
Answer(c) ==
  /\ ~c.late
  /\ \/ c.at = "done" /\ AnswerWith(c, Reported(c, c.status))
     \/ c.at \in {"core", "working"} /\ AnswerWith(c, Reported(c, "unreachable"))

\* The request never leaves, or no answer reaches the browser, nor its cookies.
ConnectionLost(c) ==
  /\ ~c.late
  /\ Becomes(c, Unheard(c))
  /\ UNCHANGED <<sess, jar, tab, sent>>

SessionNext ==
  \/ CookiesLapse
  \/ \E s \in 1..MaxSessions : SessionEnded(s)
  \/ \E path \in {"/login", "/projects", "/projects/[id]"} : Navigate(path)
  \/ LoadSignIn \/ LoadWelcome \/ LoadLayout \/ LoadPage
  \/ \E r \in Routes : Send(r) \/ SendElsewhere(r)
  \/ \E c \in calls : Attach(c) \/ Authenticate(c) \/ Refuse(c) \/ Work(c) \/ Answer(c) \/ ConnectionLost(c)

\* The browser sends what it was given and follows redirects, and the backend
\* answers in bounded time.  Nothing is assumed of the core.
SessionFairness ==
  /\ WF_sessionVars(\E c \in calls : Attach(c))
  /\ WF_sessionVars(\E c \in calls : Answer(c))
  /\ WF_sessionVars(Load)

SessionSpec == SessionInit /\ [][SessionNext]_sessionVars /\ SessionFairness

-----------------------------------------------------------------------------
(* Properties *)

SessionTypeOK ==
  /\ sess \in Seq([org : Orgs \cup {Nobody}, live : BOOLEAN]) /\ Len(sess) <= MaxSessions
  /\ jar \in [session : SessionNumbers, csrf : SessionNumbers]
  /\ tab \in Tab /\ calls \subseteq Call /\ sent \in 0..MaxCalls

\* Whatever order the answers of several tabs arrive in, the two cookies are
\* of one session, or both absent (session.ts).
JarIsAPair == jar.session = jar.csrf

\* The double submit tells sessions apart: a call gets past it exactly when the
\* session it comes with is the one whose token its page had read, whatever the
\* answers of other tabs made of the jar between the reading and the sending
\* (client-api.ts reads document.cookie, csrf.ts compares).
TokenNamesTheSession ==
  \A c \in calls : c.route.gate = "csrf" /\ c.at # "sending" =>
    (c.status = "csrf" <=> c.cookie = 0 \/ c.header # c.cookie)

\* logout/route.ts:8-10: the session is revoked before its cookies are cleared,
\* as clearing them alone would leave a working credential behind.  Refuted: the
\* cookies are cleared whatever the core has answered.
EndedBeforeCleared ==
  \A c \in calls : c.route.does = "sign-out" /\ c.at = "done" /\ Reported(c, c.status) = "ok" =>
    ~Live(c.cookie)

\* Every call is answered.
CallsAreAnswered == []<>(\A c \in calls : c.late)

\* Redirects lead somewhere, as long as the jar holds no dead session.
LoadsSettle ==
  tab.goal # "none" ~> (tab.goal = "none" \/ (jar.session # 0 /\ ~Live(jar.session)))

\* (dashboard)/layout.tsx:28: whoever was removed is sent to sign-in by the
\* very next page.  Refuted: /login sends a session cookie, dead or not, back
\* to /projects, and nothing clears it.
SentToSignIn == tab.goal # "none" ~> tab.goal = "none"
=============================================================================
