------------------------- MODULE BrowserSessionsProofs -------------------------
(***************************************************************************)
(* Theorems of BrowserSessions, for any organizations, routes of the       *)
(* backend, and numbers of sessions and calls: in whatever order calls of  *)
(* several tabs are sent, carried out and answered.                        *)
(***************************************************************************)
EXTENDS BrowserSessions, SequenceTheorems, TLAPS

-----------------------------------------------------------------------------
(* The inductive invariant *)

Row        == [org : Orgs \cup {Nobody}, live : BOOLEAN]
CallRecord == [own : BOOLEAN, route : Routes, header : Nat, cookie : Nat, csrf : Nat,
               at : {"sending", "core", "working", "done"}, late : BOOLEAN,
               mint : Nat, status : Statuses]

SessionsTyped == sess \in Seq(Row)

\* The cookies are those of a session that was minted, or of none.
JarFits ==
  /\ jar = [session |-> jar.session, csrf |-> jar.csrf]
  /\ jar.session \in 0..Len(sess) /\ jar.csrf = jar.session

\* So is what a call carries and what its answer brings; and of the cookies it
\* carries both or neither.
Carries(c) ==
  /\ c.cookie \in 0..Len(sess) /\ c.mint \in 0..Len(sess) /\ c.header \in 0..Len(sess)
  /\ c.csrf = c.cookie

\* The gate has judged what went out, and the status comes last.
Sound(c) ==
  /\ c.at # "done" => c.status = "none"
  /\ c.route.gate = "csrf" /\ c.at # "sending" =>
       (c.status = "csrf" <=> c.cookie = 0 \/ c.header # c.cookie)

GoodCall(c) == c \in CallRecord /\ Carries(c) /\ Sound(c)

\* What was rendered is of an organization of the person.
TabFits == tab.org \in Orgs \cup {Nobody}

IInv == SessionsTyped /\ JarFits /\ TabFits /\ \A c \in calls : GoodCall(c)

-----------------------------------------------------------------------------
(* The table of sessions *)

\* Sessions are only added and ended.
Evolves == sess' \in Seq(Row) /\ Len(sess) <= Len(sess')

LEMMA EndingTyped ==
  ASSUME SessionsTyped, NEW dead
  PROVE  Ending(dead) \in Seq(Row) /\ Len(Ending(dead)) = Len(sess)
<1> DEFINE New(s) == [org |-> sess[s].org, live |-> sess[s].live /\ s \notin dead]
<1>1. Len(sess) \in Nat /\ DOMAIN sess = 1..Len(sess)
  BY DEF SessionsTyped
<1>2. \A s \in 1..Len(sess) : sess[s] \in Row
  BY DEF SessionsTyped
<1>3. Ending(dead) = [s \in 1..Len(sess) |-> New(s)]
  BY <1>1 DEF Ending
<1>4. \A s \in 1..Len(sess) : New(s) \in Row
  BY <1>2 DEF Row
<1>5. Ending(dead) \in [1..Len(sess) -> Row]
  BY <1>3, <1>4
<1> QED
  BY <1>1, <1>5, SeqDef

LEMMA EndingEvolves ==
  ASSUME SessionsTyped, NEW dead, sess' = Ending(dead)
  PROVE  Evolves
BY EndingTyped DEF Evolves, SessionsTyped

LEMMA MintEvolves ==
  ASSUME SessionsTyped, NEW org \in Orgs \cup {Nobody}, NEW dead, Mint(org, dead)
  PROVE  Evolves /\ Len(sess') = Len(sess) + 1
<1> DEFINE new == [org |-> org, live |-> TRUE]
<1>1. new \in Row
  BY DEF Row
<1>2. sess' = Append(Ending(dead), new)
  BY DEF Mint
<1>3. Ending(dead) \in Seq(Row) /\ Len(Ending(dead)) = Len(sess) /\ Len(sess) \in Nat
  BY EndingTyped DEF SessionsTyped
<1>4. sess' \in Seq(Row) /\ Len(sess') = Len(sess) + 1
  BY <1>1, <1>2, <1>3, AppendProperties
<1> QED
  BY <1>3, <1>4 DEF Evolves

LEMMA ActsEvolves ==
  ASSUME SessionsTyped, NEW c, NEW minted, Acts(c, minted)
  PROVE  Evolves /\ minted \in 0..Len(sess')
<1> Len(sess) \in Nat
  BY DEF SessionsTyped
<1>1. CASE sess' = sess /\ minted = 0
  BY <1>1 DEF Evolves, SessionsTyped
<1>2. ASSUME NEW org \in Orgs \cup {Nobody}, NEW dead, Mint(org, dead), minted = Len(sess) + 1
      PROVE  Evolves /\ minted \in 0..Len(sess')
  BY <1>2, MintEvolves DEF SessionsTyped
<1>3. ASSUME NEW dead, sess' = Ending(dead), minted = 0
      PROVE  Evolves /\ minted \in 0..Len(sess')
  BY <1>3, EndingEvolves DEF Evolves
<1>4. CASE minted = Len(sess) + 1 /\ \E dead : \E org \in Orgs \cup {Nobody} : Mint(org, dead)
  BY <1>2, <1>4
<1>5. CASE minted = 0 /\ \E dead : sess' = Ending(dead)
  BY <1>3, <1>5
<1> QED
  BY <1>1, <1>4, <1>5 DEF Acts

-----------------------------------------------------------------------------
(* Calls *)

\* What every change of a call that went out leaves as it was.
Same(c, d) ==
  /\ d \in CallRecord /\ d.route = c.route
  /\ d.cookie = c.cookie /\ d.csrf = c.csrf /\ d.header = c.header

LEMMA Forgetting ==
  ASSUME NEW c \in CallRecord
  PROVE  LET d == [c EXCEPT !.own = FALSE] IN
         Same(c, d) /\ d.at = c.at /\ d.status = c.status /\ d.mint = c.mint
BY DEF CallRecord, Same

LEMMA Delaying ==
  ASSUME NEW c \in CallRecord
  PROVE  LET d == [c EXCEPT !.late = TRUE, !.own = FALSE] IN
         Same(c, d) /\ d.at = c.at /\ d.status = c.status /\ d.mint = c.mint
BY DEF CallRecord, Same

\* Whatever becomes of the sessions, what is known of a call stays.
LEMMA GoodStays ==
  ASSUME SessionsTyped, Evolves, NEW c, GoodCall(c)
  PROVE  GoodCall(c)'
<1>1. Len(sess) \in Nat /\ Len(sess') \in Nat /\ Len(sess) <= Len(sess')
  BY DEF SessionsTyped, Evolves
<1>2. c \in CallRecord /\ Carries(c) /\ Sound(c)
  BY DEF GoodCall
<1>3. Carries(c)'
  BY <1>1, <1>2 DEF Carries
<1>4. Sound(c)'
  BY <1>2 DEF Sound
<1> QED
  BY <1>2, <1>3, <1>4 DEF GoodCall

LEMMA ForgottenGood ==
  ASSUME NEW cs, \A c \in cs : GoodCall(c)
  PROVE  \A c \in Forget(cs) : GoodCall(c)
<1> SUFFICES ASSUME NEW c \in cs PROVE GoodCall([c EXCEPT !.own = FALSE])
  BY DEF Forget
<1> DEFINE d == [c EXCEPT !.own = FALSE]
<1>1. c \in CallRecord /\ Carries(c) /\ Sound(c)
  BY DEF GoodCall
<1>2. Same(c, d) /\ d.at = c.at /\ d.status = c.status /\ d.mint = c.mint
  BY <1>1, Forgetting
<1> HIDE DEF d
<1>3. GoodCall(d)
  BY <1>1, <1>2 DEF GoodCall, Same, Carries, Sound
<1> QED
  BY <1>3 DEF d

LEMMA UnheardGood ==
  ASSUME NEW c, GoodCall(c)
  PROVE  \A d \in Unheard(c) : GoodCall(d)
<1> DEFINE d == [c EXCEPT !.late = TRUE, !.own = FALSE]
<1>1. c \in CallRecord /\ Carries(c) /\ Sound(c)
  BY DEF GoodCall
<1>2. Same(c, d) /\ d.at = c.at /\ d.status = c.status /\ d.mint = c.mint
  BY <1>1, Delaying
<1> HIDE DEF d
<1>3. GoodCall(d)
  BY <1>1, <1>2 DEF GoodCall, Same, Carries, Sound
<1> QED
  BY <1>3 DEF d, Unheard

\* A call with its cookies, as it leaves the backend for the core, or for the
\* browser again.
LEMMA SentGood ==
  ASSUME SessionsTyped, JarFits, NEW c, GoodCall(c), c.at = "sending",
         NEW d \in Backend([c EXCEPT !.cookie = jar.session, !.csrf = jar.csrf, !.at = "core"])
  PROVE  GoodCall(d)
<1> DEFINE e == [c EXCEPT !.cookie = jar.session, !.csrf = jar.csrf, !.at = "core"]
<1>1. Len(sess) \in Nat /\ jar.session \in Nat /\ jar.csrf = jar.session /\ jar.session \in 0..Len(sess)
  BY DEF SessionsTyped, JarFits
<1>2. c \in CallRecord /\ Carries(c) /\ Sound(c)
  BY DEF GoodCall
<1>3. /\ e \in CallRecord /\ e.cookie = jar.session /\ e.csrf = jar.session /\ e.header = c.header
      /\ e.route = c.route /\ e.mint = c.mint /\ e.at = "core" /\ e.status = "none"
  BY <1>1, <1>2 DEF CallRecord, Sound
<1> HIDE DEF e
<1>4. Carries(e)
  BY <1>1, <1>2, <1>3 DEF Carries
<1>5. ~PassesGate(e) => e.route.gate = "csrf" /\ (e.cookie = 0 \/ e.header # e.cookie)
  BY <1>3 DEF PassesGate
<1>6. PassesGate(e) => (e.route.gate = "csrf" => e.cookie # 0 /\ e.header = e.cookie)
  BY <1>3 DEF PassesGate
<1>7. d \in Backend(e)
  BY DEF e
<1>8. \/ d = e /\ PassesGate(e)
      \/ \E s \in {"csrf", "invalid", "signed-out"} :
           d = [e EXCEPT !.at = "done", !.status = s] /\ (s = "csrf" <=> ~PassesGate(e))
  BY <1>7 DEF Backend
<1>9. CASE d = e /\ PassesGate(e)
  BY <1>3, <1>4, <1>6, <1>9 DEF GoodCall, Sound
<1>10. ASSUME NEW s \in {"csrf", "invalid", "signed-out"},
              d = [e EXCEPT !.at = "done", !.status = s], s = "csrf" <=> ~PassesGate(e)
       PROVE  GoodCall(d)
  <2>1. s \in Statuses
    BY DEF Statuses
  <2>2. Same(e, d) /\ d.at = "done" /\ d.status = s /\ d.mint = e.mint
    BY <1>3, <1>10, <2>1 DEF CallRecord, Same
  <2>3. Carries(d)
    BY <1>4, <2>2 DEF Carries, Same
  <2>4. Sound(d)
    BY <1>5, <1>6, <1>10, <2>2 DEF Sound, Same
  <2> QED
    BY <2>2, <2>3, <2>4 DEF GoodCall, Same
<1> QED
  BY <1>8, <1>9, <1>10

\* A call the core has answered, whether or not it did what it was asked.
LEMMA SettledGood ==
  ASSUME SessionsTyped, Evolves, NEW c, GoodCall(c), c.at \in {"core", "working"},
         NEW s \in {"ok", "refused", "signed-out"}, NEW minted \in 0..Len(sess'),
         NEW d \in Settled(c, s, minted)
  PROVE  GoodCall(d)'
<1>1. c \in CallRecord /\ Carries(c) /\ Sound(c) /\ s \in Statuses
  BY DEF GoodCall, Statuses
<1>2. Len(sess) \in Nat /\ Len(sess') \in Nat /\ Len(sess) <= Len(sess') /\ minted \in Nat
  BY DEF SessionsTyped, Evolves
<1>3. d = [c EXCEPT !.at = "done", !.status = s, !.mint = minted]
  BY DEF Settled
<1>4. Same(c, d) /\ d.at = "done" /\ d.status = s /\ d.mint = minted
  BY <1>1, <1>2, <1>3 DEF CallRecord, Same
<1>5. Carries(d)'
  BY <1>1, <1>2, <1>4 DEF Carries, Same
<1>6. Sound(d)'
  BY <1>1, <1>4 DEF Sound, Same
<1> QED
  BY <1>4, <1>5, <1>6 DEF GoodCall, Same

-----------------------------------------------------------------------------
(* Every action *)

LEMMA InitIInv == SessionInit => IInv
<1> SUFFICES ASSUME SessionInit PROVE IInv
  OBVIOUS
<1>1. CASE sess = << >> /\ jar = EmptyJar
  <2>1. sess \in Seq(Row) /\ Len(sess) = 0
    BY <1>1
  <2> QED
    BY <1>1, <2>1 DEF SessionInit, IInv, TabFits, SessionsTyped, JarFits, EmptyJar
<1>2. ASSUME NEW org \in Orgs \cup {Nobody}, sess = <<[org |-> org, live |-> TRUE]>>, jar = StartSession(1)
      PROVE  IInv
  <2>1. [org |-> org, live |-> TRUE] \in Row
    BY DEF Row
  <2>2. sess \in Seq(Row) /\ Len(sess) = 1
    BY <1>2, <2>1
  <2> QED
    BY <1>2, <2>2 DEF SessionInit, IInv, TabFits, SessionsTyped, JarFits, StartSession
<1> QED
  BY <1>1, <1>2 DEF SessionInit

\* Calls may be sent, answered and forgotten while the sessions stay.
LEMMA SameSessions ==
  ASSUME IInv, sess' = sess, JarFits', TabFits', \A c \in calls' : GoodCall(c)
  PROVE  IInv'
<1>1. \A c : GoodCall(c) => GoodCall(c)'
  <2> SUFFICES ASSUME NEW c, GoodCall(c) PROVE GoodCall(c)'
    OBVIOUS
  <2> QED
    BY DEF GoodCall, Carries, Sound
<1> QED
  BY <1>1 DEF IInv, SessionsTyped

LEMMA TabMoves ==
  ASSUME IInv, NEW page, NEW org \in Orgs \cup {Nobody}, NEW goal, NEW cookie,
         tab' = [at |-> page, org |-> org, goal |-> goal, cookie |-> cookie]
  PROVE  TabFits'
BY DEF TabFits

LEMMA TabStays == IInv /\ tab' = tab => TabFits'
BY DEF IInv, TabFits

LEMMA JarStays == IInv /\ sess' = sess /\ jar' = jar => JarFits'
BY DEF IInv, JarFits

LEMMA EndedStep ==
  ASSUME IInv, NEW s \in 1..MaxSessions, SessionEnded(s)
  PROVE  IInv'
<1>1. Evolves /\ Len(sess') = Len(sess)
  BY EndingEvolves, EndingTyped DEF SessionEnded, IInv
<1>2. SessionsTyped' /\ JarFits'
  BY <1>1 DEF SessionEnded, IInv, SessionsTyped, JarFits, Evolves
<1>3. \A c \in calls' : GoodCall(c)'
  BY <1>1, GoodStays DEF SessionEnded, IInv
<1> QED
  BY <1>2, <1>3, TabStays DEF IInv, SessionEnded

LEMMA FetchStep ==
  ASSUME IInv, NEW r \in Routes, NEW own \in BOOLEAN, Fetch(r, own)
  PROVE  IInv'
<1> DEFINE h == IF r.gate \in {"read", "none"} THEN 0 ELSE jar.csrf
           d == [own |-> own, route |-> r, header |-> h, cookie |-> 0, csrf |-> 0,
                 at |-> "sending", late |-> FALSE, mint |-> 0, status |-> "none"]
<1>1. h \in 0..Len(sess) /\ h \in Nat /\ Len(sess) \in Nat /\ 0 \in 0..Len(sess)
  BY DEF IInv, JarFits, SessionsTyped
<1>2. calls' = calls \cup {d} /\ sess' = sess /\ jar' = jar
  BY DEF Fetch
<1> HIDE DEF h
<1>3. d \in CallRecord
  BY <1>1 DEF CallRecord, Statuses
<1>4. Carries(d) /\ Sound(d)
  BY <1>1 DEF Carries, Sound
<1>5. GoodCall(d)
  BY <1>3, <1>4 DEF GoodCall
<1> QED
  BY <1>2, <1>5, SameSessions, JarStays, TabStays DEF IInv, Fetch

LEMMA AttachStep ==
  ASSUME IInv, NEW c \in calls, Attach(c)
  PROVE  IInv'
<1>1. PICK d \in Backend([c EXCEPT !.cookie = jar.session, !.csrf = jar.csrf, !.at = "core"]) :
        Becomes(c, {d})
  BY DEF Attach
<1>2. GoodCall(d) /\ sess' = sess /\ jar' = jar
  BY <1>1, SentGood DEF IInv, Attach
<1> QED
  BY <1>1, <1>2, SameSessions, JarStays, TabStays DEF IInv, Attach, Becomes

\* The core knows the session, refuses, or does its work.
LEMMA AuthenticateStep ==
  ASSUME IInv, NEW c \in calls, Authenticate(c)
  PROVE  IInv'
<1> DEFINE d == [c EXCEPT !.at = "working"]
<1>1. c \in CallRecord /\ Carries(c) /\ Sound(c)
  BY DEF IInv, GoodCall
<1>2. Same(c, d) /\ d.at = "working" /\ d.status = c.status /\ d.mint = c.mint /\ c.at = "core"
  BY <1>1 DEF CallRecord, Same, Authenticate
<1>3. calls' = (calls \ {c}) \cup {d} /\ sess' = sess /\ jar' = jar
  BY DEF Authenticate, Becomes
<1> HIDE DEF d
<1>4. GoodCall(d)
  BY <1>1, <1>2 DEF GoodCall, Same, Carries, Sound
<1> QED
  BY <1>3, <1>4, SameSessions, JarStays, TabStays DEF IInv, Authenticate

\* However the core answers a call.
LEMMA AnsweredStep ==
  ASSUME IInv, Evolves, NEW c \in calls, c.at \in {"core", "working"},
         NEW s \in {"ok", "refused", "signed-out"}, NEW minted \in 0..Len(sess'),
         Becomes(c, Settled(c, s, minted)), jar' = jar, tab' = tab
  PROVE  IInv'
<1>1. SessionsTyped' /\ JarFits' /\ TabFits'
  BY TabStays DEF IInv, SessionsTyped, JarFits, Evolves
<1>2. \A d \in calls' : d \in calls \/ d \in Settled(c, s, minted)
  BY DEF Becomes
<1>3. \A d \in calls : GoodCall(d)'
  BY GoodStays DEF IInv
<1>4. \A d \in Settled(c, s, minted) : GoodCall(d)'
  BY SettledGood DEF IInv
<1> QED
  BY <1>1, <1>2, <1>3, <1>4 DEF IInv

LEMMA CoreStep ==
  ASSUME IInv, NEW c \in calls, Refuse(c) \/ Work(c)
  PROVE  IInv'
<1>1. SessionsTyped /\ Len(sess) \in Nat
  BY DEF IInv, SessionsTyped
<1>2. CASE Refuse(c)
  <2>1. Evolves /\ 0 \in 0..Len(sess')
    BY <1>1, <1>2 DEF Refuse, Evolves, SessionsTyped
  <2> QED
    BY <1>2, <2>1, AnsweredStep DEF Refuse
<1>3. CASE Work(c)
  <2>1. PICK minted \in SessionNumbers :
          Acts(c, minted) /\ (Becomes(c, Settled(c, "ok", minted)) \/ Becomes(c, Settled(c, "refused", 0)))
    BY <1>3 DEF Work
  <2>2. Evolves /\ minted \in 0..Len(sess') /\ 0 \in 0..Len(sess')
    BY <1>1, <2>1, ActsEvolves DEF Evolves
  <2> QED
    BY <1>3, <2>1, <2>2, AnsweredStep DEF Work
<1> QED
  BY <1>2, <1>3

LEMMA AnswerStep ==
  ASSUME IInv, NEW c \in calls, Answer(c)
  PROVE  IInv'
<1>1. PICK s : AnswerWith(c, s)
  BY DEF Answer
<1>2. GoodCall(c) /\ sess' = sess
  BY <1>1 DEF IInv, AnswerWith
<1> DEFINE others == (calls \ {c}) \cup Unheard(c)
<1>3. \A d \in others : GoodCall(d)
  BY <1>2, UnheardGood DEF IInv
<1> HIDE DEF others
<1>4. calls' = others \/ calls' = Forget(others)
  BY <1>1 DEF AnswerWith, others
<1>5. \A d \in calls' : GoodCall(d)
  BY <1>3, <1>4, ForgottenGood
<1>6. JarFits'
  <2>1. jar' \in {jar, StartSession(c.mint), EndSession}
    BY <1>1 DEF AnswerWith, Cookies
  <2>2. c.mint \in 0..Len(sess) /\ Len(sess) \in Nat
    BY <1>2 DEF GoodCall, Carries, IInv, SessionsTyped
  <2>3. CASE jar' = jar
    BY <1>2, <2>3, JarStays
  <2>4. CASE jar' = StartSession(c.mint)
    BY <1>2, <2>2, <2>4 DEF JarFits, StartSession
  <2>5. CASE jar' = EndSession
    BY <1>2, <2>2, <2>5 DEF JarFits, EndSession, EmptyJar
  <2> QED
    BY <2>1, <2>3, <2>4, <2>5
<1>7. TabFits'
  BY <1>1, TabMoves, TabStays DEF AnswerWith, Redirect, Towards
<1> QED
  BY <1>2, <1>5, <1>6, <1>7, SameSessions

LEMMA LostStep ==
  ASSUME IInv, NEW c \in calls, ConnectionLost(c)
  PROVE  IInv'
<1>1. GoodCall(c) /\ sess' = sess /\ jar' = jar
  BY DEF IInv, ConnectionLost
<1>2. \A d \in calls' : d \in calls \/ d \in Unheard(c)
  BY DEF ConnectionLost, Becomes
<1>3. \A d \in calls' : GoodCall(d)
  BY <1>1, <1>2, UnheardGood DEF IInv
<1> QED
  BY <1>1, <1>3, SameSessions, JarStays, TabStays DEF ConnectionLost

\* A page that loads, or is left, changes neither sessions nor cookies.
LEMMA PageStep ==
  ASSUME IInv, sess' = sess, jar' = jar, calls' \in {calls, Forget(calls)}, TabFits'
  PROVE  IInv'
<1>1. \A c \in calls' : GoodCall(c)
  BY ForgottenGood DEF IInv
<1> QED
  BY <1>1, SameSessions, JarStays

\* The organization a page is rendered for is that of a session.
LEMMA LoadFits == IInv /\ Load => TabFits'
<1> SUFFICES ASSUME IInv, Load PROVE TabFits'
  OBVIOUS
<1>1. \A k : Live(k) => sess[k].org \in Orgs \cup {Nobody}
  <2> SUFFICES ASSUME NEW k, Live(k) PROVE sess[k] \in Row
    BY DEF Row
  <2>1. sess \in Seq(Row) /\ k \in DOMAIN sess
    BY DEF IInv, SessionsTyped, Live
  <2> QED
    BY <2>1
<1>2. tab.org \in Orgs \cup {Nobody}
  BY DEF IInv, TabFits
<1>3. ASSUME NEW path, Redirect(path) PROVE TabFits'
  BY <1>3, TabMoves DEF Redirect, Towards
<1>4. ASSUME NEW page, NEW org \in Orgs \cup {Nobody}, Show(page, org) PROVE TabFits'
  BY <1>4, TabMoves DEF Show
<1>5. ASSUME NEW k, Live(k), tab' = Towards("page", sess[k].org, k) PROVE TabFits'
  BY <1>1, <1>5, TabMoves DEF Towards
<1>6. LoadSignIn => TabFits'
  BY <1>3, <1>4 DEF LoadSignIn
<1>7. LoadWelcome => TabFits'
  BY <1>3, <1>4 DEF LoadWelcome
<1>8. LoadLayout => TabFits'
  BY <1>3, <1>4, <1>5 DEF LoadLayout
<1>9. LoadPage => TabFits'
  BY <1>2, <1>4 DEF LoadPage
<1> QED
  BY <1>6, <1>7, <1>8, <1>9 DEF Load

LEMMA NextIInv == IInv /\ [SessionNext]_sessionVars => IInv'
<1> SUFFICES ASSUME IInv, [SessionNext]_sessionVars PROVE IInv'
  OBVIOUS
<1>1. CASE CookiesLapse
  <2>1. sess' = sess /\ calls' = calls /\ JarFits' /\ TabFits'
    BY <1>1, TabStays DEF CookiesLapse, EmptyJar, JarFits, IInv, SessionsTyped
  <2> QED
    BY <2>1, SameSessions DEF IInv
<1>2. ASSUME NEW path, Navigate(path)
      PROVE  IInv'
  <2>1. tab.org \in Orgs \cup {Nobody}
    BY DEF IInv, TabFits
  <2>2. TabFits'
    BY <1>2, <2>1, TabMoves DEF Navigate, Towards
  <2> QED
    BY <1>2, <2>2, PageStep DEF Navigate
<1>3. CASE LoadSignIn \/ LoadWelcome \/ LoadLayout \/ LoadPage
  <2>1. TabFits'
    BY <1>3, LoadFits DEF Load
  <2> QED
    BY <1>3, <2>1, PageStep DEF LoadSignIn, LoadWelcome, LoadLayout, LoadPage
<1>4. ASSUME NEW r \in Routes, Send(r) \/ SendElsewhere(r)
      PROVE  IInv'
  BY <1>4, FetchStep DEF Send, SendElsewhere
<1>5. CASE UNCHANGED sessionVars
  BY <1>5, PageStep, TabStays DEF sessionVars
<1> QED
  BY <1>1, <1>2, <1>3, <1>4, <1>5, EndedStep, AttachStep, AuthenticateStep, CoreStep, AnswerStep, LostStep
     DEF SessionNext

\* What is known of the cookies and of every call holds in every reachable state.
THEOREM Inductive == SessionSpec => []IInv
BY InitIInv, NextIInv, PTL DEF SessionSpec

\* In whatever order the answers of several tabs arrive, the two cookies are of
\* one session, or both absent.
THEOREM TheJarIsAPair == SessionSpec => []JarIsAPair
<1>1. IInv => JarIsAPair
  BY DEF IInv, JarFits, JarIsAPair
<1> QED
  BY <1>1, Inductive, PTL

\* A call gets past the double submit exactly when the session it comes with is
\* the one whose token its page had read.
THEOREM TheTokenNamesTheSession == SessionSpec => []TokenNamesTheSession
<1>1. IInv => TokenNamesTheSession
  BY DEF IInv, GoodCall, Sound, TokenNamesTheSession
<1> QED
  BY <1>1, Inductive, PTL

-----------------------------------------------------------------------------
(* Types *)

\* What the bounds add to what is known of sessions, cookies and calls.
Bounded == Len(sess) <= MaxSessions /\ tab \in Tab /\ sent \in 0..MaxCalls

LEMMA TabShown ==
  ASSUME NEW page \in Pages, NEW org \in Orgs \cup {Nobody}, NEW goal \in Paths, NEW k \in SessionNumbers,
         tab' = [at |-> page, org |-> org, goal |-> goal, cookie |-> k]
  PROVE  tab' \in Tab
BY DEF Tab

LEMMA ShownOrSent ==
  ASSUME NEW org \in Orgs \cup {Nobody}
  PROVE  /\ \A page \in Pages : Show(page, org) => tab' \in Tab
         /\ \A path \in Paths : Redirect(path) => tab' \in Tab
         /\ \A path \in Paths, k \in SessionNumbers : tab' = Towards(path, org, k) => tab' \in Tab
<1>1. 0 \in SessionNumbers /\ "none" \in Paths /\ "loading" \in Pages
  BY SessionBounds DEF SessionNumbers, Paths, Pages
<1>. QED
  BY <1>1, TabShown DEF Show, Redirect, Towards

LEMMA LoadTyped ==
  ASSUME IInv, Bounded, Load
  PROVE  tab' \in Tab
<1>1. {"sign-in", "welcome", "dashboard", "missing", "error"} \subseteq Pages
      /\ {"/login", "/welcome", "/projects", "page"} \subseteq Paths
  BY DEF Pages, Paths
<1>2. \A k : Live(k) => sess[k].org \in Orgs \cup {Nobody}
  <2>. SUFFICES ASSUME NEW k, Live(k) PROVE sess[k] \in Row
    BY DEF Row
  <2>. QED
    BY DEF IInv, SessionsTyped, Live
<1>3. tab.org \in Orgs \cup {Nobody} /\ jar.session \in SessionNumbers
  BY SessionBounds DEF IInv, TabFits, JarFits, SessionsTyped, Bounded, SessionNumbers
<1>4. CASE LoadSignIn
  BY <1>1, <1>4, ShownOrSent DEF LoadSignIn
<1>5. CASE LoadWelcome
  BY <1>1, <1>5, ShownOrSent DEF LoadWelcome
<1>6. CASE LoadLayout
  BY <1>1, <1>2, <1>3, <1>6, ShownOrSent DEF LoadLayout
<1>7. CASE LoadPage
  BY <1>1, <1>3, <1>7, ShownOrSent DEF LoadPage
<1>. QED
  BY <1>4, <1>5, <1>6, <1>7 DEF Load

LEMMA MintsInBounds ==
  ASSUME IInv, Bounded, NEW c \in calls, Work(c)
  PROVE  Len(sess') <= MaxSessions
<1>1. SessionsTyped /\ Len(sess) \in Nat /\ MaxSessions \in Nat /\ Len(sess) <= MaxSessions
  BY SessionBounds DEF IInv, SessionsTyped, Bounded
<1>2. ASSUME NEW org \in Orgs \cup {Nobody}, NEW dead, Mint(org, dead), Len(sess) < MaxSessions
      PROVE  Len(sess') <= MaxSessions
  <2>1. Len(sess') = Len(sess) + 1
    BY <1>1, <1>2, MintEvolves
  <2>. QED
    BY <1>1, <1>2, <2>1
<1>3. ASSUME NEW dead, sess' = Ending(dead) PROVE Len(sess') <= MaxSessions
  BY <1>1, <1>3, EndingTyped
<1>4. CASE sess' = sess
  BY <1>1, <1>4
<1>5. PICK minted : Acts(c, minted)
  BY DEF Work
<1>6. \/ sess' = sess \/ \E dead : sess' = Ending(dead)
      \/ Len(sess) < MaxSessions /\ \E dead : \E org \in Orgs \cup {Nobody} : Mint(org, dead)
  BY <1>5 DEF Acts
<1>. QED
  BY <1>2, <1>3, <1>4, <1>6

LEMMA BoundedNext == IInv /\ Bounded /\ [SessionNext]_sessionVars => Bounded'
<1>. SUFFICES ASSUME IInv, Bounded, [SessionNext]_sessionVars PROVE Bounded'
  OBVIOUS
<1>. USE DEF Bounded
<1>1. CASE CookiesLapse
  BY <1>1 DEF CookiesLapse
<1>2. ASSUME NEW s, SessionEnded(s) PROVE Bounded'
  <2>1. Len(sess') = Len(sess)
    BY <1>2, EndingTyped DEF SessionEnded, IInv
  <2>. QED
    BY <1>2, <2>1 DEF SessionEnded
<1>3. ASSUME NEW path \in {"/login", "/projects", "/projects/[id]"}, Navigate(path) PROVE Bounded'
  <2>1. path \in Paths /\ 0 \in SessionNumbers /\ tab.org \in Orgs \cup {Nobody}
    BY SessionBounds DEF Paths, SessionNumbers, IInv, TabFits
  <2>2. tab' \in Tab
    BY <1>3, <2>1, ShownOrSent DEF Navigate
  <2>. QED
    BY <1>3, <2>2 DEF Navigate
<1>4. CASE LoadSignIn \/ LoadWelcome \/ LoadLayout \/ LoadPage
  <2>1. tab' \in Tab
    BY <1>4, LoadTyped DEF Load
  <2>2. UNCHANGED <<sess, sent>>
    BY <1>4 DEF LoadSignIn, LoadWelcome, LoadLayout, LoadPage
  <2>. QED
    BY <2>1, <2>2
<1>5. ASSUME NEW r, Send(r) \/ SendElsewhere(r) PROVE Bounded'
  <2>1. UNCHANGED <<sess, tab>> /\ sent < MaxCalls /\ sent' = sent + 1
    BY <1>5 DEF Send, SendElsewhere, Fetch
  <2>2. sent' \in 0..MaxCalls
    BY <2>1, SessionBounds
  <2>. QED
    BY <2>1, <2>2
<1>6. ASSUME NEW c \in calls, Attach(c) \/ Authenticate(c) \/ Refuse(c) \/ Work(c) PROVE Bounded'
  BY <1>6, MintsInBounds DEF Attach, Authenticate, Refuse, Work
<1>7. ASSUME NEW c \in calls, Answer(c) PROVE Bounded'
  <2>1. PICK s : AnswerWith(c, s)
    BY <1>7 DEF Answer
  <2>2. UNCHANGED <<sess, sent>> /\ (tab' = tab \/ (Onward(c, s) # "none" /\ Redirect(Onward(c, s))))
    BY <2>1 DEF AnswerWith
  <2>3. Onward(c, s) # "none" => Onward(c, s) \in Paths
    BY DEF Onward, Paths
  <2>4. tab' \in Tab
    BY <2>2, <2>3, ShownOrSent
  <2>. QED
    BY <2>2, <2>4
<1>8. ASSUME NEW c \in calls, ConnectionLost(c) PROVE Bounded'
  BY <1>8 DEF ConnectionLost
<1>9. CASE UNCHANGED sessionVars
  BY <1>9 DEF sessionVars
<1>. QED
  BY <1>1, <1>2, <1>3, <1>4, <1>5, <1>6, <1>7, <1>8, <1>9 DEF SessionNext

LEMMA BoundedInit == SessionInit => Bounded
<1>. SUFFICES ASSUME SessionInit PROVE Bounded
  OBVIOUS
<1>1. 0 \in SessionNumbers /\ "none" \in Paths /\ "public" \in Pages
  BY SessionBounds DEF SessionNumbers, Paths, Pages
<1>2. tab \in Tab
  BY <1>1 DEF SessionInit, Tab
<1>3. Len(sess) <= MaxSessions
  <2>1. MaxSessions >= 1 /\ 0 <= MaxSessions
    BY SessionBounds
  <2>2. CASE sess = << >>
    BY <2>1, <2>2
  <2>3. ASSUME NEW org \in Orgs \cup {Nobody}, sess = <<[org |-> org, live |-> TRUE]>>
        PROVE  Len(sess) = 1
    BY <2>3
  <2>. QED
    BY <2>1, <2>2, <2>3 DEF SessionInit
<1>4. sent \in 0..MaxCalls
  BY SessionBounds DEF SessionInit
<1>. QED
  BY <1>2, <1>3, <1>4 DEF Bounded

LEMMA BoundedSays == IInv /\ Bounded => SessionTypeOK
<1>. SUFFICES ASSUME IInv, Bounded PROVE SessionTypeOK
  OBVIOUS
<1>1. Len(sess) \in Nat /\ Len(sess) <= MaxSessions /\ MaxSessions \in Nat
  BY SessionBounds DEF IInv, SessionsTyped, Bounded
<1>2. \A k \in 0..Len(sess) : k \in SessionNumbers
  BY <1>1 DEF SessionNumbers
<1>3. calls \subseteq Call
  <2>. SUFFICES ASSUME NEW c \in calls PROVE c \in Call
    OBVIOUS
  <2>1. c \in CallRecord /\ Carries(c)
    BY DEF IInv, GoodCall
  <2>2. c.cookie \in SessionNumbers /\ c.csrf \in SessionNumbers /\ c.header \in SessionNumbers
        /\ c.mint \in SessionNumbers
    BY <1>2, <2>1 DEF Carries
  <2>. QED
    BY <2>1, <2>2 DEF CallRecord, Call
<1>4. jar \in [session : SessionNumbers, csrf : SessionNumbers]
  <2>1. jar.session \in SessionNumbers /\ jar.csrf \in SessionNumbers
        /\ jar = [session |-> jar.session, csrf |-> jar.csrf]
    BY <1>2 DEF IInv, JarFits
  <2>. QED
    BY <2>1
<1>5. sess \in Seq([org : Orgs \cup {Nobody}, live : BOOLEAN])
  BY DEF IInv, SessionsTyped, Row
<1>. QED
  BY <1>3, <1>4, <1>5 DEF SessionTypeOK, Bounded

\* Sessions, cookies, the tab and every call have their types, for any bounds on
\* sessions and calls.
THEOREM SessionsTypeCorrect == SessionSpec => []SessionTypeOK
BY InitIInv, NextIInv, BoundedInit, BoundedNext, BoundedSays, PTL DEF SessionSpec
=============================================================================
