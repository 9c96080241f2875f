---------------------------- MODULE SignInPages ----------------------------
(***************************************************************************)
(* The forms a person fills in to get in: sign-in with its second step,    *)
(* sign-up, accepting an invitation, the two recoveries, and adding a      *)
(* passkey from the settings.  Each runs one asynchronous function at a    *)
(* time: posts to the backend and, for a passkey, a prompt of the browser  *)
(* in between.  The reader may go back, change step or leave meanwhile.    *)
(*                                                                         *)
(* A form is known by its screens.  The password that is typed is "empty", *)
(* "typed" since the last submission or "sent" with it.                    *)
(***************************************************************************)
EXTENDS Naturals, FiniteSets, Sequences

CONSTANTS MaxTries,   \* bound: functions started
          Entrances   \* the screens explored first, a subset of EntryScreens

EntryScreens == {"password", "signup", "checking", "bare", "forgot", "redeem", "broken", "passkeys"}

ASSUME PagesBounds == MaxTries \in Nat /\ Entrances \subseteq EntryScreens

-----------------------------------------------------------------------------
(* The asynchronous functions: the screen each starts from, what it awaits *)
(* in turn, whether it sends the password, what its finally block forgets, *)
(* the screens success leads to, and what becomes of a 401 ("shown" by the *)
(* form, or taken by apiFetch for the end of a session: "leaves").         *)

OnSubmit ==
  [from |-> "password", awaits |-> <<"post">>, secret |-> TRUE, forgets |-> TRUE,
   to |-> {"passkey", "signed-in"}, denied |-> "shown"]

ConfirmWithPasskey ==
  [from |-> "passkey", awaits |-> <<"post", "prompt", "post">>, secret |-> FALSE, forgets |-> FALSE,
   to |-> {"signed-in"}, denied |-> "shown"]

ConfirmWithRecoveryCode ==
  [from |-> "code", awaits |-> <<"post">>, secret |-> FALSE, forgets |-> FALSE,
   to |-> {"signed-in"}, denied |-> "shown"]

SignInWithPasskey ==
  [from |-> "password", awaits |-> <<"post", "prompt", "post">>, secret |-> FALSE, forgets |-> FALSE,
   to |-> {"signed-in"}, denied |-> "shown"]

SignUp ==
  [from |-> "signup", awaits |-> <<"post">>, secret |-> TRUE, forgets |-> TRUE,
   to |-> {"codes"}, denied |-> "never"]

\* The effect that runs when the page mounts.
Inspect ==
  [from |-> "checking", awaits |-> <<"post">>, secret |-> FALSE, forgets |-> FALSE,
   to |-> {"join", "elsewhere", "create"}, denied |-> "never"]

Accept ==
  [from |-> "create", awaits |-> <<"post">>, secret |-> TRUE, forgets |-> FALSE,
   to |-> {"created"}, denied |-> "never"]

Join ==
  [from |-> "join", awaits |-> <<"post">>, secret |-> FALSE, forgets |-> FALSE,
   to |-> {"joined"}, denied |-> "never"]

\* Pending ends with a failure only: success replaces the form.
ResetPassword ==
  [from |-> "forgot", awaits |-> <<"post">>, secret |-> TRUE, forgets |-> TRUE,
   to |-> {"reset"}, denied |-> "leaves"]

RedeemLink ==
  [from |-> "redeem", awaits |-> <<"post">>, secret |-> TRUE, forgets |-> TRUE,
   to |-> {"redeemed"}, denied |-> "leaves"]

Register ==
  [from |-> "naming", awaits |-> <<"post", "prompt", "post">>, secret |-> FALSE, forgets |-> FALSE,
   to |-> {"passkeys"}, denied |-> "leaves"]

AsyncFunctions ==
  {OnSubmit, ConfirmWithPasskey, ConfirmWithRecoveryCode, SignInWithPasskey, SignUp, Inspect,
   Accept, Join, ResetPassword, RedeemLink, Register}

Screens == EntryScreens \cup {f.from : f \in AsyncFunctions} \cup UNION {f.to : f \in AsyncFunctions}

-----------------------------------------------------------------------------
VARIABLES
  screen,    \* what is rendered
  typed,     \* the password field
  busy,      \* pending
  failed,    \* an error is shown
  bar,       \* the address bar holds the link's token
  where,     \* "here", "away" by the reader or the router, or "/login" by apiFetch
  running,   \* the functions under way: [f, step, n]
  tries

signInVars == <<screen, typed, busy, failed, bar, where, running, tries>>

PagesInit ==
  /\ screen \in Entrances
  /\ typed = "empty" /\ failed = FALSE /\ where = "here"
  /\ bar = (screen = "checking")
  /\ busy = FALSE /\ tries = 0
  /\ running = IF screen = "checking" THEN {[f |-> Inspect, step |-> 1, n |-> 0]} ELSE {}

-----------------------------------------------------------------------------
(* The reader *)

TypePassword ==
  /\ where = "here" /\ screen \in {"password", "signup", "create", "forgot", "redeem"}
  /\ typed' = "typed"
  /\ UNCHANGED <<screen, busy, failed, bar, where, running, tries>>

\* A loading button takes no press.
Start(f) ==
  /\ where = "here" /\ screen = f.from /\ f # Inspect /\ ~busy
  /\ f.secret => typed # "empty"
  /\ tries < MaxTries /\ tries' = tries + 1
  /\ running' = running \cup {[f |-> f, step |-> 1, n |-> tries + 1]}
  /\ busy' = TRUE /\ failed' = FALSE
  /\ typed' = IF f.secret THEN "sent" ELSE typed
  /\ UNCHANGED <<screen, bar, where>>

\* Too short, or the two do not match: nothing is sent.
Disallow ==
  /\ where = "here" /\ screen \in {"signup", "create"} /\ ~busy /\ typed = "typed"
  /\ failed' = TRUE
  /\ UNCHANGED <<screen, typed, busy, bar, where, running, tries>>

\* Mutant: going back also makes the first step's buttons ready.
StartOver0 ==
  /\ where = "here" /\ screen \in {"passkey", "code"}
  /\ screen' = "password" /\ failed' = FALSE /\ busy' = FALSE
  /\ UNCHANGED <<typed, bar, where, running, tries>>

\* Back to the first step, whatever is under way.
StartOver ==
  /\ where = "here" /\ screen \in {"passkey", "code"}
  /\ screen' = "password" /\ failed' = FALSE
  /\ UNCHANGED <<typed, busy, bar, where, running, tries>>

\* Between passkey and recovery code; the form to name a passkey, and its Cancel.
Turn(from, to) ==
  /\ where = "here" /\ screen = from
  /\ "naming" \in {from, to} => ~busy
  /\ screen' = to /\ failed' = FALSE
  /\ UNCHANGED <<typed, busy, bar, where, running, tries>>

\* A link or the closing button of a last screen.  Codes are left when the
\* reader says they are saved, or loses them.
LeavePage ==
  /\ where = "here"
  /\ where' = "away"
  /\ UNCHANGED <<screen, typed, busy, failed, bar, running, tries>>

-----------------------------------------------------------------------------
(* The functions *)

\* One step further: a post answered, or the prompt satisfied.
Proceed(r) ==
  /\ r.step < Len(r.f.awaits)
  /\ running' = (running \ {r}) \cup {[r EXCEPT !.step = @ + 1]}
  /\ UNCHANGED <<screen, typed, busy, failed, bar, where, tries>>

\* Mutant: the password is cleared once it has been accepted.
Forgets0(f, ok) == f.forgets /\ ok

Forgets(f, ok) == f.forgets

StaysBusy(f, ok) == ok /\ f \in {ResetPassword, RedeemLink}

Afterwards(f, ok) ==
  /\ typed' = IF Forgets(f, ok) THEN "empty" ELSE typed
  /\ busy'  = IF f = Inspect THEN busy ELSE StaysBusy(f, ok)

\* An account exists and is not signed in here: the person will come back.
KeepsLink(to) == to = "elsewhere"

Succeed(r, to) ==
  /\ r.step = Len(r.f.awaits) /\ to \in r.f.to
  /\ running' = running \ {r}
  /\ IF where = "here"
     THEN /\ screen' = to /\ failed' = FALSE
          /\ Afterwards(r.f, TRUE)
          /\ bar' = IF r.f = Inspect THEN KeepsLink(to) ELSE bar
     ELSE UNCHANGED <<screen, typed, busy, failed, bar>>
  /\ where' = IF to = "signed-in" THEN "away" ELSE where
  /\ UNCHANGED tries

\* Refused, unreachable, or the prompt dismissed: shown where the reader is by
\* now.  A link that cannot be read still leads to the form.
Fail(r) ==
  /\ running' = running \ {r}
  /\ IF where = "here"
     THEN /\ screen' = (IF r.f = Inspect THEN "create" ELSE screen) /\ failed' = TRUE
          /\ Afterwards(r.f, FALSE)
          /\ bar' = IF r.f = Inspect THEN KeepsLink("create") ELSE bar
     ELSE UNCHANGED <<screen, typed, busy, failed, bar>>
  /\ UNCHANGED <<where, tries>>

\* The core answers 401 to a wrong recovery code, a spent link and a passkey it
\* does not accept, and apiFetch loads /login for it.
Denied(r) ==
  /\ r.f.denied = "leaves" /\ r.f.awaits[r.step] = "post"
  /\ running' = running \ {r}
  /\ where' = "/login"
  /\ UNCHANGED <<screen, typed, busy, failed, bar, tries>>

PagesNext ==
  \/ TypePassword \/ Disallow \/ StartOver \/ LeavePage
  \/ \E f \in AsyncFunctions : Start(f)
  \/ Turn("passkey", "code") \/ Turn("code", "passkey")
  \/ Turn("passkeys", "naming") \/ Turn("naming", "passkeys")
  \/ \E r \in running : Proceed(r) \/ Fail(r) \/ Denied(r) \/ (\E to \in r.f.to : Succeed(r, to))

\* Posts are answered, and a prompt ends by a touch, a dismissal or its own
\* time-out.
PagesFairness ==
  WF_signInVars(\E r \in running : Proceed(r) \/ Fail(r) \/ Denied(r) \/ (\E to \in r.f.to : Succeed(r, to)))

PagesSpec == PagesInit /\ [][PagesNext]_signInVars /\ PagesFairness

-----------------------------------------------------------------------------
(* Properties *)

PagesTypeOK ==
  /\ screen \in Screens /\ typed \in {"empty", "typed", "sent"}
  /\ busy \in BOOLEAN /\ failed \in BOOLEAN /\ bar \in BOOLEAN
  /\ where \in {"here", "away", "/login"} /\ tries \in 0..MaxTries
  /\ running \subseteq [f : AsyncFunctions, step : 1..3, n : 0..MaxTries]

\* However the reader goes back and forth between the steps, one form never has
\* two ceremonies under way.
OneCeremony == where = "here" => Cardinality(running) <= 1

\* A password is not kept once its request has an answer, whichever answer
\* (login-form.tsx:97, signup-form.tsx:78, forgot-password-form.tsx:51).
PasswordNotKept ==
  where = "here" /\ running = {} /\ screen \notin {"create", "created"} => typed # "sent"

\* No form stays busy.
BusyEnds == (where = "here" /\ busy) ~> (~busy \/ where # "here" \/ screen \in {"reset", "redeemed"})

\* errors.go:97: a recovery that is refused is answered with "That address and
\* recovery code do not match", for its form to show.  Refuted: the answer is a
\* 401, and apiFetch leaves for /login before the form sees it.
RefusalIsShown == where = "/login" => screen \notin {"forgot", "redeem"}
=============================================================================
