---------------------------- MODULE DashboardProofs ----------------------------
(***************************************************************************)
(* Theorems of the dashboard's forms, sign-in pages, environment page,     *)
(* .env parser, rows of secrets, key picker, messages and perimeter, for   *)
(* any number of openings, requests, secrets, environments, lines, rows,   *)
(* listings, messages and configurations.  Each part's invariant is proved *)
(* of its own next-state relation; MCDashboard's specification takes steps *)
(* of one part at a time and leaves the others alone.                      *)
(***************************************************************************)
EXTENDS MCDashboard, BrowserSessionsProofs, FiniteSetTheorems, SequenceTheorems, WellFoundedInduction, TLAPS

LEMMA AtMostOne ==
  ASSUME NEW S, \A a, b \in S : a = b
  PROVE  Cardinality(S) <= 1
<1>1. CASE S = {}
  BY <1>1, FS_EmptySet
<1>2. ASSUME NEW x \in S
      PROVE  Cardinality(S) = 1
  <2>1. S = {x}
    OBVIOUS
  <2> QED
    BY <2>1, FS_Singleton
<1> QED
  BY <1>1, <1>2

-----------------------------------------------------------------------------
(* The sign-in pages *)

Running == [f : AsyncFunctions, step : Nat, n : Nat]

\* A function that runs keeps its form busy; the one that runs by itself, when
\* a link is opened, has the screen to itself.
RunsAlone ==
  /\ running \subseteq Running /\ tries \in Nat
  /\ \A a, b \in running : a = b
  /\ \A r \in running : IF r.f = Inspect THEN screen = "checking" ELSE busy /\ screen # "checking"

\* A password that was sent has a function that will forget it, unless it is
\* that of the form which keeps it.
SomeoneForgets ==
  /\ typed = "sent" => screen \in {"create", "created"} \/ \E r \in running : r.f.forgets
  /\ \A r \in running : screen \in {"create", "created"} => r.f = Accept

PagesInv == where = "here" => RunsAlone /\ SomeoneForgets

\* What the proofs need to know of the functions.
Fits(f) ==
  /\ f.from = "checking" => f = Inspect
  /\ f.from = "create" => f = Accept
  /\ f.from # "created" /\ "checking" \notin f.to
  /\ f.secret => f.forgets \/ f = Accept
  /\ f # Inspect /\ f # Accept => f.to \cap {"create", "created"} = {}

LEMMA FunctionsFit == \A f \in AsyncFunctions : Fits(f)
<1>1. Inspect # Accept /\ Accept.from = "create" /\ Accept.to = {"created"} /\ Inspect.from = "checking"
      /\ ~Inspect.forgets /\ ~Accept.forgets
  BY DEF Inspect, Accept
<1>2. Fits(OnSubmit) /\ Fits(ConfirmWithPasskey) /\ Fits(ConfirmWithRecoveryCode)
  BY DEF Fits, OnSubmit, ConfirmWithPasskey, ConfirmWithRecoveryCode
<1>3. Fits(SignInWithPasskey) /\ Fits(SignUp) /\ Fits(Join)
  BY DEF Fits, SignInWithPasskey, SignUp, Join
<1>4. Fits(Inspect) /\ Fits(Accept)
  BY DEF Fits, Inspect, Accept
<1>5. Fits(ResetPassword) /\ Fits(RedeemLink) /\ Fits(Register)
  BY DEF Fits, ResetPassword, RedeemLink, Register
<1> QED
  BY <1>2, <1>3, <1>4, <1>5 DEF AsyncFunctions

LEMMA InspectAndAccept ==
  /\ Inspect \in AsyncFunctions /\ Inspect # Accept
  /\ Inspect.from = "checking" /\ Accept.from = "create" /\ Accept.to = {"created"}
BY DEF AsyncFunctions, Inspect, Accept

LEMMA PagesInitInv == PagesInit => PagesInv
<1> SUFFICES ASSUME PagesInit PROVE RunsAlone /\ SomeoneForgets
  BY DEF PagesInv
<1>1. CASE screen = "checking"
  BY <1>1, InspectAndAccept DEF PagesInit, RunsAlone, SomeoneForgets, Running
<1>2. CASE screen # "checking"
  BY <1>2 DEF PagesInit, RunsAlone, SomeoneForgets, Running
<1> QED
  BY <1>1, <1>2

LEMMA StartInv ==
  ASSUME where = "here", RunsAlone, SomeoneForgets, NEW f \in AsyncFunctions, Start(f)
  PROVE  RunsAlone' /\ SomeoneForgets'
<1> DEFINE new == [f |-> f, step |-> 1, n |-> tries + 1]
<1>1. running = {}
  <2>1. Fits(f) /\ f # Inspect /\ screen = f.from /\ ~busy
    BY FunctionsFit DEF Start
  <2> QED
    BY <2>1 DEF RunsAlone, Fits
<1>2. running' = {new} /\ new \in Running /\ new.f = f /\ tries' \in Nat
  BY <1>1 DEF Start, Running, RunsAlone
<1>3. Fits(f) /\ f # Inspect /\ screen = f.from /\ screen' = screen /\ busy'
  BY FunctionsFit DEF Start
<1> HIDE DEF new
<1>4. screen # "checking" /\ (screen \in {"create", "created"} => f = Accept)
  BY <1>3 DEF Fits
<1>5. RunsAlone'
  BY <1>2, <1>3, <1>4 DEF RunsAlone
<1>6. typed' = "sent" => screen \in {"create", "created"} \/ f.forgets
  <2>1. CASE f.secret
    BY <1>3, <2>1, InspectAndAccept DEF Fits
  <2>2. CASE ~f.secret
    BY <1>1, <2>2 DEF Start, SomeoneForgets
  <2> QED
    BY <2>1, <2>2
<1> QED
  BY <1>2, <1>3, <1>4, <1>5, <1>6 DEF SomeoneForgets

\* The screens between which the reader turns.
LEMMA TurnInv ==
  ASSUME where = "here", RunsAlone, SomeoneForgets,
         running' = running, typed' = typed, busy' = busy, tries' = tries,
         screen # "checking", screen' \notin {"checking", "create", "created"},
         screen \notin {"create", "created"}
  PROVE  RunsAlone' /\ SomeoneForgets'
BY DEF RunsAlone, SomeoneForgets

\* A function that ends leaves none behind it.
LEMMA EndInv ==
  ASSUME where = "here", RunsAlone, SomeoneForgets, NEW r \in running,
         running' = running \ {r}, tries' = tries,
         \/ typed' = typed /\ ~r.f.forgets
         \/ typed' = "empty",
         typed' = "sent" /\ screen \in {"create", "created"} => screen' \in {"create", "created"}
  PROVE  RunsAlone' /\ SomeoneForgets'
<1>1. running = {r} /\ running' = {}
  BY DEF RunsAlone
<1>2. typed' = "sent" => screen' \in {"create", "created"}
  BY <1>1 DEF SomeoneForgets
<1> QED
  BY <1>1, <1>2 DEF RunsAlone, SomeoneForgets

LEMMA SucceedInv ==
  ASSUME where = "here", RunsAlone, SomeoneForgets, NEW r \in running, NEW to, Succeed(r, to)
  PROVE  RunsAlone' /\ SomeoneForgets'
<1>1. /\ running' = running \ {r} /\ tries' = tries /\ screen' = to /\ to \in r.f.to
      /\ typed' = IF r.f.forgets THEN "empty" ELSE typed
  BY DEF Succeed, Afterwards, Forgets
<1>2. r.f \in AsyncFunctions
  BY DEF RunsAlone, Running
<1>3. screen \in {"create", "created"} => r.f = Accept
  BY DEF SomeoneForgets
<1>4. screen \in {"create", "created"} => screen' \in {"create", "created"}
  BY <1>1, <1>3, InspectAndAccept
<1> QED
  BY <1>1, <1>4, EndInv

LEMMA FailInv ==
  ASSUME where = "here", RunsAlone, SomeoneForgets, NEW r \in running, Fail(r)
  PROVE  RunsAlone' /\ SomeoneForgets'
<1>1. /\ running' = running \ {r} /\ tries' = tries
      /\ screen' = IF r.f = Inspect THEN "create" ELSE screen
      /\ typed' = IF r.f.forgets THEN "empty" ELSE typed
  BY DEF Fail, Afterwards, Forgets
<1> QED
  BY <1>1, EndInv

LEMMA ProceedInv ==
  ASSUME where = "here", RunsAlone, SomeoneForgets, NEW r \in running, Proceed(r)
  PROVE  RunsAlone' /\ SomeoneForgets'
<1> DEFINE on == [r EXCEPT !.step = @ + 1]
<1>1. r \in Running /\ running = {r}
  BY DEF RunsAlone
<1>2. on \in Running /\ on.f = r.f
  BY <1>1 DEF Running
<1>3. running' = {on}
  BY <1>1 DEF Proceed
<1>4. screen' = screen /\ busy' = busy /\ typed' = typed /\ tries' = tries
  BY DEF Proceed
<1> HIDE DEF on
<1> QED
  BY <1>1, <1>2, <1>3, <1>4 DEF RunsAlone, SomeoneForgets

LEMMA PagesNextInv == PagesInv /\ [PagesNext]_signInVars => PagesInv'
<1> SUFFICES ASSUME PagesInv, [PagesNext]_signInVars, where' = "here"
             PROVE  RunsAlone' /\ SomeoneForgets'
  BY DEF PagesInv
<1>1. where = "here"
  BY DEF PagesNext, signInVars, TypePassword, Disallow, StartOver, LeavePage, Start, Turn, Proceed,
         Succeed, Fail, Denied
<1>2. RunsAlone /\ SomeoneForgets
  BY <1>1 DEF PagesInv
<1>3. CASE TypePassword
  BY <1>2, <1>3 DEF TypePassword, RunsAlone, SomeoneForgets
<1>4. CASE Disallow
  BY <1>2, <1>4 DEF Disallow, RunsAlone, SomeoneForgets
<1>5. CASE StartOver
  BY <1>1, <1>2, <1>5, TurnInv DEF StartOver
<1>6. CASE LeavePage
  BY <1>6 DEF LeavePage
<1>7. ASSUME NEW f \in AsyncFunctions, Start(f) PROVE RunsAlone' /\ SomeoneForgets'
  BY <1>1, <1>2, <1>7, StartInv
<1>8. ASSUME NEW from \in {"passkey", "code", "passkeys", "naming"},
             NEW to \in {"passkey", "code", "passkeys", "naming"}, Turn(from, to)
      PROVE  RunsAlone' /\ SomeoneForgets'
  BY <1>1, <1>2, <1>8, TurnInv DEF Turn
<1>9. ASSUME NEW r \in running, Proceed(r) \/ Fail(r) \/ \E to \in r.f.to : Succeed(r, to)
      PROVE  RunsAlone' /\ SomeoneForgets'
  BY <1>1, <1>2, <1>9, ProceedInv, FailInv, SucceedInv
<1>10. ASSUME NEW r \in running, Denied(r) PROVE RunsAlone' /\ SomeoneForgets'
  BY <1>10 DEF Denied
<1>11. CASE UNCHANGED signInVars
  BY <1>2, <1>11 DEF signInVars, RunsAlone, SomeoneForgets
<1> QED
  BY <1>3, <1>4, <1>5, <1>6, <1>7, <1>8, <1>9, <1>10, <1>11 DEF PagesNext

LEMMA PagesInvSays == PagesInv => OneCeremony /\ PasswordNotKept
<1>1. PagesInv => OneCeremony
  BY AtMostOne DEF PagesInv, RunsAlone, OneCeremony
<1>2. PagesInv => PasswordNotKept
  BY DEF PagesInv, SomeoneForgets, PasswordNotKept
<1> QED
  BY <1>1, <1>2

LEMMA LengthsOfFunctions == \A f \in AsyncFunctions : Len(f.awaits) \in 1..3 /\ f.from \in Screens /\ f.to \subseteq Screens
<1>1. Len(<<"post">>) = 1 /\ Len(<<"post", "prompt", "post">>) = 3
  OBVIOUS
<1>2. \A f \in AsyncFunctions : f.awaits = <<"post">> \/ f.awaits = <<"post", "prompt", "post">>
  BY DEF AsyncFunctions, OnSubmit, ConfirmWithPasskey, ConfirmWithRecoveryCode, SignInWithPasskey, SignUp, Inspect,
         Accept, Join, ResetPassword, RedeemLink, Register
<1>3. \A f \in AsyncFunctions : f.from \in Screens /\ f.to \subseteq Screens
  BY DEF Screens
<1>4. 1 \in 1..3 /\ 3 \in 1..3
  OBVIOUS
<1>5. \A f \in AsyncFunctions : Len(f.awaits) \in 1..3
  BY <1>1, <1>2, <1>4, Zenon
<1>. QED
  BY <1>3, <1>5

LEMMA ScreensThere ==
  /\ {"password", "passkey", "code", "passkeys", "naming", "create"} \subseteq Screens
  /\ EntryScreens \subseteq Screens
<1>1. {OnSubmit, ConfirmWithPasskey, ConfirmWithRecoveryCode, Register, Accept} \subseteq AsyncFunctions
  BY DEF AsyncFunctions
<1>2. /\ OnSubmit.from = "password" /\ ConfirmWithPasskey.from = "passkey" /\ ConfirmWithRecoveryCode.from = "code"
      /\ Register.from = "naming" /\ Accept.from = "create" /\ Register.to = {"passkeys"}
  BY DEF OnSubmit, ConfirmWithPasskey, ConfirmWithRecoveryCode, Register, Accept
<1>3. EntryScreens \subseteq Screens
  BY DEF Screens
<1>4. \A f \in AsyncFunctions : f.from \in Screens /\ f.to \subseteq Screens
  BY LengthsOfFunctions
<1>5. /\ OnSubmit.from \in Screens /\ ConfirmWithPasskey.from \in Screens /\ ConfirmWithRecoveryCode.from \in Screens
      /\ Register.from \in Screens /\ Accept.from \in Screens /\ Register.to \subseteq Screens
  BY <1>1, <1>4
<1>6. /\ "password" \in Screens /\ "passkey" \in Screens /\ "code" \in Screens /\ "passkeys" \in Screens
      /\ "naming" \in Screens /\ "create" \in Screens
  BY <1>2, <1>5
<1>. QED
  BY <1>3, <1>6

LEMMA PagesTypedInit == PagesInit => PagesTypeOK
<1>. SUFFICES ASSUME PagesInit PROVE PagesTypeOK
  OBVIOUS
<1>0. 0 \in 0..MaxTries /\ 1 \in 1..3
  BY PagesBounds
<1>1. screen \in Screens /\ 0 \in 0..MaxTries /\ 1 \in 1..3
  BY <1>0, PagesBounds, ScreensThere DEF PagesInit
<1>2. Inspect \in AsyncFunctions
  BY DEF AsyncFunctions
<1>3. running \subseteq [f : AsyncFunctions, step : 1..3, n : 0..MaxTries]
  BY <1>1, <1>2 DEF PagesInit
<1>4. bar \in BOOLEAN /\ busy \in BOOLEAN /\ failed \in BOOLEAN
  BY Zenon DEF PagesInit
<1>. QED
  BY <1>1, <1>3, <1>4 DEF PagesInit, PagesTypeOK

LEMMA PagesTypedNext == PagesTypeOK /\ [PagesNext]_signInVars => PagesTypeOK'
<1>. SUFFICES ASSUME PagesTypeOK, [PagesNext]_signInVars PROVE PagesTypeOK'
  OBVIOUS
<1>1. CASE TypePassword \/ Disallow \/ LeavePage
  BY <1>1 DEF TypePassword, Disallow, LeavePage, PagesTypeOK
<1>2. CASE StartOver
  BY <1>2, ScreensThere DEF StartOver, PagesTypeOK
<1>3. ASSUME NEW f \in AsyncFunctions, Start(f) PROVE PagesTypeOK'
  <2>1. tries + 1 \in 0..MaxTries
    BY <1>3, PagesBounds DEF Start, PagesTypeOK
  <2>2. running' \subseteq [f : AsyncFunctions, step : 1..3, n : 0..MaxTries]
    BY <1>3, <2>1 DEF Start, PagesTypeOK
  <2>. QED
    BY <1>3, <2>1, <2>2 DEF Start, PagesTypeOK
<1>4. ASSUME NEW from \in Screens, NEW to \in Screens, Turn(from, to) PROVE PagesTypeOK'
  BY <1>4 DEF Turn, PagesTypeOK
<1>5. ASSUME NEW r \in running, Proceed(r) PROVE PagesTypeOK'
  <2>1. r \in [f : AsyncFunctions, step : 1..3, n : 0..MaxTries]
    BY DEF PagesTypeOK
  <2>2. r.step + 1 \in 1..3
    <3>1. Len(r.f.awaits) \in 1..3
      BY <2>1, LengthsOfFunctions
    <3>2. r.step \in 1..3 /\ r.step < Len(r.f.awaits)
      BY <1>5, <2>1 DEF Proceed
    <3>3. \A m, n \in 1..3 : m < n => m + 1 \in 1..3
      OBVIOUS
    <3>. QED
      BY <3>1, <3>2, <3>3
  <2>3. [r EXCEPT !.step = @ + 1] \in [f : AsyncFunctions, step : 1..3, n : 0..MaxTries]
    BY <2>1, <2>2
  <2>. QED
    BY <1>5, <2>3 DEF Proceed, PagesTypeOK
<1>6. ASSUME NEW r \in running, Fail(r) PROVE PagesTypeOK'
  <2>1. screen' \in Screens
    BY <1>6, ScreensThere DEF Fail, PagesTypeOK
  <2>2. typed' \in {"empty", "typed", "sent"}
    BY <1>6 DEF Fail, Afterwards, PagesTypeOK
  <2>3. busy' \in BOOLEAN
    BY <1>6, Zenon DEF Fail, Afterwards, StaysBusy, PagesTypeOK
  <2>4. bar' \in BOOLEAN
    BY <1>6, Zenon DEF Fail, KeepsLink, PagesTypeOK
  <2>5. running' \subseteq running /\ failed' \in BOOLEAN /\ UNCHANGED <<where, tries>>
    BY <1>6 DEF Fail, PagesTypeOK
  <2>. QED
    BY <2>1, <2>2, <2>3, <2>4, <2>5 DEF PagesTypeOK
<1>7. ASSUME NEW r \in running, NEW to \in r.f.to, Succeed(r, to) PROVE PagesTypeOK'
  <2>0. r \in [f : AsyncFunctions, step : 1..3, n : 0..MaxTries]
    BY DEF PagesTypeOK
  <2>1. to \in Screens
    <3>1. r.f \in AsyncFunctions
      BY <2>0
    <3>. QED
      BY <3>1, LengthsOfFunctions
  <2>2. screen' \in Screens
    BY <1>7, <2>1 DEF Succeed, PagesTypeOK
  <2>3. typed' \in {"empty", "typed", "sent"}
    BY <1>7 DEF Succeed, Afterwards, PagesTypeOK
  <2>4. busy' \in BOOLEAN
    BY <1>7, Zenon DEF Succeed, Afterwards, StaysBusy, PagesTypeOK
  <2>5. bar' \in BOOLEAN
    BY <1>7, Zenon DEF Succeed, KeepsLink, PagesTypeOK
  <2>6. running' \subseteq running /\ failed' \in BOOLEAN /\ UNCHANGED tries /\ where' \in {"here", "away", "/login"}
    BY <1>7 DEF Succeed, PagesTypeOK
  <2>. QED
    BY <2>2, <2>3, <2>4, <2>5, <2>6 DEF PagesTypeOK
<1>8. ASSUME NEW r \in running, Denied(r) PROVE PagesTypeOK'
  BY <1>8 DEF Denied, PagesTypeOK
<1>9. CASE UNCHANGED signInVars
  BY <1>9 DEF signInVars, PagesTypeOK
<1>. QED
  BY <1>1, <1>2, <1>3, <1>4, <1>5, <1>6, <1>7, <1>8, <1>9, ScreensThere DEF PagesNext

-----------------------------------------------------------------------------
(* Dialogs and row actions *)

Sent(q) == q = [call |-> q.call, mount |-> q.mount, visit |-> q.visit, core |-> q.core, answer |-> q.answer]

\* A component waits for the one request that has no answer; and where the form
\* cannot be closed meanwhile, it is still the opening that sent it.
Awaited(q) ==
  /\ pending
  /\ T.busy = {} => q.visit = visit /\ (open \/ kind \in {"codes", "passkey"})

WaitsForOne ==
  /\ \A a, b \in Unanswered : a = b
  /\ \A q \in Unanswered : Awaited(q)

FormInv ==
  /\ kind \in Forms /\ mount \in {1, 2} /\ visit \in Nat
  /\ \A q \in flight : Sent(q) /\ q.mount \in 1..mount
  /\ place = "page" => WaitsForOne

\* Only the panel of recovery codes sends without being opened.
OnlyCodes(f) == "direct" \in Traits[f].has => f = "codes"

LEMMA DirectForms == \A f \in Forms : OnlyCodes(f)
<1>1. OnlyCodes("rotate") /\ OnlyCodes("expiry") /\ OnlyCodes("secrets")
  BY DEF OnlyCodes, Traits, Forms, RotateSecretDialog, ChangeExpiryDialog, AddSecretsDialog
<1>2. OnlyCodes("token") /\ OnlyCodes("invite") /\ OnlyCodes("recovery")
  BY DEF OnlyCodes, Traits, Forms, CreateTokenDialog, InviteMemberDialog, IssueRecoveryDialog
<1>3. OnlyCodes("grant") /\ OnlyCodes("identity") /\ OnlyCodes("project")
  BY DEF OnlyCodes, Traits, Forms, GrantAccessDialog, CreateIdentityDialog, CreateProjectDialog
<1>4. OnlyCodes("signout") /\ OnlyCodes("revoke-identity") /\ OnlyCodes("passkey") /\ OnlyCodes("codes")
  BY DEF OnlyCodes, Traits, Forms, SignOutDialog, RevokeIdentityDialog, RemovePasskeyRow
<1>5. OnlyCodes("token-row") /\ OnlyCodes("member-row") /\ OnlyCodes("invitation-row")
      /\ OnlyCodes("grant-row") /\ OnlyCodes("organization")
  BY DEF OnlyCodes, Traits, Forms, TokenRow, MemberRow, InvitationRow, GrantRow,
         CreateFirstOrganizationForm
<1> QED
  BY <1>1, <1>2, <1>3, <1>4, <1>5 DEF Forms

LEMMA FormInitInv == FormInit => FormInv
BY KindsAssumption DEF FormInit, FormInv, WaitsForOne, Unanswered

\* What the reader does besides sending and closing.
LEMMA SameFlight ==
  ASSUME FormInv, flight' = flight, kind' = kind, mount' = mount, pending' = pending,
         place' = "page" => place = "page",
         \/ visit' = visit /\ (open => open')
         \/ visit' = visit + 1 /\ ~open /\ open' /\ (kind \in {"codes", "passkey"} => ~pending)
  PROVE  FormInv'
BY DEF FormInv, WaitsForOne, Unanswered, Awaited, T

LEMMA CloseInv ==
  ASSUME FormInv, NEW way, CloseForm(way)
  PROVE  FormInv'
<1>1. way \in (IF pending THEN T.busy ELSE T.idle) /\ place = "page" /\ place' = place
      /\ UNCHANGED <<kind, mount, visit, pending, flight>>
  BY DEF CloseForm, MayClose
<1>2. \A q \in Unanswered : Awaited(q)'
  BY <1>1 DEF FormInv, WaitsForOne, Awaited, T
<1> QED
  BY <1>1, <1>2 DEF FormInv, WaitsForOne, Unanswered

LEMMA SubmitInv ==
  ASSUME FormInv, Submit
  PROVE  FormInv'
<1>1. /\ pending' /\ ~pending /\ place = "page" /\ (open \/ "direct" \in T.has)
      /\ UNCHANGED <<kind, place, mount, open, visit>>
  BY DEF Submit, Pressable, OnScreen
<1>2. PICK q : /\ flight' = flight \cup {q} /\ Sent(q)
               /\ q.mount = mount /\ q.visit = visit /\ q.answer = "none"
  <2> DEFINE q == [call |-> Cardinality(flight) + 1, mount |-> mount, visit |-> visit,
                   core |-> "sent", answer |-> "none"]
  <2>1. flight' = flight \cup {q}
    BY DEF Submit
  <2>2. Sent(q) /\ q.mount = mount /\ q.visit = visit /\ q.answer = "none"
    BY DEF Sent
  <2> QED
    BY <2>1, <2>2
<1>3. Unanswered = {}
  BY <1>1 DEF FormInv, WaitsForOne, Awaited
<1>4. Unanswered' = {q}
  BY <1>1, <1>2, <1>3 DEF Unanswered
<1>5. open \/ kind = "codes"
  BY <1>1, DirectForms DEF OnlyCodes, T, FormInv
<1>6. Awaited(q)'
  BY <1>1, <1>2, <1>5 DEF Awaited, T
<1>7. WaitsForOne'
  BY <1>4, <1>6 DEF WaitsForOne
<1>8. \A a \in flight' : Sent(a) /\ a.mount \in 1..mount'
  BY <1>1, <1>2 DEF FormInv
<1> QED
  BY <1>1, <1>7, <1>8 DEF FormInv

LEMMA ReturnInv ==
  ASSUME FormInv, Return
  PROVE  FormInv'
<1>1. mount = 1 /\ mount' = 2 /\ flight' = flight /\ kind' = kind /\ visit' = 0
  BY DEF Return, Fresh, FormInv
<1>2. Unanswered' = {}
  BY <1>1 DEF Unanswered, FormInv
<1> QED
  BY <1>1, <1>2 DEF FormInv, WaitsForOne

\* A request takes the place of itself, carried out or refused by the core.
LEMMA PerformInv ==
  ASSUME FormInv, NEW q \in flight, Perform(q)
  PROVE  FormInv'
<1>1. PICK outcome : flight' = (flight \ {q}) \cup {[q EXCEPT !.core = outcome]}
  BY DEF Perform
<1> DEFINE r == [q EXCEPT !.core = outcome]
<1>2. Sent(q)
  BY DEF FormInv
<1>3. Sent(r) /\ r.mount = q.mount /\ r.visit = q.visit /\ r.answer = q.answer
  BY <1>2 DEF Sent
<1>4. UNCHANGED <<kind, place, mount, open, visit, pending>>
  BY DEF Perform
<1> HIDE DEF r
<1>5. flight' = (flight \ {q}) \cup {r}
  BY <1>1 DEF r
<1>6. \A a \in Unanswered' : IF a = r THEN q \in Unanswered ELSE a \in Unanswered /\ a # q
  BY <1>3, <1>4, <1>5 DEF Unanswered
<1>7. WaitsForOne => \A a, b \in Unanswered' : a = b
  BY <1>6 DEF WaitsForOne
<1>8. WaitsForOne => \A a \in Unanswered' : Awaited(a)'
  BY <1>3, <1>4, <1>6 DEF WaitsForOne, Awaited, T
<1> QED
  BY <1>3, <1>4, <1>5, <1>7, <1>8 DEF FormInv, WaitsForOne

\* The answer: its component waits no more; others were not waiting for it.
LEMMA SettleInv ==
  ASSUME FormInv, NEW q \in flight, NEW ok \in BOOLEAN, Settle(q, ok)
  PROVE  FormInv'
<1> DEFINE r == [q EXCEPT !.answer = IF ok THEN "ok" ELSE "failed"]
<1>1. Sent(q)
  BY DEF FormInv
<1>2. Sent(r) /\ r.mount = q.mount /\ r.answer # "none"
  BY <1>1 DEF Sent
<1>3. flight' = (flight \ {q}) \cup {r} /\ q.answer = "none" /\ UNCHANGED <<kind, mount, visit>>
  BY DEF Settle
<1> HIDE DEF r
<1>4. Unanswered' = Unanswered \ {q}
  BY <1>2, <1>3 DEF Unanswered
<1>5. place' = "page" => place = "page"
  BY DEF Settle, Goes
<1>6. CASE q.mount = mount
  <2>1. q \in Unanswered
    BY <1>3, <1>6 DEF Unanswered
  <2>2. place = "page" => Unanswered' = {}
    BY <1>4, <2>1 DEF FormInv, WaitsForOne
  <2> QED
    BY <1>2, <1>3, <1>5, <2>2 DEF FormInv, WaitsForOne
<1>7. CASE q.mount # mount
  <2>1. UNCHANGED <<open, pending>>
    BY <1>7 DEF Settle
  <2>2. WaitsForOne => WaitsForOne'
    BY <1>3, <1>4, <2>1 DEF WaitsForOne, Awaited, T
  <2> QED
    BY <1>2, <1>3, <1>5, <2>2 DEF FormInv
<1> QED
  BY <1>6, <1>7

LEMMA SessionEndsInv ==
  ASSUME FormInv, NEW q \in flight, SessionEnds(q)
  PROVE  FormInv'
<1> DEFINE r == [q EXCEPT !.answer = "failed"]
<1>1. Sent(q)
  BY DEF FormInv
<1>2. Sent(r) /\ r.mount = q.mount
  BY <1>1 DEF Sent
<1>3. flight' = (flight \ {q}) \cup {r} /\ place' = "loaded" /\ UNCHANGED <<kind, mount, visit>>
  BY DEF SessionEnds
<1> HIDE DEF r
<1> QED
  BY <1>2, <1>3 DEF FormInv

LEMMA FormNextInv == FormInv /\ [FormNext]_formVars => FormInv'
<1> SUFFICES ASSUME FormInv, [FormNext]_formVars PROVE FormInv'
  OBVIOUS
<1>1. CASE OpenForm
  BY <1>1, SameFlight DEF OpenForm
<1>2. CASE Type
  BY <1>2, SameFlight DEF Type
<1>3. CASE Submit
  BY <1>3, SubmitInv
<1>4. CASE FailCheck
  BY <1>4, SameFlight DEF FailCheck
<1>5. CASE Leave
  BY <1>5, SameFlight DEF Leave
<1>6. CASE Return
  BY <1>6, ReturnInv
<1>7. ASSUME NEW way, CloseForm(way) PROVE FormInv'
  BY <1>7, CloseInv
<1>8. ASSUME NEW q \in flight, Perform(q) \/ (\E ok \in BOOLEAN : Settle(q, ok)) \/ SessionEnds(q)
      PROVE  FormInv'
  BY <1>8, PerformInv, SettleInv, SessionEndsInv
<1>9. CASE UNCHANGED formVars
  BY <1>9, SameFlight DEF formVars
<1> QED
  BY <1>1, <1>2, <1>3, <1>4, <1>5, <1>6, <1>7, <1>8, <1>9 DEF FormNext

LEMMA FormInvSays == FormInv => OneRequestAtATime /\ AnswerMeetsItsVisit
<1>1. FormInv => OneRequestAtATime
  BY AtMostOne DEF FormInv, WaitsForOne, OneRequestAtATime
<1>2. FormInv => AnswerMeetsItsVisit
  BY DEF FormInv, WaitsForOne, Awaited, AnswerMeetsItsVisit
<1> QED
  BY <1>1, <1>2

-----------------------------------------------------------------------------
(* The types of a form *)

FormTyped == FormTypeOK /\ IsFiniteSet(flight)

LEMMA FormTypedInit == FormInit => FormTyped
<1>. SUFFICES ASSUME FormInit PROVE FormTyped
  OBVIOUS
<1>1. open \in BOOLEAN
  <2>1. open = (kind \in Inline)
    BY DEF FormInit
  <2>2. CASE kind \in Inline
    BY <2>1, <2>2
  <2>3. CASE kind \notin Inline
    BY <2>1, <2>3
  <2>. QED
    BY <2>2, <2>3
<1>2. IsFiniteSet(flight)
  BY FS_EmptySet DEF FormInit
<1>3. /\ kind \in Kinds /\ place \in {"page", "away", "loaded"} /\ mount \in 1..2 /\ visit \in 0..MaxVisits
      /\ draft \in 0..MaxVisits + 1 /\ shown \in 0..MaxVisits + 1 /\ err \in 0..MaxVisits
      /\ pending \in BOOLEAN /\ flight \subseteq Request
  <2>1. /\ kind \in Kinds /\ place = "page" /\ mount = 1 /\ visit = 0 /\ draft = 0
        /\ shown = 0 /\ err = 0 /\ pending = FALSE /\ flight = {}
    BY DEF FormInit
  <2>2. pending \in BOOLEAN /\ flight \subseteq Request
    BY <2>1
  <2>. QED
    BY <2>1, <2>2, FormBounds
<1>. QED
  BY <1>1, <1>2, <1>3 DEF FormTyped, FormTypeOK

\* A request that takes the place of another, and one that is added.
LEMMA FlightReplaced ==
  ASSUME FormTyped, NEW q \in flight, NEW r \in Request, flight' = (flight \ {q}) \cup {r}
  PROVE  flight' \subseteq Request /\ IsFiniteSet(flight')
BY FS_RemoveElement, FS_AddElement DEF FormTyped, FormTypeOK

LEMMA FormTypedNext == FormTyped /\ [FormNext]_formVars => FormTyped'
<1>. SUFFICES ASSUME FormTyped, [FormNext]_formVars PROVE FormTyped'
  OBVIOUS
<1>. USE FormBounds DEF FormTyped, FormTypeOK
<1>1. CASE OpenForm \/ Type \/ FailCheck \/ Leave
  <2>1. CASE OpenForm
    BY <2>1 DEF OpenForm
  <2>2. CASE Type
    BY <2>2 DEF Type
  <2>3. CASE FailCheck \/ Leave
    BY <2>3 DEF FailCheck, Leave
  <2>. QED
    BY <1>1, <2>1, <2>2, <2>3
<1>2. CASE Submit
  <2>1. Cardinality(flight) \in Nat
    BY FS_CardinalityType
  <2>2. PICK q \in Request : flight' = flight \cup {q}
    <3>. DEFINE q == [call |-> Cardinality(flight) + 1, mount |-> mount, visit |-> visit,
                      core |-> "sent", answer |-> "none"]
    <3>1. Cardinality(flight) + 1 \in 1..MaxPosts
      BY <1>2, <2>1 DEF Submit
    <3>2. q \in Request
      BY <3>1 DEF Request
    <3>3. flight' = flight \cup {q}
      BY <1>2 DEF Submit
    <3>. QED
      BY <3>2, <3>3
  <2>3. IsFiniteSet(flight')
    BY <2>2, FS_AddElement
  <2>. QED
    BY <1>2, <2>2, <2>3 DEF Submit
<1>3. CASE Return
  <2>1. open' = (kind \in Inline)
    BY <1>3 DEF Return, Fresh
  <2>2. open' \in BOOLEAN
    <3>1. CASE kind \in Inline
      BY <2>1, <3>1
    <3>2. CASE kind \notin Inline
      BY <2>1, <3>2
    <3>. QED
      BY <3>1, <3>2
  <2>3. /\ mount < 2 /\ place' = "page" /\ mount' = mount + 1 /\ visit' = 0 /\ draft' = 0 /\ shown' = 0
        /\ err' = 0 /\ pending' = FALSE /\ UNCHANGED <<kind, flight>>
    BY <1>3 DEF Return, Fresh
  <2>4. pending' \in BOOLEAN /\ flight' \subseteq Request /\ IsFiniteSet(flight')
    BY <2>3
  <2>5. mount' \in 1..2 /\ place' \in {"page", "away", "loaded"} /\ kind' \in Kinds
    BY <2>3
  <2>6. visit' \in 0..MaxVisits /\ draft' \in 0..MaxVisits + 1 /\ shown' \in 0..MaxVisits + 1
        /\ err' \in 0..MaxVisits
    BY <2>3
  <2>. QED
    BY <2>2, <2>4, <2>5, <2>6
<1>4. ASSUME NEW way, CloseForm(way) PROVE FormTyped'
  <2>1. /\ open' = FALSE /\ draft' \in {0, draft} /\ shown' \in {0, shown} /\ err' \in {0, err}
        /\ UNCHANGED <<kind, place, mount, visit, pending, flight>>
    BY <1>4 DEF CloseForm
  <2>2. open' \in BOOLEAN /\ pending' \in BOOLEAN /\ flight' \subseteq Request /\ IsFiniteSet(flight')
    BY <2>1
  <2>3. /\ kind' \in Kinds /\ place' \in {"page", "away", "loaded"} /\ mount' \in 1..2
        /\ visit' \in 0..MaxVisits
    BY <2>1
  <2>4. draft' \in 0..MaxVisits + 1 /\ shown' \in 0..MaxVisits + 1 /\ err' \in 0..MaxVisits
    BY <2>1
  <2>. QED
    BY <2>2, <2>3, <2>4
<1>5. ASSUME NEW q \in flight, Perform(q) PROVE FormTyped'
  <2>1. PICK outcome \in {"done", "refused"} : flight' = (flight \ {q}) \cup {[q EXCEPT !.core = outcome]}
    BY <1>5 DEF Perform
  <2>2. [q EXCEPT !.core = outcome] \in Request
    BY DEF Request
  <2>3. flight' \subseteq Request /\ IsFiniteSet(flight')
    BY <2>1, <2>2, FlightReplaced
  <2>. QED
    BY <1>5, <2>3 DEF Perform
<1>6. ASSUME NEW q \in flight, NEW ok \in BOOLEAN, Settle(q, ok) PROVE FormTyped'
  <2>. DEFINE r == [q EXCEPT !.answer = IF ok THEN "ok" ELSE "failed"]
  <2>1. r \in Request /\ q.visit \in 0..MaxVisits
    BY DEF Request
  <2>2. flight' = (flight \ {q}) \cup {r}
    BY <1>6 DEF Settle
  <2>. HIDE DEF r
  <2>3. flight' \subseteq Request /\ IsFiniteSet(flight')
    BY <2>1, <2>2, FlightReplaced
  <2>4. place' \in {"page", "away", "loaded"} /\ UNCHANGED <<kind, mount, visit>>
    BY <1>6 DEF Settle, Goes
  <2>5. draft' \in {0, draft} /\ shown' \in {q.visit + 1, shown} /\ err' \in {visit, err}
    BY <1>6 DEF Settle
  <2>6. open' \in BOOLEAN
    BY <1>6, Zenon DEF Settle
  <2>7. pending' \in BOOLEAN
    BY <1>6, Zenon DEF Settle, StaysPending
  <2>. QED
    BY <2>1, <2>3, <2>4, <2>5, <2>6, <2>7
<1>7. ASSUME NEW q \in flight, SessionEnds(q) PROVE FormTyped'
  <2>1. [q EXCEPT !.answer = "failed"] \in Request
    BY DEF Request
  <2>2. flight' \subseteq Request /\ IsFiniteSet(flight')
    BY <1>7, <2>1, FlightReplaced DEF SessionEnds
  <2>. QED
    BY <1>7, <2>2 DEF SessionEnds
<1>8. CASE UNCHANGED formVars
  BY <1>8 DEF formVars
<1>. QED
  BY <1>1, <1>2, <1>3, <1>4, <1>5, <1>6, <1>7, <1>8 DEF FormNext

-----------------------------------------------------------------------------
(* What creates something does so once per opening *)

\* Success closes the form, replaces it by the result, or loads a new document;
\* and it is sent from an open form only.
EndsItself(f) == "direct" \notin Traits[f].has /\ {"close", "show", "load"} \cap Traits[f].success # {}

LEMMA CreatingForms == \A f \in Creating : EndsItself(f)
<1>1. EndsItself("rotate") /\ EndsItself("secrets") /\ EndsItself("token") /\ EndsItself("invite")
  BY DEF EndsItself, Traits, Forms, RotateSecretDialog, AddSecretsDialog, CreateTokenDialog, InviteMemberDialog
<1>2. EndsItself("grant") /\ EndsItself("identity") /\ EndsItself("project") /\ EndsItself("organization")
  BY DEF EndsItself, Traits, Forms, GrantAccessDialog, CreateIdentityDialog, CreateProjectDialog,
         CreateFirstOrganizationForm
<1>. QED
  BY <1>1, <1>2 DEF Creating

\* The requests of one opening.
Together(a, b) == a.mount = b.mount /\ a.visit = b.visit

\* All requests of one opening but one have failed; and where one succeeded,
\* its form is no longer there to send another.
OnceEach ==
  /\ \A a, b \in flight : Together(a, b) /\ a.answer # "failed" /\ b.answer # "failed" => a = b
  /\ place = "page" =>
       \A q \in flight : q.mount = mount /\ q.visit = visit /\ q.answer = "ok" => ~open \/ shown # 0

OnceInv ==
  /\ \A q \in flight : q.mount = mount => q.visit <= visit
  /\ kind \in Creating => OnceEach

\* What the reader does besides sending.
LEMMA SameOnce ==
  ASSUME FormInv, FormTyped, OnceInv, flight' = flight, kind' = kind, mount' = mount,
         place' = "page" => place = "page",
         \/ visit' = visit /\ (open' => open /\ (shown' = 0 => shown = 0))
         \/ visit' = visit + 1
  PROVE  OnceInv'
<1>1. \A q \in flight : q.visit \in Nat /\ (q.mount = mount => q.visit <= visit)
  BY DEF OnceInv, FormTyped, FormTypeOK, Request
<1>2. visit \in Nat
  BY DEF FormInv
<1>3. OnceEach => OnceEach'
  <2>1. CASE visit' = visit /\ (open' => open /\ (shown' = 0 => shown = 0))
    BY <2>1 DEF OnceEach, Together
  <2>2. CASE visit' = visit + 1
    BY <1>1, <1>2, <2>2 DEF OnceEach, Together
  <2>. QED
    BY <2>1, <2>2
<1>. QED
  BY <1>1, <1>2, <1>3 DEF OnceInv

LEMMA SubmitOnce ==
  ASSUME FormInv, FormTyped, OnceInv, Submit
  PROVE  OnceInv'
<1>1. /\ ~pending /\ place = "page" /\ shown = 0 /\ (open \/ "direct" \in T.has)
      /\ UNCHANGED <<kind, place, mount, open, visit, shown>>
  BY DEF Submit, Pressable, OnScreen
<1>2. PICK q : /\ flight' = flight \cup {q}
               /\ q.mount = mount /\ q.visit = visit /\ q.answer = "none"
  <2>. DEFINE q == [call |-> Cardinality(flight) + 1, mount |-> mount, visit |-> visit,
                    core |-> "sent", answer |-> "none"]
  <2>1. flight' = flight \cup {q}
    BY DEF Submit
  <2>2. q.mount = mount /\ q.visit = visit /\ q.answer = "none"
    OBVIOUS
  <2>. QED
    BY <2>1, <2>2
<1>3. visit \in Nat /\ \A a \in flight : a.mount = mount => a.answer # "none"
  BY <1>1 DEF FormInv, WaitsForOne, Awaited, Unanswered
<1>4. \A a \in flight' : a.mount = mount' => a.visit <= visit'
  BY <1>1, <1>2, <1>3 DEF OnceInv
<1>5. \A a \in flight : a.answer \in {"none", "ok", "failed"}
  BY DEF FormTyped, FormTypeOK, Request
<1>6. ASSUME kind \in Creating
      PROVE  OnceEach'
  <2>1. open
    BY <1>1, <1>6, CreatingForms DEF EndsItself, T
  <2>2. \A a \in flight : Together(a, q) => a.answer = "failed"
    BY <1>1, <1>2, <1>3, <1>5, <1>6, <2>1 DEF OnceInv, OnceEach, Together
  <2>. QED
    BY <1>1, <1>2, <1>6, <2>2 DEF OnceInv, OnceEach, Together
<1>. QED
  BY <1>1, <1>4, <1>6 DEF OnceInv

LEMMA ReturnOnce ==
  ASSUME FormInv, FormTyped, OnceInv, Return
  PROVE  OnceInv'
<1>1. mount' = 2 /\ flight' = flight /\ kind' = kind /\ \A q \in flight : q.mount # mount'
  BY DEF Return, FormInv
<1>. QED
  BY <1>1 DEF OnceInv, OnceEach, Together

\* A request keeps its place among the others of its opening.
LEMMA ReplacedOnce ==
  ASSUME FormInv, FormTyped, OnceInv, NEW q \in flight, NEW r, flight' = (flight \ {q}) \cup {r},
         Together(r, q), q.answer = "none" \/ r.answer = q.answer,
         UNCHANGED <<kind, mount, visit>>,
         place' = "page" =>
           /\ place = "page" /\ (open' => open)
           /\ open' /\ shown' = 0 => shown = 0
           /\ r.answer = "ok" /\ r.answer # q.answer /\ q.mount = mount /\ kind \in Creating => ~open' \/ shown' # 0
  PROVE  OnceInv'
<1>1. \A a \in flight' : a.mount = mount' => a.visit <= visit'
  BY DEF OnceInv, Together
<1>2. ASSUME kind \in Creating
      PROVE  OnceEach'
  <2>1. q.answer # "failed" \/ r.answer = q.answer
    OBVIOUS
  <2>2. \A a \in flight' : \/ a \in flight /\ a # q
                          \/ a = r
    OBVIOUS
  <2>3. \A a, b \in flight' : Together(a, b) /\ a.answer # "failed" /\ b.answer # "failed" => a = b
    BY <1>2, <2>1, <2>2 DEF OnceInv, OnceEach, Together
  <2>4. ASSUME place' = "page", NEW a \in flight', a.mount = mount, a.visit = visit, a.answer = "ok"
        PROVE  ~open' \/ shown' # 0
    BY <1>2, <2>2, <2>4 DEF OnceInv, OnceEach, Together
  <2>. QED
    BY <2>3, <2>4 DEF OnceEach
<1>. QED
  BY <1>1, <1>2 DEF OnceInv

LEMMA SettleOnce ==
  ASSUME FormInv, FormTyped, OnceInv, NEW q \in flight, NEW ok \in BOOLEAN, Settle(q, ok)
  PROVE  OnceInv'
<1>. DEFINE r == [q EXCEPT !.answer = IF ok THEN "ok" ELSE "failed"]
<1>1. q \in Request
  BY DEF FormTyped, FormTypeOK
<1>2. Together(r, q) /\ r.answer = IF ok THEN "ok" ELSE "failed"
  BY <1>1 DEF Together, Request
<1>3. flight' = (flight \ {q}) \cup {r} /\ q.answer = "none" /\ UNCHANGED <<kind, mount, visit>>
  BY DEF Settle
<1>. HIDE DEF r
<1>4. ASSUME place' = "page"
      PROVE  place = "page" /\ "load" \notin T.always \cup (IF ok THEN T.success ELSE {})
  BY <1>4 DEF Settle, Goes
<1>5. ASSUME place' = "page"
      PROVE  (open' => open) /\ (open' /\ shown' = 0 => shown = 0)
  <2>1. q.visit + 1 # 0
    BY <1>1 DEF Request
  <2>. QED
    BY <1>4, <1>5, <2>1 DEF Settle
<1>6. ASSUME place' = "page", r.answer = "ok", q.mount = mount, kind \in Creating
      PROVE  ~open' \/ shown' # 0
  <2>1. ok /\ place = "page"
    BY <1>2, <1>4, <1>6
  <2>2. "close" \in T.success \/ "show" \in T.success
    BY <1>4, <1>6, <2>1, CreatingForms DEF EndsItself, T
  <2>3. q.visit + 1 # 0
    BY <1>1 DEF Request
  <2>. QED
    BY <1>6, <2>1, <2>2, <2>3 DEF Settle
<1>. QED
  BY <1>2, <1>3, <1>4, <1>5, <1>6, ReplacedOnce

LEMMA OnceNext == FormInv /\ FormTyped /\ OnceInv /\ [FormNext]_formVars => OnceInv'
<1>. SUFFICES ASSUME FormInv, FormTyped, OnceInv, [FormNext]_formVars PROVE OnceInv'
  OBVIOUS
<1>1. CASE OpenForm
  BY <1>1, SameOnce DEF OpenForm
<1>2. CASE Type \/ FailCheck \/ Leave
  BY <1>2, SameOnce DEF Type, FailCheck, Leave
<1>3. CASE Submit
  BY <1>3, SubmitOnce
<1>4. CASE Return
  BY <1>4, ReturnOnce
<1>5. ASSUME NEW way, CloseForm(way) PROVE OnceInv'
  BY <1>5, SameOnce DEF CloseForm
<1>6. ASSUME NEW q \in flight, Perform(q) \/ SessionEnds(q) PROVE OnceInv'
  <2>1. q \in Request
    BY DEF FormTyped, FormTypeOK
  <2>2. CASE Perform(q)
    <3>1. PICK outcome : flight' = (flight \ {q}) \cup {[q EXCEPT !.core = outcome]}
      BY <2>2 DEF Perform
    <3>. DEFINE r == [q EXCEPT !.core = outcome]
    <3>2. Together(r, q) /\ r.answer = q.answer
      BY <2>1 DEF Together, Request
    <3>. QED
      BY <2>2, <3>1, <3>2, ReplacedOnce DEF Perform
  <2>3. CASE SessionEnds(q)
    <3>. DEFINE r == [q EXCEPT !.answer = "failed"]
    <3>1. Together(r, q)
      BY <2>1 DEF Together, Request
    <3>. QED
      BY <2>3, <3>1, ReplacedOnce DEF SessionEnds
  <2>. QED
    BY <1>6, <2>2, <2>3
<1>7. ASSUME NEW q \in flight, NEW ok \in BOOLEAN, Settle(q, ok) PROVE OnceInv'
  BY <1>7, SettleOnce
<1>8. CASE UNCHANGED formVars
  BY <1>8, SameOnce DEF formVars
<1>. QED
  BY <1>1, <1>2, <1>3, <1>4, <1>5, <1>6, <1>7, <1>8 DEF FormNext

LEMMA OnceInitInv == FormInit => OnceInv
BY DEF FormInit, OnceInv, OnceEach

LEMMA OnceInvSays == FormTyped /\ OnceInv => CreatedOnce
<1>. SUFFICES ASSUME FormTyped, OnceInv, kind \in Creating, NEW m \in 1..2, NEW v \in 0..MaxVisits
              PROVE  LET mine == {q \in flight : q.mount = m /\ q.visit = v}
                     IN  Cardinality({q \in mine : q.core = "done"})
                           <= 1 + Cardinality({q \in mine : q.answer = "failed"})
  BY DEF CreatedOnce
<1>. DEFINE mine   == {q \in flight : q.mount = m /\ q.visit = v}
            done   == {q \in mine : q.core = "done"}
            lost   == {q \in mine : q.answer = "failed"}
            others == {q \in mine : q.answer # "failed"}
<1>1. IsFiniteSet(lost) /\ IsFiniteSet(others) /\ IsFiniteSet(lost \cup others)
  <2>1. lost \subseteq flight /\ others \subseteq flight
    OBVIOUS
  <2>. QED
    BY <2>1, FS_Subset, FS_Union DEF FormTyped
<1>2. Cardinality(others) <= 1
  <2>1. \A a, b \in others : a = b
    BY DEF OnceInv, OnceEach, Together
  <2>. QED
    BY <2>1, AtMostOne
<1>3. Cardinality(done) <= Cardinality(lost \cup others)
  <2>1. done \in SUBSET (lost \cup others)
    OBVIOUS
  <2>. QED
    BY <1>1, <2>1, FS_Subset
<1>4. Cardinality(lost \cap others) = 0
  <2>1. lost \cap others = {}
    OBVIOUS
  <2>. QED
    BY <2>1, FS_EmptySet
<1>5. Cardinality(lost \cup others) = Cardinality(lost) + Cardinality(others)
  <2>1. Cardinality(lost \cup others) = Cardinality(lost) + Cardinality(others) - Cardinality(lost \cap others)
    BY <1>1, FS_Union
  <2>2. Cardinality(lost) \in Nat /\ Cardinality(others) \in Nat
    BY <1>1, FS_CardinalityType
  <2>. HIDE DEF lost, others
  <2>. QED
    BY <1>4, <2>1, <2>2
<1>6. Cardinality(lost) \in Nat /\ Cardinality(others) \in Nat /\ Cardinality(done) \in Nat
  <2>1. IsFiniteSet(done)
    BY <1>1, FS_Subset
  <2>. QED
    BY <1>1, <2>1, FS_CardinalityType
<1>. HIDE DEF done, lost, others
<1>7. Cardinality(done) <= 1 + Cardinality(lost)
  BY <1>2, <1>3, <1>5, <1>6
<1>. QED
  BY <1>7 DEF done, lost

-----------------------------------------------------------------------------
(* The environment page *)

RowRecord == [pending : BOOLEAN, value : Nat, countdown : Nat, timers : Nat]

RevealRecord == [id : Nat, secret : Secrets, own : BOOLEAN, at : {"core", "done"}, value : Nat]

Own(s) == {q \in reveals : q.own /\ q.secret = s}

\* A row that waits shows nothing, is on the page and has one reveal of its own;
\* a value is on the page and has one interval.
RowFits(s) ==
  /\ row[s].value # 0 => s \in Rows(listing, matching) /\ row[s].timers = 1 /\ row[s].countdown >= 1
  /\ row[s].value = 0 => row[s].timers = 0
  /\ row[s].pending => row[s].value = 0 /\ s \in Rows(listing, matching) /\ \E q : Own(s) = {q}
  /\ ~row[s].pending => Own(s) = {}

PageTyped ==
  /\ row \in [Secrets -> RowRecord] /\ reveals \subseteq RevealRecord /\ asked \in Nat
  /\ current \in [Secrets -> Nat]

PageInv == PageTyped /\ \A s \in Secrets : RowFits(s)

LEMMA FreshTyped == FreshRow \in RowRecord /\ FreshRow.value = 0 /\ FreshRow.timers = 0 /\ ~FreshRow.pending
BY DEF FreshRow, RowRecord

LEMMA PageInitInv == PageInit => PageInv
<1> SUFFICES ASSUME PageInit PROVE PageInv
  OBVIOUS
<1>1. PageTyped
  BY FreshTyped DEF PageInit, PageTyped
<1>2. \A s \in Secrets : row[s] = FreshRow /\ Own(s) = {}
  BY DEF PageInit, Own
<1> QED
  BY <1>1, <1>2, FreshTyped DEF PageInv, RowFits

\* A render: the rows that stay keep their state and their reveals.
LEMMA RenderInv ==
  ASSUME PageInv, NEW listed, listed \subseteq Rows(listing', matching'),
         listed \in {{}, Rows(listing', matching')},
         row' = RowsAfter(listed), reveals' = Orphaned(listed), current' = current, asked' = asked
  PROVE  PageInv'
<1> DEFINE After(q) == [q EXCEPT !.own = @ /\ q.secret \in listed]
<1>1. \A q \in reveals : After(q) \in RevealRecord /\ After(q).secret = q.secret
                         /\ (After(q).own <=> q.own /\ q.secret \in listed)
                         /\ (q.secret \in listed => After(q) = q)
  <2> SUFFICES ASSUME NEW q \in reveals
               PROVE  /\ After(q) \in RevealRecord /\ After(q).secret = q.secret
                      /\ (After(q).own <=> q.own /\ q.secret \in listed)
                      /\ (q.secret \in listed => After(q) = q)
    OBVIOUS
  <2> q \in RevealRecord
    BY DEF PageInv, PageTyped
  <2> QED
    BY DEF RevealRecord
<1>2. reveals' = {After(q) : q \in reveals}
  BY DEF Orphaned
<1> HIDE DEF After
<1>3. \A s \in listed : Own(s)' = Own(s)
  BY <1>1, <1>2 DEF Own
<1>4. \A s \in Secrets \ listed : Own(s)' = {}
  BY <1>1, <1>2 DEF Own
<1>5. PageTyped'
  <2>1. row' \in [Secrets -> RowRecord]
    BY FreshTyped DEF RowsAfter, PageInv, PageTyped
  <2> QED
    BY <1>1, <1>2, <2>1 DEF PageInv, PageTyped
<1>6. ASSUME NEW s \in Secrets PROVE RowFits(s)'
  <2>1. CASE s \in listed
    <3>1. row'[s] = row[s] /\ Own(s)' = Own(s)
      BY <1>3, <2>1 DEF RowsAfter
    <3> QED
      BY <2>1, <3>1 DEF PageInv, RowFits
  <2>2. CASE s \notin listed
    <3>1. row'[s] = FreshRow /\ Own(s)' = {}
      BY <1>4, <2>2 DEF RowsAfter
    <3> QED
      BY <3>1, FreshTyped DEF RowFits
  <2> QED
    BY <2>1, <2>2
<1> QED
  BY <1>5, <1>6 DEF PageInv

\* What changes the core, or where the page is going, and no row.
LEMMA SameRows ==
  ASSUME PageInv, row' = row, reveals' = reveals, listing' = listing, matching' = matching,
         asked' = asked, current' \in [Secrets -> Nat]
  PROVE  PageInv'
<1>1. \A s : Own(s)' = Own(s)
  BY DEF Own
<1> QED
  BY <1>1 DEF PageInv, PageTyped, RowFits

\* One row changes, and at most its own reveals.
LEMMA OneRow ==
  ASSUME PageInv, PageTyped', NEW s \in Secrets, listing' = listing, matching' = matching,
         \A t \in Secrets \ {s} : row'[t] = row[t] /\ Own(t)' = Own(t),
         RowFits(s)'
  PROVE  PageInv'
<1> SUFFICES ASSUME NEW t \in Secrets \ {s} PROVE RowFits(t)'
  BY DEF PageInv
<1> QED
  BY DEF PageInv, RowFits

LEMMA AskInv ==
  ASSUME PageInv, NEW s \in Secrets, AskReveal(s)
  PROVE  PageInv'
<1> DEFINE q == [id |-> asked + 1, secret |-> s, own |-> TRUE, at |-> "core", value |-> 0]
<1>1. q \in RevealRecord /\ asked + 1 \in Nat
  BY DEF RevealRecord, PageInv, PageTyped
<1>2. row[s] \in RowRecord /\ row \in [Secrets -> RowRecord]
  BY DEF PageInv, PageTyped
<1>3. row[s].value = 0 /\ ~row[s].pending /\ s \in Rows(listing, matching)
  BY DEF AskReveal, RevealOffered
<1> DEFINE r == [row[s] EXCEPT !.pending = TRUE]
<1>4. row' = [row EXCEPT ![s] = r] /\ reveals' = reveals \cup {q} /\ asked' = asked + 1
      /\ UNCHANGED <<listing, matching, current>>
  BY DEF AskReveal
<1>5. r \in RowRecord /\ r.value = row[s].value /\ r.timers = row[s].timers /\ r.pending
  BY <1>2 DEF RowRecord
<1>6. q.own /\ q.secret = s
  OBVIOUS
<1> HIDE DEF q, r
<1>7. PICK p, x : p = q /\ x = r
  OBVIOUS
<1>8. PageTyped'
  BY <1>1, <1>2, <1>4, <1>5 DEF PageInv, PageTyped
<1>9. Own(s) = {}
  BY <1>3 DEF PageInv, RowFits
<1>10. Own(s)' = {p} /\ \A t \in Secrets \ {s} : Own(t)' = Own(t)
  BY <1>4, <1>6, <1>7, <1>9 DEF Own
<1>11. row'[s] = x /\ \A t \in Secrets \ {s} : row'[t] = row[t]
  BY <1>2, <1>4, <1>7
<1>12. RowFits(s)'
  BY <1>3, <1>4, <1>5, <1>7, <1>10, <1>11 DEF RowFits, PageInv
<1> QED
  BY <1>4, <1>8, <1>10, <1>11, <1>12, OneRow

LEMMA ServeInv ==
  ASSUME PageInv, NEW q \in reveals, ServeReveal(q)
  PROVE  PageInv'
<1>1. PICK v \in {0} \cup {current[q.secret]} : reveals' = (reveals \ {q}) \cup {[q EXCEPT !.at = "done", !.value = v]}
  BY DEF ServeReveal
<1> DEFINE d == [q EXCEPT !.at = "done", !.value = v]
<1>2. q \in RevealRecord /\ v \in Nat
  BY DEF PageInv, PageTyped, RevealRecord
<1>3. d \in RevealRecord /\ d.own = q.own /\ d.secret = q.secret
  BY <1>2 DEF RevealRecord
<1>4. reveals' = (reveals \ {q}) \cup {d}
  BY <1>1
<1>5. UNCHANGED <<row, listing, matching, current, asked>>
  BY DEF ServeReveal
<1> HIDE DEF d
<1>6. PageTyped'
  BY <1>3, <1>4, <1>5 DEF PageInv, PageTyped
<1>7. ASSUME NEW s \in Secrets PROVE RowFits(s)'
  <2>1. CASE q.own /\ q.secret = s
    <3>1. Own(s)' = (Own(s) \ {q}) \cup {d} /\ q \in Own(s)
      BY <1>3, <1>4, <2>1 DEF Own
    <3>2. row[s].pending /\ Own(s) = {q}
      BY <3>1 DEF PageInv, RowFits
    <3>3. Own(s)' = {d}
      BY <3>1, <3>2
    <3> QED
      BY <1>5, <3>2, <3>3 DEF PageInv, RowFits
  <2>2. CASE ~(q.own /\ q.secret = s)
    <3>1. Own(s)' = Own(s)
      BY <1>3, <1>4, <2>2 DEF Own
    <3> QED
      BY <1>5, <3>1 DEF PageInv, RowFits
  <2> QED
    BY <2>1, <2>2
<1> QED
  BY <1>6, <1>7 DEF PageInv

LEMMA RevealedFits ==
  ASSUME NEW r \in RowRecord, NEW v \in Nat, r.value = 0, r.timers = 0
  PROVE  /\ Revealed(r, v) \in RowRecord /\ ~Revealed(r, v).pending
         /\ Revealed(r, v).value = v
         /\ v = 0 => Revealed(r, v).timers = 0
         /\ v # 0 => Revealed(r, v).timers = 1 /\ Revealed(r, v).countdown >= 1
<1>1. RevealSeconds \in Nat /\ RevealSeconds >= 1
  BY PageBounds
<1>2. CASE v = 0
  BY <1>2 DEF Revealed, RowRecord
<1>3. CASE v # 0
  <2> DEFINE new == [pending |-> FALSE, value |-> v, countdown |-> RevealSeconds, timers |-> 1]
  <2>1. Revealed(r, v) = new
    BY <1>3 DEF Revealed
  <2>2. new \in RowRecord
    BY <1>1 DEF RowRecord
  <2> QED
    BY <1>1, <1>3, <2>1, <2>2
<1> QED
  BY <1>2, <1>3

LEMMA TickedFits ==
  ASSUME NEW r \in RowRecord, r.value # 0, r.timers = 1, r.countdown >= 1, ~r.pending
  PROVE  /\ Ticked(r) \in RowRecord /\ ~Ticked(r).pending
         /\ Ticked(r).value = 0 => Ticked(r).timers = 0
         /\ Ticked(r).value # 0 => Ticked(r).timers = 1 /\ Ticked(r).countdown >= 1
<1>1. CASE r.countdown <= 1
  <2>1. Ticked(r) = [r EXCEPT !.value = 0, !.countdown = 0, !.timers = 0]
    BY <1>1 DEF Ticked, RowRecord
  <2>2. Ticked(r) \in RowRecord
    <3>1. 0 \in Nat
      OBVIOUS
    <3>2. \A a, b, c \in Nat : [r EXCEPT !.value = a, !.countdown = b, !.timers = c] \in RowRecord
      BY Zenon DEF RowRecord
    <3> QED
      BY <2>1, <3>1, <3>2
  <2>3. Ticked(r).value = 0 /\ Ticked(r).timers = 0
    BY <2>1 DEF RowRecord
  <2>4. Ticked(r).pending = r.pending
    BY <2>1 DEF RowRecord
  <2> QED
    BY <2>2, <2>3, <2>4
<1>2. CASE ~(r.countdown <= 1)
  <2>1. Ticked(r) = [r EXCEPT !.countdown = r.countdown - 1] /\ r.countdown - 1 \in Nat
    BY <1>2 DEF Ticked, RowRecord
  <2>2. /\ Ticked(r) \in RowRecord /\ Ticked(r).value = r.value /\ Ticked(r).timers = 1
        /\ ~Ticked(r).pending /\ Ticked(r).countdown = r.countdown - 1
    BY <2>1 DEF RowRecord
  <2>3. r.countdown - 1 >= 1
    BY <1>2 DEF RowRecord
  <2> QED
    BY <2>2, <2>3
<1> QED
  BY <1>1, <1>2

LEMMA AnsweredInv ==
  ASSUME PageInv, NEW q \in reveals, RevealAnswered(q)
  PROVE  PageInv'
<1> DEFINE s == q.secret
<1>1. s \in Secrets /\ q.value \in Nat /\ row[s] \in RowRecord /\ row \in [Secrets -> RowRecord]
  BY DEF PageInv, PageTyped, RevealRecord
<1>2. /\ reveals' = reveals \ {q} /\ UNCHANGED <<listing, matching, current, asked>>
      /\ row' = IF q.own THEN [row EXCEPT ![s] = Revealed(row[s], q.value)] ELSE row
  BY DEF RevealAnswered
<1>3. \A t \in Secrets \ {s} : Own(t)' = Own(t)
  BY <1>2 DEF Own
<1>4. CASE ~q.own
  <2>1. Own(s)' = Own(s)
    BY <1>2, <1>4 DEF Own
  <2>2. PageTyped'
    BY <1>2, <1>4 DEF PageInv, PageTyped
  <2> QED
    BY <1>2, <1>3, <1>4, <2>1, <2>2 DEF PageInv, RowFits
<1>5. CASE q.own
  <2>1. q \in Own(s)
    BY <1>5 DEF Own
  <2>2. row[s].value = 0 /\ row[s].timers = 0 /\ s \in Rows(listing, matching) /\ Own(s) = {q}
    BY <1>1, <2>1 DEF PageInv, RowFits
  <2>3. Own(s)' = {}
    BY <1>2, <2>2 DEF Own
  <2>4. PICK r : r = Revealed(row[s], q.value)
    OBVIOUS
  <2>5. /\ r \in RowRecord /\ ~r.pending /\ r.value = q.value
        /\ q.value = 0 => r.timers = 0
        /\ q.value # 0 => r.timers = 1 /\ r.countdown >= 1
    BY <1>1, <2>2, <2>4, RevealedFits
  <2>6. row' = [row EXCEPT ![s] = r]
    BY <1>2, <1>5, <2>4
  <2>7. PageTyped'
    BY <1>1, <1>2, <2>5, <2>6 DEF PageInv, PageTyped
  <2>8. row'[s] = r /\ \A t \in Secrets \ {s} : row'[t] = row[t]
    BY <1>1, <2>6
  <2>9. RowFits(s)'
    BY <1>2, <2>2, <2>3, <2>5, <2>8 DEF RowFits
  <2> QED
    BY <1>1, <1>2, <1>3, <2>7, <2>8, <2>9, OneRow
<1> QED
  BY <1>4, <1>5

LEMMA TickInv ==
  ASSUME PageInv, NEW s \in Secrets, Tick(s)
  PROVE  PageInv'
<1>1. row[s] \in RowRecord /\ row \in [Secrets -> RowRecord]
  BY DEF PageInv, PageTyped
<1>2. row[s].timers > 0
  BY DEF Tick
<1>3. row[s].value # 0 /\ row[s].timers = 1 /\ row[s].countdown >= 1 /\ ~row[s].pending
      /\ s \in Rows(listing, matching) /\ Own(s) = {}
  BY <1>1, <1>2 DEF PageInv, RowFits
<1>4. PICK r : r = Ticked(row[s])
  OBVIOUS
<1>5. /\ r \in RowRecord /\ ~r.pending
      /\ r.value = 0 => r.timers = 0
      /\ r.value # 0 => r.timers = 1 /\ r.countdown >= 1
  BY <1>1, <1>3, <1>4, TickedFits
<1>6. row' = [row EXCEPT ![s] = r] /\ UNCHANGED <<reveals, listing, matching, current, asked>>
  BY <1>4 DEF Tick
<1>7. PageTyped'
  BY <1>1, <1>5, <1>6 DEF PageInv, PageTyped
<1>8. \A t : Own(t)' = Own(t)
  BY <1>6 DEF Own
<1>9. row'[s] = r /\ \A t \in Secrets \ {s} : row'[t] = row[t]
  BY <1>1, <1>6
<1>10. RowFits(s)'
  BY <1>3, <1>5, <1>6, <1>8, <1>9 DEF RowFits
<1> QED
  BY <1>6, <1>7, <1>8, <1>9, <1>10, OneRow

LEMMA PageNextInv == PageInv /\ [PageNext]_pageVars => PageInv'
<1> SUFFICES ASSUME PageInv, [PageNext]_pageVars PROVE PageInv'
  OBVIOUS
<1>1. current \in [Secrets -> Nat] /\ \A s \in Secrets : current[s] + 1 \in Nat
  BY DEF PageInv, PageTyped
<1>2. ASSUME NEW filter, Filter(filter) PROVE PageInv'
  BY <1>2, RenderInv DEF Filter, Rerender
<1>3. CASE RenderPage
  BY <1>3, RenderInv DEF RenderPage, Rerender
<1>4. CASE RenderFails
  BY <1>4, RenderInv DEF RenderFails
<1>5. ASSUME NEW s \in Secrets, RotateHere(s) \/ RotateElsewhere(s) PROVE PageInv'
  <2>1. current' \in [Secrets -> Nat]
    BY <1>1, <1>5 DEF RotateHere, RotateElsewhere
  <2> QED
    BY <1>5, <2>1, SameRows DEF RotateHere, RotateElsewhere
<1>6. ASSUME NEW s \in Secrets, RevokeReading(s) PROVE PageInv'
  BY <1>1, <1>6, SameRows DEF RevokeReading
<1>7. ASSUME NEW e, SwitchTo(e) PROVE PageInv'
  BY <1>1, <1>7, SameRows DEF SwitchTo
<1>8. CASE UNCHANGED pageVars
  BY <1>1, <1>8, SameRows DEF pageVars
<1> QED
  BY <1>2, <1>3, <1>4, <1>5, <1>6, <1>7, <1>8, AskInv, TickInv, ServeInv, AnsweredInv DEF PageNext

LEMMA PageInvSays == PageInv => PendingIsOneReveal /\ ShownOnlyWhileTimed
<1> SUFFICES ASSUME PageInv PROVE PendingIsOneReveal /\ ShownOnlyWhileTimed
  OBVIOUS
<1>1. ASSUME NEW s \in Secrets
      PROVE  Cardinality(Own(s)) = IF row[s].pending THEN 1 ELSE 0
  BY ZenonT(30), FS_EmptySet, FS_Singleton DEF PageInv, RowFits
<1>2. PendingIsOneReveal
  BY <1>1 DEF PendingIsOneReveal, Own
<1>3. ShownOnlyWhileTimed
  BY DEF PageInv, RowFits, ShownOnlyWhileTimed
<1> QED
  BY <1>2, <1>3

-----------------------------------------------------------------------------
(* Types of the page *)

LEMMA ListedTyped ==
  ASSUME EnvironmentTypeOK, NEW e \in Environments
  PROVE  Listed(e) \in [SecretsIn(e) -> [version : 1..MaxVersions, canReveal : BOOLEAN]]
<1>. SUFFICES ASSUME NEW s \in SecretsIn(e)
              PROVE  [version |-> current[s], canReveal |-> s \in readers] \in [version : 1..MaxVersions, canReveal : BOOLEAN]
  BY DEF Listed
<1>1. current[s] \in 1..MaxVersions
  BY DEF SecretsIn, EnvironmentTypeOK
<1>2. (s \in readers) \in BOOLEAN
  OBVIOUS
<1>. QED
  BY <1>1, <1>2

LEMMA FreshBounded == FreshRow \in RowState
<1>1. 0 \in 0..MaxVersions /\ 0 \in 0..RevealSeconds /\ 0 \in 0..MaxReveals
  BY PageBounds
<1>. QED
  BY <1>1 DEF FreshRow, RowState

\* What a render leaves of rows and reveals.
LEMMA RenderTyped ==
  ASSUME EnvironmentTypeOK, NEW listed
  PROVE  RowsAfter(listed) \in [Secrets -> RowState] /\ Orphaned(listed) \subseteq Reveal
<1>1. RowsAfter(listed) \in [Secrets -> RowState]
  BY FreshBounded DEF RowsAfter, EnvironmentTypeOK
<1>2. ASSUME NEW q \in reveals PROVE [q EXCEPT !.own = @ /\ q.secret \in listed] \in Reveal
  <2>1. q \in Reveal
    BY DEF EnvironmentTypeOK
  <2>. QED
    BY <2>1 DEF Reveal
<1>. QED
  BY <1>1, <1>2 DEF Orphaned

LEMMA PageTypedInit == PageInit => EnvironmentTypeOK
<1>. SUFFICES ASSUME PageInit PROVE EnvironmentTypeOK
  OBVIOUS
<1>1. 1 \in 1..MaxVersions /\ 0 \in 0..MaxReveals
  BY PageBounds
<1>2. current \in [Secrets -> 1..MaxVersions]
  BY <1>1 DEF PageInit
<1>3. listing \in [SecretsIn(shownEnv) -> [version : 1..MaxVersions, canReveal : BOOLEAN]]
  <2>1. ASSUME NEW s \in SecretsIn(shownEnv)
        PROVE  [version |-> current[s], canReveal |-> s \in readers] \in [version : 1..MaxVersions, canReveal : BOOLEAN]
    <3>1. current[s] \in 1..MaxVersions /\ (s \in readers) \in BOOLEAN
      BY <1>2 DEF SecretsIn
    <3>. QED
      BY <3>1
  <2>. QED
    BY <2>1 DEF PageInit, Listed
<1>4. row \in [Secrets -> RowState]
  BY FreshBounded DEF PageInit
<1>. QED
  BY <1>1, <1>2, <1>3, <1>4 DEF PageInit, EnvironmentTypeOK

LEMMA PageTypedNext == PageInv /\ EnvironmentTypeOK /\ [PageNext]_pageVars => EnvironmentTypeOK'
<1>. SUFFICES ASSUME PageInv, EnvironmentTypeOK, [PageNext]_pageVars PROVE EnvironmentTypeOK'
  OBVIOUS
<1>1. ASSUME NEW filter \in SUBSET Secrets, Filter(filter) PROVE EnvironmentTypeOK'
  BY <1>1, RenderTyped DEF Filter, Rerender, EnvironmentTypeOK
<1>2. CASE RenderPage \/ RenderFails
  <2>1. /\ heading \in Environments /\ shownEnv' = heading /\ heading' = Nowhere
        /\ listing' = Listed(heading) /\ matching' \in {matching, Secrets}
        /\ UNCHANGED <<current, readers, asked, strays>>
    BY <1>2 DEF RenderPage, RenderFails, Rerender, EnvironmentTypeOK
  <2>2. row' \in [Secrets -> RowState] /\ reveals' \subseteq Reveal
    BY <1>2, RenderTyped DEF RenderPage, RenderFails, Rerender
  <2>3. listing' \in [SecretsIn(shownEnv') -> [version : 1..MaxVersions, canReveal : BOOLEAN]]
    BY <2>1, ListedTyped
  <2>4. shownEnv' \in Environments /\ heading' \in Environments \cup {Nowhere} /\ matching' \subseteq Secrets
    BY <2>1 DEF EnvironmentTypeOK
  <2>. QED
    BY <2>1, <2>2, <2>3, <2>4 DEF EnvironmentTypeOK, SecretsIn
<1>3. ASSUME NEW s \in Secrets, AskReveal(s) PROVE EnvironmentTypeOK'
  <2>1. asked + 1 \in 1..MaxReveals /\ asked + 1 \in 0..MaxReveals /\ 0 \in 0..MaxVersions
    BY <1>3, PageBounds DEF AskReveal, EnvironmentTypeOK
  <2>2. [id |-> asked + 1, secret |-> s, own |-> TRUE, at |-> "core", value |-> 0] \in Reveal
    BY <2>1 DEF Reveal
  <2>3. row' \in [Secrets -> RowState]
    <3>1. [row[s] EXCEPT !.pending = TRUE] \in RowState
      BY DEF EnvironmentTypeOK, RowState
    <3>. QED
      BY <1>3, <3>1 DEF AskReveal, EnvironmentTypeOK
  <2>4. reveals' \subseteq Reveal /\ asked' \in 0..MaxReveals
    BY <1>3, <2>1, <2>2 DEF AskReveal, EnvironmentTypeOK
  <2>. QED
    BY <1>3, <2>3, <2>4 DEF AskReveal, EnvironmentTypeOK
<1>4. ASSUME NEW q \in reveals, ServeReveal(q) PROVE EnvironmentTypeOK'
  <2>1. q \in Reveal /\ 0 \in 0..MaxVersions
    BY PageBounds DEF EnvironmentTypeOK
  <2>2. PICK v \in {0} \cup (IF q.secret \in readers THEN {current[q.secret]} ELSE {}) :
          reveals' = (reveals \ {q}) \cup {[q EXCEPT !.at = "done", !.value = v]}
    BY <1>4 DEF ServeReveal
  <2>3. current[q.secret] \in 1..MaxVersions
    BY <2>1 DEF Reveal, EnvironmentTypeOK
  <2>4. v \in 0..MaxVersions
    <3>1. \A n \in 1..MaxVersions : n \in 0..MaxVersions
      BY PageBounds
    <3>2. v = 0 \/ v = current[q.secret]
      BY <2>2
    <3>. QED
      BY <2>1, <2>3, <3>1, <3>2
  <2>5. [q EXCEPT !.at = "done", !.value = v] \in Reveal
    BY <2>1, <2>4 DEF Reveal
  <2>6. reveals' \subseteq Reveal
    BY <2>2, <2>5 DEF EnvironmentTypeOK
  <2>. QED
    BY <1>4, <2>6 DEF ServeReveal, EnvironmentTypeOK, SecretsIn
<1>5. ASSUME NEW q \in reveals, RevealAnswered(q) PROVE EnvironmentTypeOK'
  <2>1. q \in Reveal
    BY DEF EnvironmentTypeOK
  <2>2. q.secret \in Secrets /\ q.value \in 0..MaxVersions /\ row[q.secret] \in RowState
    BY <2>1 DEF Reveal, EnvironmentTypeOK
  <2>3. ASSUME q.own PROVE Revealed(row[q.secret], q.value) \in RowState
    <3>1. q \in Own(q.secret)
      BY <2>3 DEF Own
    <3>2. row[q.secret].timers = 0
      BY <2>2, <3>1 DEF PageInv, RowFits
    <3>3. 0 + 1 \in 0..MaxReveals /\ RevealSeconds \in 0..RevealSeconds
      BY PageBounds
    <3>4. CASE q.value = 0
      BY <2>2, <3>4 DEF Revealed, RowState
    <3>5. CASE q.value # 0
      BY <2>2, <3>2, <3>3, <3>5 DEF Revealed, RowState
    <3>. QED
      BY <3>4, <3>5
  <2>4. row' \in [Secrets -> RowState]
    BY <1>5, <2>2, <2>3 DEF RevealAnswered, EnvironmentTypeOK
  <2>5. strays' \subseteq 1..MaxReveals
    BY <1>5, <2>1 DEF RevealAnswered, EnvironmentTypeOK, Reveal
  <2>. QED
    BY <1>5, <2>4, <2>5 DEF RevealAnswered, EnvironmentTypeOK, SecretsIn
<1>6. ASSUME NEW s \in Secrets, Tick(s) PROVE EnvironmentTypeOK'
  <2>1. row[s] \in RowState
    BY DEF EnvironmentTypeOK
  <2>2. row[s].countdown \in 0..RevealSeconds /\ row[s].timers \in 0..MaxReveals /\ row[s].timers > 0
    BY <1>6, <2>1 DEF Tick, RowState
  <2>3. Ticked(row[s]) \in RowState
    <3>1. row[s].timers - 1 \in 0..MaxReveals /\ 0 \in 0..MaxVersions /\ 0 \in 0..RevealSeconds
      BY <2>2, PageBounds
    <3>2. CASE row[s].countdown <= 1
      BY <2>1, <3>1, <3>2 DEF Ticked, RowState
    <3>3. CASE ~(row[s].countdown <= 1)
      <4>1. row[s].countdown - 1 \in 0..RevealSeconds
        BY <2>2, <3>3, PageBounds
      <4>. QED
        BY <2>1, <3>3, <4>1 DEF Ticked, RowState
    <3>. QED
      BY <3>2, <3>3
  <2>4. row' \in [Secrets -> RowState]
    BY <1>6, <2>3 DEF Tick, EnvironmentTypeOK
  <2>. QED
    BY <1>6, <2>4 DEF Tick, EnvironmentTypeOK, SecretsIn
<1>7. ASSUME NEW s \in Secrets, RotateHere(s) \/ RotateElsewhere(s) PROVE EnvironmentTypeOK'
  <2>1. current[s] + 1 \in 1..MaxVersions
    BY <1>7, PageBounds DEF RotateHere, RotateElsewhere, EnvironmentTypeOK
  <2>2. current' \in [Secrets -> 1..MaxVersions]
    BY <1>7, <2>1 DEF RotateHere, RotateElsewhere, EnvironmentTypeOK
  <2>3. heading' \in Environments \cup {Nowhere}
    BY <1>7 DEF RotateHere, RotateElsewhere, Refreshed, EnvironmentTypeOK
  <2>. QED
    BY <1>7, <2>2, <2>3 DEF RotateHere, RotateElsewhere, EnvironmentTypeOK, SecretsIn
<1>8. ASSUME NEW s \in Secrets, RevokeReading(s) PROVE EnvironmentTypeOK'
  BY <1>8 DEF RevokeReading, EnvironmentTypeOK, SecretsIn
<1>9. ASSUME NEW e \in Environments, SwitchTo(e) PROVE EnvironmentTypeOK'
  BY <1>9 DEF SwitchTo, EnvironmentTypeOK, SecretsIn
<1>10. CASE UNCHANGED pageVars
  BY <1>10 DEF pageVars, EnvironmentTypeOK, SecretsIn
<1>. QED
  BY <1>1, <1>2, <1>3, <1>4, <1>5, <1>6, <1>7, <1>8, <1>9, <1>10 DEF PageNext

-----------------------------------------------------------------------------
(* The perimeter *)

\* What is cached was understood, and what was let through went by it.
PerimeterInv ==
  /\ cached # None => cached = Connection(url) /\ parseConnection(url)
  /\ answer.core # "none" =>
       /\ cached # None /\ answer.core = cached.transport
       /\ answer.secure = secureCookies(cached)
       /\ assertSameOrigin(cached, answer.asked)
       /\ answer.asked.gated => assertCsrf(cached, answer.asked)

LEMMA PerimeterInitInv == PerimeterInit => PerimeterInv
BY DEF PerimeterInit, PerimeterInv, Nothing

LEMMA KnownFits ==
  ASSUME PerimeterInv, Known # None
  PROVE  Known = Connection(url) /\ parseConnection(url)
BY DEF PerimeterInv, Known

LEMMA ServeRequestInv ==
  ASSUME PerimeterInv, NEW q, Serve(q)
  PROVE  PerimeterInv'
<1>1. url' = url /\ cached' \in {cached, Known} /\ (~isPublicPage(q.path) => cached' = Known)
  BY DEF Serve
<1>2. cached' # None => cached' = Connection(url)' /\ parseConnection(url)'
  BY <1>1, KnownFits DEF PerimeterInv
<1>3. answer'.asked = q /\ answer'.secure = secureCookies(Known)
      /\ answer'.core = IF ~isPublicPage(q.path) /\ Known # None
                           /\ (IF q.gated THEN assertCsrf(Known, q) ELSE assertSameOrigin(Known, q))
                        THEN Known.transport ELSE "none"
  BY DEF Serve
<1>4. ASSUME answer'.core # "none"
      PROVE  /\ ~isPublicPage(q.path) /\ Known # None /\ answer'.core = Known.transport
             /\ assertSameOrigin(Known, q) /\ (q.gated => assertCsrf(Known, q))
  BY <1>3, <1>4 DEF assertCsrf
<1> QED
  BY <1>1, <1>2, <1>3, <1>4 DEF PerimeterInv

LEMMA PerimeterNextInv == PerimeterInv /\ [PerimeterNext]_perimeterVars => PerimeterInv'
<1> SUFFICES ASSUME PerimeterInv, [PerimeterNext]_perimeterVars PROVE PerimeterInv'
  OBVIOUS
<1>1. CASE Served
  BY <1>1 DEF Served, PerimeterInv, Nothing
<1>2. CASE UNCHANGED perimeterVars
  BY <1>2 DEF perimeterVars, PerimeterInv
<1> QED
  BY <1>1, <1>2, ServeRequestInv DEF PerimeterNext

\* There is a request to start from.
LEMMA AskedIsARequest == Asked \in HttpRequests
<1>. DEFINE q == [path |-> "/api", safe |-> TRUE, gated |-> FALSE, origin |-> NoOrigin, host |-> "vault",
                  token |-> FALSE, tls |-> FALSE, prefetch |-> FALSE]
<1>1. q \in HttpRequest
  BY DEF HttpRequest, Hosts
<1>2. Sensible(q)
  BY DEF Sensible
<1>3. q \in HttpRequests
  BY <1>1, <1>2 DEF HttpRequests
<1>. HIDE DEF q
<1>. QED
  BY <1>3, Zenon DEF Asked

LEMMA PerimeterTypedInit == PerimeterInit => PerimeterTypeOK
BY AskedIsARequest DEF PerimeterInit, PerimeterTypeOK, None, Nothing

\* What is parsed has a transport and a posture.
LEMMA ConnectionTyped ==
  ASSUME NEW u, parseConnection(u)
  PROVE  Connection(u).transport \in {"none", "http", "https"}
         /\ Connection(u).posture \in {"none", "development", "production"}
BY DEF Connection, parseConnection

LEMMA PerimeterTypedNext == PerimeterTypeOK /\ [PerimeterNext]_perimeterVars => PerimeterTypeOK'
<1>. SUFFICES ASSUME PerimeterTypeOK, [PerimeterNext]_perimeterVars PROVE PerimeterTypeOK'
  OBVIOUS
<1>1. ASSUME NEW q \in HttpRequests, Serve(q) PROVE PerimeterTypeOK'
  <2>1. Known.transport \in {"none", "http", "https"} /\ Known.posture \in {"none", "development", "production"}
    BY ConnectionTyped DEF Known, None, PerimeterTypeOK
  <2>2. cached' = Known \/ cached' = cached
    BY <1>1 DEF Serve
  <2>3. answer'.asked = q /\ (answer'.core = Known.transport \/ answer'.core = "none")
    BY <1>1 DEF Serve
  <2>. QED
    BY <1>1, <2>1, <2>2, <2>3 DEF Serve, PerimeterTypeOK
<1>2. CASE Served
  BY <1>2, AskedIsARequest DEF Served, Nothing, PerimeterTypeOK
<1>3. CASE UNCHANGED perimeterVars
  BY <1>3 DEF perimeterVars, PerimeterTypeOK
<1>. QED
  BY <1>1, <1>2, <1>3 DEF PerimeterNext

LEMMA PerimeterInvSays == PerimeterInv => ProductionIsClosed
<1> SUFFICES ASSUME PerimeterInv, answer.core # "none"
             PROVE  /\ cached = Connection(url)
                    /\ cached.posture = "production" =>
                         /\ answer.core = "https" /\ answer.secure /\ cached.appOrigin.scheme = "https"
                         /\ ~answer.asked.safe => answer.asked.origin = cached.appOrigin
                    /\ ~answer.asked.safe /\ answer.asked.gated => answer.asked.token
  BY DEF ProductionIsClosed
<1>1. cached = Connection(url) /\ parseConnection(url) /\ cached # None
  BY DEF PerimeterInv
<1>2. /\ answer.core = cached.transport /\ answer.secure = secureCookies(cached)
      /\ assertSameOrigin(cached, answer.asked)
      /\ answer.asked.gated => assertCsrf(cached, answer.asked)
  BY DEF PerimeterInv
<1>3. /\ cached.posture = url.path /\ cached.appOrigin = AppOrigin(url)
      /\ cached.transport = IF url.scheme = "warder" THEN "https" ELSE "http"
  BY <1>1 DEF Connection
<1>4. ASSUME url.path = "production"
      PROVE  url.scheme = "warder" /\ url.origin = "https"
  BY <1>1, <1>4 DEF parseConnection, resolveAppOrigin
<1>5. ASSUME url.path = "production"
      PROVE  cached.appOrigin.scheme = "https"
  <2>1. AppOrigin(url) = [scheme |-> "https", host |-> "vault"]
    BY <1>4, <1>5 DEF AppOrigin, Origin
  <2> QED
    BY <1>3, <2>1
<1>6. ASSUME url.path = "production", ~answer.asked.safe
      PROVE  answer.asked.origin = cached.appOrigin
  BY <1>2, <1>3, <1>6 DEF assertSameOrigin, originMatches
<1>7. ASSUME url.path = "production"
      PROVE  answer.secure
  BY <1>2, <1>3, <1>7 DEF secureCookies
<1>8. ~answer.asked.safe /\ answer.asked.gated => answer.asked.token
  BY <1>2 DEF assertCsrf
<1> QED
  BY <1>1, <1>2, <1>3, <1>4, <1>5, <1>6, <1>7, <1>8

-----------------------------------------------------------------------------
\* A set of numbers has a least one.
LEMMA Least ==
  ASSUME NEW S, S \subseteq Nat, S # {}
  PROVE  \E m \in S : \A n \in S : m <= n
<1>. DEFINE R == OpToRel(<, Nat)
<1>1. \E m \in S : \A n \in S : ~(<<n, m>> \in R)
  BY NatLessThanWellFounded, WFMin
<1>2. \A m, n \in Nat : <<n, m>> \in R <=> n < m
  BY DEF OpToRel
<1>. HIDE DEF R
<1>3. PICK m \in S : \A n \in S : ~(<<n, m>> \in R)
  BY <1>1
<1>4. ASSUME NEW n \in S PROVE m <= n
  <2>1. m \in Nat /\ n \in Nat /\ ~(<<n, m>> \in R)
    BY <1>3
  <2>. QED
    BY <1>2, <2>1
<1>. QED
  BY <1>4

-----------------------------------------------------------------------------
(* The parser *)

\* tlapm knows nothing of a recursive function but that it is chosen: that one
\* with its equations exists, and what it computes, follows from the least place
\* where a text would be a counterexample.
LEMMA TextFacts ==
  ASSUME NEW text \in Texts
  PROVE  Len(text) \in Nat /\ DOMAIN text = 1..Len(text) /\ \A i \in 1..Len(text) : text[i] \in Lines
<1>1. text \in Seq(Lines)
  <2>1. PICK n \in 0..MaxLines : text \in [1..n -> Lines]
    BY DEF Texts, TextsUpTo
  <2>. QED
    BY <2>1, RowBounds, SeqDef
<1>. QED
  BY <1>1, LenProperties

LEMMA LineFacts ==
  ASSUME NEW l \in Lines
  PROVE  /\ l.kind \in {"plain", "opens", "junk", "ignored"} /\ l.value \in BOOLEAN
         /\ l.kind \in Assigning => l.key \in Keys
BY DEF Lines, Assigning

\* Where a value ends, if it does: on a later line with a quote, and no line
\* before that has one.
LEMMA EndFacts ==
  ASSUME NEW text \in Texts, NEW i \in 1..Len(text), Closers(text, i) # {}
  PROVE  /\ EndOfValue(text, i) \in i + 1..Len(text) /\ text[i].opener \in text[EndOfValue(text, i)].quotes
         /\ \A k \in i + 1..EndOfValue(text, i) - 1 : text[i].opener \notin text[k].quotes
<1>1. Len(text) \in Nat
  BY TextFacts
<1>2. Closers(text, i) \subseteq Nat
  BY <1>1 DEF Closers
<1>3. \E j \in Closers(text, i) : \A k \in Closers(text, i) : j <= k
  BY <1>2, Least
<1>4. /\ EndOfValue(text, i) \in Closers(text, i)
      /\ \A k \in Closers(text, i) : EndOfValue(text, i) <= k
  BY <1>3 DEF EndOfValue
<1>. DEFINE e == EndOfValue(text, i)
<1>5. e \in i + 1..Len(text) /\ text[i].opener \in text[e].quotes
  BY <1>4 DEF Closers
<1>. HIDE DEF e
<1>6. ASSUME NEW k \in i + 1..e - 1, text[i].opener \in text[k].quotes PROVE FALSE
  <2>1. k \in i + 1..Len(text) /\ k < e
    BY <1>1, <1>5
  <2>2. k \in Closers(text, i)
    BY <1>6, <2>1 DEF Closers
  <2>. QED
    BY <1>1, <1>4, <1>5, <2>1, <2>2 DEF e
<1>. QED
  BY <1>5, <1>6 DEF e

\* An assignment is an entry of its line unless it opens what never ends.
Readable(text, i) ==
  /\ text[i].kind \in Assigning
  /\ text[i].kind = "opens" => Closers(text, i) # {}

LEMMA ReadingFacts ==
  ASSUME NEW text \in Texts, NEW i \in 1..Len(text)
  PROVE  /\ Reading(text, i).what = "entry" <=> Readable(text, i)
         /\ Reading(text, i).what = "entry" => /\ Reading(text, i).line = i /\ Reading(text, i).key \in Keys
                                                /\ Reading(text, i).value \in BOOLEAN
         /\ Reading(text, i).upto \in i..Len(text)
<1>1. Len(text) \in Nat /\ text[i] \in Lines
  BY TextFacts
<1>2. text[i].kind \in {"plain", "opens", "junk", "ignored"} /\ text[i].value \in BOOLEAN
      /\ (text[i].kind \in Assigning => text[i].key \in Keys)
  BY <1>1, LineFacts
<1>3. CASE text[i].kind = "plain"
  BY <1>1, <1>2, <1>3 DEF Reading, Readable, Assigning
<1>4. CASE text[i].kind = "opens" /\ Closers(text, i) # {}
  <2>1. EndOfValue(text, i) \in i..Len(text)
    BY <1>1, <1>4, EndFacts
  <2>. QED
    BY <1>1, <1>2, <1>4, <2>1 DEF Reading, Readable, Assigning
<1>5. CASE text[i].kind = "opens" /\ Closers(text, i) = {}
  BY <1>1, <1>5 DEF Reading, Readable, Assigning
<1>6. CASE text[i].kind \in {"junk", "ignored"}
  BY <1>1, <1>6 DEF Reading, Readable, Assigning
<1>. QED
  BY <1>2, <1>3, <1>4, <1>5, <1>6

\* The loop of the parser, for what is left of a text from some line on.
Yield(text, f, i) == {Reading(text, i)} \cup f[Reading(text, i).upto + 1]

Reads(text, f, k) ==
  /\ f[Len(text) + 1] = {}
  /\ \A i \in k..Len(text) : f[i] = Yield(text, f, i)

LEMMA LoopRuns ==
  ASSUME NEW text \in Texts
  PROVE  \E f : Reads(text, f, 1) /\ parseDotenv(text) = f[1]
<1>1. Len(text) \in Nat
  BY TextFacts
<1>. DEFINE L      == Len(text)
            Has(k) == \E f : Reads(text, f, k)
            S      == {k \in 1..L + 1 : Has(k)}
<1>2. L + 1 \in S
  <2>1. Reads(text, [i \in {L + 1} |-> {}], L + 1)
    BY <1>1 DEF Reads
  <2>2. L + 1 \in 1..L + 1
    BY <1>1
  <2>. QED
    BY <2>1, <2>2
<1>3. PICK m \in S : \A n \in S : m <= n
  <2>1. S \subseteq Nat /\ S # {}
    BY <1>1, <1>2
  <2>. HIDE DEF S
  <2>. QED
    BY <2>1, Least
<1>4. m = 1
  <2>. SUFFICES ASSUME m # 1 PROVE FALSE
    OBVIOUS
  <2>0. PICK f : Reads(text, f, m)
    BY <1>3
  <2>1. f[L + 1] = {} /\ \A i \in m..L : f[i] = Yield(text, f, i)
    BY <2>0 DEF Reads
  <2>. DEFINE g == [i \in m - 1..L + 1 |-> IF i = m - 1 THEN Yield(text, f, i) ELSE f[i]]
  <2>2. m - 1 \in 1..L /\ m \in Nat
    BY <1>1, <1>3
  <2>3. g[L + 1] = {} /\ \A i \in m..L : g[i] = Yield(text, f, i)
    BY <1>1, <2>1, <2>2
  <2>4. g[m - 1] = Yield(text, f, m - 1)
    BY <1>1, <2>2
  <2>5. ASSUME NEW i \in m - 1..L PROVE Yield(text, g, i) = Yield(text, f, i)
    <3>1. Reading(text, i).upto + 1 \in m..L + 1
      BY <1>1, <2>2, ReadingFacts
    <3>2. g[Reading(text, i).upto + 1] = f[Reading(text, i).upto + 1]
      BY <1>1, <2>2, <3>1
    <3>. QED
      BY <3>2 DEF Yield
  <2>. HIDE DEF g
  <2>6. Reads(text, g, m - 1)
    <3>1. ASSUME NEW i \in m - 1..L PROVE g[i] = Yield(text, g, i)
      <4>1. i = m - 1 \/ i \in m..L
        BY <1>1, <2>2
      <4>. QED
        BY <2>3, <2>4, <2>5, <4>1
    <3>. QED
      BY <2>3, <3>1 DEF Reads
  <2>7. m - 1 \in S
    <3>1. m - 1 \in 1..L + 1
      BY <1>1, <2>2
    <3>. QED
      BY <2>6, <3>1
  <2>. QED
    BY <1>3, <2>2, <2>7
<1>. DEFINE Body(f) == [i \in 1..Len(text) + 1 |->
                          IF i > Len(text) THEN {} ELSE {Reading(text, i)} \cup f[Reading(text, i).upto + 1]]
            F       == CHOOSE f : f = Body(f)
<1>a. ASSUME NEW f PROVE Body(f)[Len(text) + 1] = {} /\ \A i \in 1..Len(text) : Body(f)[i] = Yield(text, f, i)
  <2>1. /\ Len(text) + 1 \in 1..Len(text) + 1 /\ Len(text) + 1 > Len(text)
        /\ \A i \in 1..Len(text) : i \in 1..Len(text) + 1 /\ ~(i > Len(text))
    BY <1>1
  <2>. QED
    BY <2>1, Zenon DEF Yield
<1>5. \E f : f = Body(f)
  <2>1. PICK f : Reads(text, f, 1)
    BY <1>3, <1>4
  <2>. DEFINE g == [i \in 1..Len(text) + 1 |-> f[i]]
  <2>2. g[Len(text) + 1] = {} /\ \A i \in 1..Len(text) : g[i] = Yield(text, f, i)
    BY <1>1, <2>1 DEF Reads
  <2>3. ASSUME NEW i \in 1..Len(text) PROVE Yield(text, g, i) = Yield(text, f, i)
    <3>1. Reading(text, i).upto + 1 \in 1..Len(text) + 1
      BY <1>1, ReadingFacts
    <3>. QED
      BY <3>1 DEF Yield
  <2>. HIDE DEF g
  <2>4. ASSUME NEW i \in 1..Len(text) + 1 PROVE g[i] = Body(g)[i]
    <3>1. CASE i > Len(text)
      <4>1. i = Len(text) + 1
        BY <1>1, <3>1
      <4>. QED
        BY <1>a, <2>2, <4>1
    <3>2. CASE i \in 1..Len(text)
      <4>1. Body(g)[i] = Yield(text, g, i)
        BY <1>a, <3>2
      <4>. QED
        BY <2>2, <2>3, <3>2, <4>1
    <3>. QED
      BY <1>1, <3>1, <3>2
  <2>5. g = Body(g)
    BY <2>4 DEF g
  <2>. QED
    BY <2>5
<1>6. F = Body(F)
  BY <1>5
<1>7. parseDotenv(text) = F[1]
  BY DEF parseDotenv
<1>. HIDE DEF F
<1>8. Reads(text, F, 1)
  <2>1. F[Len(text) + 1] = {} /\ \A i \in 1..Len(text) : F[i] = Yield(text, F, i)
    BY <1>6, <1>a
  <2>. QED
    BY <2>1 DEF Reads
<1>. QED
  BY <1>7, <1>8

\* The lines inside a value, likewise: each by those before it.
Under(text, f, i) ==
  \E j \in 1..i - 1 : /\ text[j].kind = "opens" /\ ~f[j]
                      /\ \A k \in j + 1..i - 1 : text[j].opener \notin text[k].quotes

Follows(text, f, k) == \A i \in 1..k : f[i] = Under(text, f, i)

LEMMA UnderBefore ==
  ASSUME NEW text, NEW i \in Nat, NEW f, NEW g, \A j \in 1..i - 1 : f[j] = g[j]
  PROVE  Under(text, f, i) = Under(text, g, i)
BY DEF Under

LEMMA InsideSays ==
  ASSUME NEW text \in Texts
  PROVE  \A i \in 1..Len(text) : Inside(text)[i] = Under(text, Inside(text), i)
<1>1. Len(text) \in Nat
  BY TextFacts
<1>. DEFINE L == Len(text)
            S == {d \in 0..L : \E f : Follows(text, f, L - d)}
<1>2. L \in S
  <2>1. Follows(text, << >>, L - L)
    BY <1>1 DEF Follows
  <2>. QED
    BY <1>1, <2>1
<1>3. PICK m \in S : \A n \in S : m <= n
  <2>1. S \subseteq Nat /\ S # {}
    BY <1>1, <1>2
  <2>. HIDE DEF S
  <2>. QED
    BY <2>1, Least
<1>4. m = 0
  <2>. SUFFICES ASSUME m # 0 PROVE FALSE
    OBVIOUS
  <2>. DEFINE n == L - m + 1
  <2>1. n \in 1..L /\ n - 1 = L - m /\ L - (m - 1) = n /\ m - 1 \in 0..L /\ ~(m <= m - 1)
    BY <1>1, <1>3
  <2>. HIDE DEF n
  <2>2. PICK f : Follows(text, f, n - 1)
    BY <1>3, <2>1
  <2>. DEFINE g == [i \in 1..n |-> IF i = n THEN Under(text, f, n) ELSE f[i]]
  <2>3. g[n] = Under(text, f, n) /\ \A i \in 1..n - 1 : g[i] = f[i]
    BY <2>1
  <2>. HIDE DEF g
  <2>4. ASSUME NEW i \in 1..n PROVE g[i] = Under(text, g, i)
    <3>1. Under(text, f, i) = Under(text, g, i)
      <4>1. \A j \in 1..i - 1 : f[j] = g[j]
        BY <2>1, <2>3
      <4>2. i \in Nat
        BY <2>1
      <4>. QED
        BY <4>1, <4>2, UnderBefore
    <3>2. CASE i = n
      BY <2>3, <3>1, <3>2
    <3>3. CASE i \in 1..n - 1
      BY <2>2, <2>3, <3>1, <3>3 DEF Follows
    <3>. QED
      BY <2>1, <3>2, <3>3
  <2>5. Follows(text, g, n)
    BY <2>4 DEF Follows
  <2>6. m - 1 \in S
    BY <2>1, <2>5
  <2>. QED
    BY <1>3, <2>1, <2>6
<1>. DEFINE Body(f) == [i \in 1..Len(text) |->
                          \E j \in 1..i - 1 : /\ text[j].kind = "opens" /\ ~f[j]
                                              /\ \A k \in j + 1..i - 1 : text[j].opener \notin text[k].quotes]
            F       == CHOOSE f : f = Body(f)
<1>5. ASSUME NEW f PROVE \A i \in 1..Len(text) : Body(f)[i] = Under(text, f, i)
  BY Zenon DEF Under
<1>6. \E f : f = Body(f)
  <2>1. PICK f : Follows(text, f, L)
    BY <1>1, <1>3, <1>4
  <2>. DEFINE g == [i \in 1..Len(text) |-> f[i]]
  <2>2. \A i \in 1..Len(text) : g[i] = f[i]
    OBVIOUS
  <2>. HIDE DEF g
  <2>3. ASSUME NEW i \in 1..Len(text) PROVE g[i] = Body(g)[i]
    <3>1. i \in Nat /\ \A j \in 1..i - 1 : f[j] = g[j]
      BY <1>1, <2>2
    <3>2. Under(text, f, i) = Under(text, g, i)
      BY <3>1, UnderBefore
    <3>3. Body(g)[i] = Under(text, g, i)
      BY <1>5
    <3>4. f[i] = Under(text, f, i)
      BY <2>1 DEF Follows
    <3>. QED
      BY <2>2, <3>2, <3>3, <3>4
  <2>4. g = Body(g)
    BY <2>3 DEF g
  <2>. QED
    BY <2>4
<1>7. F = Body(F)
  BY <1>6
<1>8. Inside(text) = F
  BY DEF Inside
<1>. HIDE DEF F, Body
<1>9. \A i \in 1..Len(text) : F[i] = Under(text, F, i)
  BY <1>5, <1>7
<1>. QED
  BY <1>8, <1>9

\* From a line outside every value, what is read takes the lines it begins and
\* leaves off outside again.
LEMMA ReadingStaysOutside ==
  ASSUME NEW text \in Texts, NEW i \in 1..Len(text), ~Inside(text)[i]
  PROVE  LET u == Reading(text, i).upto
         IN  /\ \A m \in i + 1..u : Inside(text)[m]
             /\ u + 1 \in 1..Len(text) => ~Inside(text)[u + 1]
<1>. DEFINE In(m) == Inside(text)[m]
<1>1. Len(text) \in Nat /\ text[i] \in Lines
  BY TextFacts
<1>2. \A m \in 1..Len(text) :
        In(m) <=> \E j \in 1..m - 1 : /\ text[j].kind = "opens" /\ ~In(j)
                                      /\ \A k \in j + 1..m - 1 : text[j].opener \notin text[k].quotes
  BY InsideSays, Zenon DEF Under
<1>. HIDE DEF In
<1>3. CASE text[i].kind # "opens"
  <2>1. Reading(text, i).upto = i
    BY <1>1, <1>3, LineFacts DEF Reading
  <2>2. ASSUME i + 1 \in 1..Len(text), In(i + 1) PROVE FALSE
    <3>1. PICK j \in 1..i : /\ text[j].kind = "opens" /\ ~In(j) /\ \A k \in j + 1..i : text[j].opener \notin text[k].quotes
      BY <1>1, <1>2, <2>2
    <3>2. j \in 1..i - 1 /\ \A k \in j + 1..i - 1 : text[j].opener \notin text[k].quotes
      BY <1>1, <1>3, <3>1
    <3>. QED
      BY <1>2, <3>1, <3>2 DEF In
  <2>. QED
    BY <1>1, <2>1, <2>2 DEF In
<1>4. CASE text[i].kind = "opens" /\ Closers(text, i) = {}
  <2>1. Reading(text, i).upto = Len(text)
    BY <1>4 DEF Reading
  <2>2. ASSUME NEW m \in i + 1..Len(text) PROVE In(m)
    <3>1. m \in 1..Len(text) /\ i \in 1..m - 1
      BY <1>1
    <3>2. \A k \in i + 1..m - 1 : text[i].opener \notin text[k].quotes
      <4>1. \A k \in i + 1..m - 1 : k \in i + 1..Len(text)
        BY <1>1
      <4>. QED
        BY <1>4, <4>1 DEF Closers
    <3>. QED
      BY <1>2, <1>4, <3>1, <3>2 DEF In
  <2>3. ~(Len(text) + 1 \in 1..Len(text))
    BY <1>1
  <2>. QED
    BY <2>1, <2>2, <2>3 DEF In
<1>5. CASE text[i].kind = "opens" /\ Closers(text, i) # {}
  <2>. DEFINE e == EndOfValue(text, i)
  <2>1. e \in i + 1..Len(text) /\ text[i].opener \in text[e].quotes /\ \A k \in i + 1..e - 1 : text[i].opener \notin text[k].quotes
    BY <1>5, EndFacts
  <2>2. Reading(text, i).upto = e
    BY <1>5 DEF Reading
  <2>. HIDE DEF e
  <2>3. ASSUME NEW m \in i + 1..e PROVE In(m)
    <3>1. m \in 1..Len(text) /\ i \in 1..m - 1
      BY <1>1, <2>1
    <3>2. \A k \in i + 1..m - 1 : text[i].opener \notin text[k].quotes
      BY <1>1, <2>1
    <3>. QED
      BY <1>2, <1>5, <3>1, <3>2 DEF In
  <2>4. ASSUME e + 1 \in 1..Len(text), In(e + 1) PROVE FALSE
    <3>1. PICK j \in 1..e : /\ text[j].kind = "opens" /\ ~In(j) /\ \A k \in j + 1..e : text[j].opener \notin text[k].quotes
      BY <1>1, <1>2, <2>1, <2>4
    <3>2. CASE j \in 1..i - 1
      <4>1. \A k \in j + 1..i - 1 : k \in j + 1..e
        BY <1>1, <2>1
      <4>2. In(i)
        BY <1>2, <3>1, <3>2, <4>1
      <4>. QED
        BY <4>2 DEF In
    <3>3. CASE j = i
      <4>1. e \in i + 1..e
        BY <1>1, <2>1
      <4>. QED
        BY <2>1, <3>1, <3>3, <4>1
    <3>4. CASE j \in i + 1..e
      BY <2>3, <3>1, <3>4
    <3>. QED
      BY <1>1, <2>1, <3>2, <3>3, <3>4
  <2>. QED
    BY <2>2, <2>3, <2>4 DEF In
<1>. QED
  BY <1>3, <1>4, <1>5

\* The lines from i on that should be found, and those that are.
Wanted(text, i) == {j \in i..Len(text) : ~Inside(text)[j] /\ Readable(text, j)}
FoundIn(rs)     == {r.line : r \in {q \in rs : q.what = "entry"}}

\* What is read from a line outside every value on, if the same is known of the
\* line after what is read there.
LEMMA OneReading ==
  ASSUME NEW text \in Texts, NEW f, Reads(text, f, 1), NEW i \in 1..Len(text), ~Inside(text)[i],
         FoundIn(f[Reading(text, i).upto + 1]) = Wanted(text, Reading(text, i).upto + 1)
  PROVE  FoundIn(f[i]) = Wanted(text, i)
<1>. DEFINE u == Reading(text, i).upto
<1>1. Len(text) \in Nat
  BY TextFacts
<1>2. u \in i..Len(text) /\ \A m \in i + 1..u : Inside(text)[m]
  BY ReadingFacts, ReadingStaysOutside
<1>3. f[i] = {Reading(text, i)} \cup f[u + 1]
  BY DEF Reads, Yield
<1>4. CASE Readable(text, i)
  <2>1. Reading(text, i).what = "entry" /\ Reading(text, i).line = i
    BY <1>4, ReadingFacts
  <2>. HIDE DEF u
  <2>2. FoundIn(f[i]) = {i} \cup FoundIn(f[u + 1])
    BY <1>3, <2>1 DEF FoundIn
  <2>3. Wanted(text, i) = {i} \cup Wanted(text, u + 1)
    BY <1>1, <1>2, <1>4 DEF Wanted
  <2>. QED
    BY <2>2, <2>3 DEF u
<1>5. CASE ~Readable(text, i)
  <2>1. Reading(text, i).what # "entry"
    BY <1>5, ReadingFacts
  <2>. HIDE DEF u
  <2>2. FoundIn(f[i]) = FoundIn(f[u + 1])
    BY <1>3, <2>1 DEF FoundIn
  <2>3. Wanted(text, i) = Wanted(text, u + 1)
    BY <1>1, <1>2, <1>5 DEF Wanted
  <2>. QED
    BY <2>2, <2>3 DEF u
<1>. QED
  BY <1>4, <1>5

\* Of every text the parser finds the assignments outside every value.
LEMMA EveryTextIsKeptWhole ==
  ASSUME NEW text \in Texts
  PROVE  FoundIn(parseDotenv(text)) = Wanted(text, 1)
<1>1. Len(text) \in Nat
  BY TextFacts
<1>2. PICK f : Reads(text, f, 1) /\ parseDotenv(text) = f[1]
  BY LoopRuns
<1>. DEFINE L         == Len(text)
            Outside(i) == i \in 1..L => ~Inside(text)[i]
            Right(i)  == Outside(i) => FoundIn(f[i]) = Wanted(text, i)
            S         == {d \in 0..L : ~Right(L + 1 - d)}
<1>3. S = {}
  <2>. SUFFICES ASSUME S # {} PROVE FALSE
    OBVIOUS
  <2>1. PICK m \in S : \A n \in S : m <= n
    <3>1. S \subseteq Nat
      BY <1>1
    <3>. HIDE DEF S
    <3>. QED
      BY <3>1, Least
  <2>. DEFINE i == L + 1 - m
  <2>2. i \in 1..L + 1 /\ ~Right(i)
    BY <1>1, <2>1
  <2>3. CASE i = L + 1
    <3>1. f[i] = {}
      BY <1>2, <2>3 DEF Reads
    <3>2. Wanted(text, i) = {}
      BY <1>1, <2>3 DEF Wanted
    <3>3. FoundIn(f[i]) = {}
      BY <3>1 DEF FoundIn
    <3>. QED
      BY <2>2, <3>2, <3>3
  <2>4. CASE i \in 1..L
    <3>1. ~Inside(text)[i]
      BY <2>2, <2>4
    <3>. DEFINE u == Reading(text, i).upto
    <3>2. u \in i..L /\ Outside(u + 1)
      BY <2>4, <3>1, ReadingFacts, ReadingStaysOutside
    <3>. HIDE DEF u
    <3>3. L - u \in 0..L /\ L + 1 - (L - u) = u + 1 /\ ~(m <= L - u)
      BY <1>1, <2>1, <2>4, <3>2
    <3>4. Right(u + 1)
      BY <2>1, <3>3
    <3>5. FoundIn(f[u + 1]) = Wanted(text, u + 1)
      BY <3>2, <3>4
    <3>6. FoundIn(f[i]) = Wanted(text, i)
      BY <1>2, <2>4, <3>1, <3>5, OneReading DEF u
    <3>. QED
      BY <2>2, <3>6
  <2>. QED
    BY <1>1, <2>2, <2>3, <2>4
<1>4. Right(1)
  <2>1. L \in 0..L /\ L + 1 - L = 1
    BY <1>1
  <2>2. L \notin S
    BY <1>3
  <2>. QED
    BY <2>1, <2>2
<1>5. Outside(1)
  <2>1. ASSUME 1 \in 1..L, Inside(text)[1] PROVE FALSE
    <3>1. Under(text, Inside(text), 1)
      BY <2>1, InsideSays
    <3>. QED
      BY <3>1 DEF Under
  <2>. QED
    BY <2>1
<1>. QED
  BY <1>2, <1>4, <1>5

\* The parser yields finitely many entries, one for a line at most.
LEMMA EntriesAreFinite ==
  ASSUME NEW text \in Texts
  PROVE  /\ IsFiniteSet(Entries(text))
         /\ \A e \in Entries(text) : e.key \in Keys /\ e.value \in BOOLEAN /\ e.line \in Nat
         /\ \A d, e \in Entries(text) : d.line = e.line => d = e
<1>1. Len(text) \in Nat
  BY TextFacts
<1>2. PICK f : Reads(text, f, 1) /\ parseDotenv(text) = f[1]
  BY LoopRuns
<1>. DEFINE L   == Len(text)
            All == {Reading(text, i) : i \in 1..L}
            S   == {d \in 0..L : ~(f[L + 1 - d] \subseteq All)}
<1>3. S = {}
  <2>. SUFFICES ASSUME S # {} PROVE FALSE
    OBVIOUS
  <2>1. PICK m \in S : \A n \in S : m <= n
    <3>1. S \subseteq Nat
      BY <1>1
    <3>. HIDE DEF S
    <3>. QED
      BY <3>1, Least
  <2>. DEFINE i == L + 1 - m
  <2>2. i \in 1..L + 1 /\ ~(f[i] \subseteq All)
    BY <1>1, <2>1
  <2>3. i \in 1..L
    <3>1. f[L + 1] = {}
      BY <1>2 DEF Reads
    <3>. QED
      BY <1>1, <2>2, <3>1
  <2>. DEFINE u == Reading(text, i).upto
  <2>4. u \in i..L /\ f[i] = {Reading(text, i)} \cup f[u + 1] /\ Reading(text, i) \in All
    BY <1>2, <2>3, ReadingFacts DEF Reads, Yield
  <2>. HIDE DEF u, All
  <2>5. L - u \in 0..L /\ L + 1 - (L - u) = u + 1 /\ ~(m <= L - u)
    BY <1>1, <2>1, <2>3, <2>4
  <2>6. f[u + 1] \subseteq All
    BY <2>1, <2>5
  <2>. QED
    BY <2>2, <2>4, <2>6
<1>4. parseDotenv(text) \subseteq All
  <2>1. L \in 0..L /\ L + 1 - L = 1
    BY <1>1
  <2>. HIDE DEF All
  <2>2. f[L + 1 - L] \subseteq All
    BY <1>3, <2>1
  <2>. QED
    BY <1>2, <2>1, <2>2
<1>5. Entries(text) \subseteq All
  BY <1>4 DEF Entries
<1>6. IsFiniteSet(All)
  <2>. DEFINE F == [i \in 1..L |-> Reading(text, i)]
  <2>1. F \in Surjection(1..L, All)
    BY DEF Surjection
  <2>2. IsFiniteSet(1..L)
    BY <1>1, FS_Interval
  <2>. QED
    BY <2>1, <2>2, FS_Surjection
<1>7. ASSUME NEW e \in Entries(text) PROVE \E i \in 1..L : e = Reading(text, i) /\ e.line = i /\ e.key \in Keys /\ e.value \in BOOLEAN
  <2>1. e.what = "entry"
    BY DEF Entries
  <2>. QED
    BY <1>5, <2>1, ReadingFacts
<1>8. IsFiniteSet(Entries(text))
  BY <1>5, <1>6, FS_Subset
<1>. QED
  BY <1>1, <1>7, <1>8

-----------------------------------------------------------------------------
(* The rows *)

\* Ids are counted up, so that no two rows share one, on screen or in a batch.
RowsInv ==
  /\ RowsTypeOK /\ ErrorStaysWithItsRow
  /\ \A r \in rows : r.id < nextRowId
  /\ \A r, q \in sending : r.id = q.id => r = q
  /\ pasted.text \in Texts

LEMMA NoPasteFits == NoPaste.text \in Texts
<1>1. << >> \in [1..0 -> Lines]
  OBVIOUS
<1>. QED
  BY <1>1, RowBounds DEF NoPaste, Texts, TextsUpTo

LEMMA RowsInitInv == RowsInit => RowsInv
<1>. SUFFICES ASSUME RowsInit PROVE RowsInv
  OBVIOUS
<1>. DEFINE new == NewRow(0, NoKey, FALSE)
<1>1. /\ rows = {new} /\ nextRowId = 1 /\ sending = {} /\ conflicts = {}
      /\ stored \subseteq Keys /\ pasted = NoPaste /\ fieldErrors = << >>
  BY DEF RowsInit
<1>2. new \in Row_ /\ new.id = 0
  BY RowBounds DEF NewRow, Row_
<1>. HIDE DEF new
<1>3. RowsTypeOK
  BY <1>1, <1>2, RowBounds DEF RowsTypeOK
<1>4. ErrorStaysWithItsRow
  BY <1>1 DEF ErrorStaysWithItsRow
<1>. QED
  BY <1>1, <1>2, <1>3, <1>4, NoPasteFits DEF RowsInv

\* Positions in what a paste adds.
LEMMA Positions ==
  ASSUME NEW S, IsFiniteSet(S), \A d, e \in S : d.line = e.line => d = e,
         \A e \in S : e.line \in Nat
  PROVE  LET Idx(e) == Cardinality({d \in S : d.line < e.line})
         IN  /\ Cardinality(S) \in Nat
             /\ \A e \in S : Idx(e) \in 0..Cardinality(S) - 1
             /\ \A d, e \in S : Idx(d) = Idx(e) => d = e
<1>. DEFINE Before(e) == {d \in S : d.line < e.line}
<1>1. Cardinality(S) \in Nat
  BY FS_CardinalityType
<1>2. ASSUME NEW e \in S
      PROVE  IsFiniteSet(Before(e)) /\ Cardinality(Before(e)) \in Nat /\ Cardinality(Before(e)) < Cardinality(S)
  <2>1. Before(e) \in SUBSET S /\ e \notin Before(e)
    OBVIOUS
  <2>2. IsFiniteSet(Before(e)) /\ Cardinality(Before(e)) <= Cardinality(S) /\ Cardinality(Before(e)) # Cardinality(S)
    BY <2>1, FS_Subset
  <2>. QED
    BY <1>1, <2>2, FS_CardinalityType
<1>3. ASSUME NEW d \in S, NEW e \in S, d.line < e.line
      PROVE  Cardinality(Before(d)) # Cardinality(Before(e))
  <2>1. Before(d) \in SUBSET Before(e) /\ d \in Before(e) /\ d \notin Before(d)
    BY <1>3
  <2>. QED
    BY <1>2, <2>1, FS_Subset
<1>4. ASSUME NEW d \in S, NEW e \in S, Cardinality(Before(d)) = Cardinality(Before(e))
      PROVE  d = e
  <2>1. d.line \in Nat /\ e.line \in Nat /\ ~(d.line < e.line) /\ ~(e.line < d.line)
    BY <1>3, <1>4
  <2>. QED
    BY <2>1
<1>5. ASSUME NEW e \in S PROVE Cardinality(Before(e)) \in 0..Cardinality(S) - 1
  <2>. DEFINE c == Cardinality(Before(e))
              n == Cardinality(S)
  <2>1. c \in Nat /\ n \in Nat /\ c < n
    BY <1>1, <1>2
  <2>. HIDE DEF c, n
  <2>2. c \in 0..n - 1
    BY <2>1
  <2>. QED
    BY <2>2 DEF c, n
<1>. QED
  BY <1>1, <1>4, <1>5

\* New rows after those that are kept, a blank one last.
LEMMA PasteInv ==
  ASSUME RowsInv, NEW r \in rows, NEW text \in Texts, PasteIntoKey(text, r)
  PROVE  RowsInv'
<1>. DEFINE added  == {e \in Entries(text) : \A q \in Kept(r) : q.key # e.key}
            n      == Cardinality(added)
            Idx(e) == Cardinality({d \in added : d.line < e.line})
            Made(e) == NewRow(nextRowId + Idx(e), e.key, e.value)
            blank  == NewRow(nextRowId + n, NoKey, FALSE)
<1>1. /\ nextRowId + n <= MaxRowIds /\ nextRowId' = nextRowId + n + 1
      /\ rows' = Kept(r) \cup {Made(e) : e \in added} \cup {blank}
      /\ pasted'.text = text
      /\ UNCHANGED <<sending, fieldErrors, conflicts, stored>>
  BY DEF PasteIntoKey
<1>2. /\ \A q \in rows : q \in Row_ /\ q.id \in Nat /\ q.id < nextRowId
      /\ \A p, q \in rows : p.id = q.id => p = q
      /\ nextRowId \in Nat /\ nextRowId >= 1
  BY RowBounds DEF RowsInv, RowsTypeOK, Row_
<1>3. Kept(r) \subseteq rows
  BY DEF Kept
<1>4. /\ n \in Nat /\ \A e \in added : Idx(e) \in 0..n - 1 /\ e.key \in Keys /\ e.value \in BOOLEAN
      /\ \A d, e \in added : Idx(d) = Idx(e) => d = e
  <2>1. added \in SUBSET Entries(text)
    OBVIOUS
  <2>2. /\ IsFiniteSet(added) /\ \A e \in added : e.key \in Keys /\ e.value \in BOOLEAN /\ e.line \in Nat
        /\ \A d, e \in added : d.line = e.line => d = e
    BY <2>1, EntriesAreFinite, FS_Subset
  <2>. HIDE DEF added
  <2>. QED
    BY <2>2, Positions
<1>. HIDE DEF added, n, Idx
<1>5. \A e \in added : Made(e) \in Row_ /\ Made(e).id = nextRowId + Idx(e)
  BY <1>1, <1>2, <1>4, RowBounds DEF NewRow, Row_
<1>6. blank \in Row_ /\ blank.id = nextRowId + n
  BY <1>1, <1>2, <1>4, RowBounds DEF NewRow, Row_
<1>. HIDE DEF Made, blank
<1>7. rows' \subseteq Row_ /\ \A q \in rows' : q.id < nextRowId'
  BY <1>1, <1>2, <1>3, <1>4, <1>5, <1>6
<1>8. \A p, q \in rows' : p.id = q.id => p = q
  <2>1. \A d, e \in added : Made(d).id = Made(e).id => Made(d) = Made(e)
    BY <1>2, <1>4, <1>5
  <2>2. \A e \in added : Made(e).id # blank.id /\ \A q \in Kept(r) : q.id # Made(e).id
    BY <1>2, <1>3, <1>4, <1>5, <1>6
  <2>3. \A q \in Kept(r) : q.id # blank.id
    BY <1>2, <1>3, <1>4, <1>6
  <2>. QED
    BY <1>1, <1>2, <1>3, <2>1, <2>2, <2>3
<1>9. nextRowId' \in 1..MaxRowIds + 1
  BY <1>1, <1>2, <1>4, RowBounds
<1>. QED
  BY <1>1, <1>7, <1>8, <1>9 DEF RowsInv, RowsTypeOK, ErrorStaysWithItsRow

\* A complaint is about the row of the batch that has its index.
LEMMA RefusedInv ==
  ASSUME RowsInv, BatchRefused
  PROVE  RowsInv'
<1>. DEFINE batch == Filled(sending)
            wrong == {n \in Complaints(batch) : n < Cardinality(RowsNamed)}
            Of(id) == CHOOSE n \in wrong : At(RowsNamed, n).id = id
<1>1. /\ fieldErrors' = [id \in {At(RowsNamed, n).id : n \in wrong} |->
                           [about |-> At(batch, Of(id)).key,
                            sent  |-> {q.key : q \in {p \in sending : p.id = id}}]]
      /\ conflicts' = {At(RowsNamed, n).key : n \in {m \in wrong : At(batch, m).key \in stored}}
      /\ sending' = {} /\ UNCHANGED <<rows, nextRowId, stored>> /\ pasted' = NoPaste
  BY DEF BatchRefused
<1>2. RowsNamed = batch /\ batch \subseteq sending
  BY DEF RowsNamed, Filled
<1>3. ASSUME NEW n \in wrong PROVE At(batch, n) \in batch
  <2>1. \E r \in batch : IndexIn(batch, r) = n
    BY DEF Complaints
  <2>. QED
    BY <2>1 DEF At
<1>. HIDE DEF batch, wrong
<1>4. conflicts' \subseteq stored'
  BY <1>1, <1>2
<1>5. ASSUME NEW id \in DOMAIN fieldErrors' PROVE fieldErrors'[id].sent = {fieldErrors'[id].about}
  <2>1. \E n \in wrong : At(RowsNamed, n).id = id
    BY <1>1
  <2>2. Of(id) \in wrong /\ At(RowsNamed, Of(id)).id = id
    BY <2>1
  <2>. DEFINE r == At(batch, Of(id))
  <2>3. r \in sending /\ r.id = id
    BY <1>2, <1>3, <2>2
  <2>4. fieldErrors'[id].about = r.key /\ fieldErrors'[id].sent = {q.key : q \in {p \in sending : p.id = id}}
    BY <1>1
  <2>. HIDE DEF r
  <2>5. {p \in sending : p.id = id} = {r}
    BY <2>3 DEF RowsInv
  <2>. QED
    BY <2>4, <2>5
<1>6. RowsTypeOK'
  BY <1>1, <1>4 DEF RowsInv, RowsTypeOK
<1>7. ErrorStaysWithItsRow'
  BY <1>4, <1>5 DEF ErrorStaysWithItsRow
<1>. QED
  BY <1>1, <1>6, <1>7, NoPasteFits DEF RowsInv

\* One blank row in place of all.
LEMMA BlankRow ==
  ASSUME RowsInv, nextRowId <= MaxRowIds
  PROVE  LET new == NewRow(nextRowId, NoKey, FALSE)
         IN  /\ new \in Row_ /\ new.id = nextRowId /\ nextRowId + 1 \in 1..MaxRowIds + 1
             /\ new.id < nextRowId + 1
BY RowBounds DEF RowsInv, RowsTypeOK, NewRow, Row_

LEMMA RowsNextInv == RowsInv /\ [RowsNext]_rowVars => RowsInv'
<1>. SUFFICES ASSUME RowsInv, [RowsNext]_rowVars PROVE RowsInv'
  OBVIOUS
<1>. USE NoPasteFits DEF RowsInv, RowsTypeOK
<1>1. ASSUME NEW r \in rows, TypeIntoRow(r) PROVE RowsInv'
  <2>1. PICK new \in Row_ : new.id = r.id /\ rows' = (rows \ {r}) \cup {new}
    <3>1. \A k \in Keys \cup {NoKey} : [r EXCEPT !.key = k] \in Row_ /\ [r EXCEPT !.key = k].id = r.id
      BY DEF Row_
    <3>2. \A v \in BOOLEAN : [r EXCEPT !.value = v] \in Row_ /\ [r EXCEPT !.value = v].id = r.id
      BY DEF Row_
    <3>. QED
      BY <1>1, <3>1, <3>2 DEF TypeIntoRow, Edit
  <2>2. UNCHANGED <<nextRowId, sending, fieldErrors, conflicts, stored>> /\ pasted' = NoPaste
    BY <1>1 DEF TypeIntoRow
  <2>3. \A p, q \in rows' : p.id = q.id => p = q
    BY <2>1
  <2>4. \A q \in rows' : q.id < nextRowId'
    BY <2>1, <2>2
  <2>. QED
    BY <2>1, <2>2, <2>3, <2>4 DEF ErrorStaysWithItsRow
<1>2. ASSUME NEW r \in rows, RemoveRow(r) PROVE RowsInv'
  BY <1>2 DEF RemoveRow, ErrorStaysWithItsRow
<1>3. ASSUME NEW r \in rows, NEW text \in Texts, PasteIntoKey(text, r) PROVE RowsInv'
  BY <1>3, PasteInv
<1>4. CASE AddRow
  <2>. DEFINE new == NewRow(nextRowId, NoKey, FALSE)
  <2>1. /\ nextRowId <= MaxRowIds /\ rows' = rows \cup {new} /\ nextRowId' = nextRowId + 1
        /\ UNCHANGED <<sending, fieldErrors, conflicts, stored>> /\ pasted' = NoPaste
    BY <1>4 DEF AddRow
  <2>2. new \in Row_ /\ new.id = nextRowId /\ nextRowId' \in 1..MaxRowIds + 1
    BY <2>1, BlankRow
  <2>. HIDE DEF new
  <2>3. \A q \in rows : q.id \in Nat /\ q.id < nextRowId /\ nextRowId \in Nat
    BY RowBounds DEF Row_
  <2>4. \A q \in rows' : q.id < nextRowId'
    BY <2>1, <2>2, <2>3, RowBounds
  <2>5. \A p, q \in rows' : p.id = q.id => p = q
    BY <2>1, <2>2, <2>3
  <2>. QED
    BY <2>1, <2>2, <2>4, <2>5 DEF ErrorStaysWithItsRow
<1>5. CASE CloseRows
  <2>. DEFINE new == NewRow(nextRowId, NoKey, FALSE)
  <2>1. /\ nextRowId <= MaxRowIds /\ rows' = {new} /\ nextRowId' = nextRowId + 1
        /\ UNCHANGED <<sending, fieldErrors, conflicts, stored>> /\ pasted' = NoPaste
    BY <1>5 DEF CloseRows
  <2>2. new \in Row_ /\ new.id < nextRowId' /\ nextRowId' \in 1..MaxRowIds + 1
    BY <2>1, BlankRow
  <2>. HIDE DEF new
  <2>. QED
    BY <2>1, <2>2 DEF ErrorStaysWithItsRow
<1>6. CASE SubmitRows
  <2>1. fieldErrors' = << >> /\ conflicts' = {} /\ sending' \in {rows, {}}
        /\ UNCHANGED <<rows, nextRowId, stored>> /\ pasted' = NoPaste
    BY <1>6 DEF SubmitRows
  <2>2. ErrorStaysWithItsRow'
    BY <2>1 DEF ErrorStaysWithItsRow
  <2>. QED
    BY <2>1, <2>2
<1>7. CASE BatchCreated
  <2>. DEFINE new == NewRow(nextRowId, NoKey, FALSE)
  <2>1. /\ nextRowId <= MaxRowIds /\ rows' = {new} /\ nextRowId' = nextRowId + 1
        /\ stored' = stored \cup {r.key : r \in Filled(sending)} /\ sending' = {}
        /\ UNCHANGED <<fieldErrors, conflicts>> /\ pasted' = NoPaste
    BY <1>7 DEF BatchCreated
  <2>2. new \in Row_ /\ new.id < nextRowId' /\ nextRowId' \in 1..MaxRowIds + 1
    BY <2>1, BlankRow
  <2>3. stored \subseteq stored' /\ stored' \subseteq Keys
    BY <2>1 DEF Filled, Row_
  <2>. HIDE DEF new
  <2>4. ErrorStaysWithItsRow'
    BY <2>1, <2>3 DEF ErrorStaysWithItsRow
  <2>. QED
    BY <2>1, <2>2, <2>3, <2>4
<1>8. CASE BatchRefused
  BY <1>8, RefusedInv
<1>9. CASE BatchFails
  BY <1>9 DEF BatchFails, ErrorStaysWithItsRow
<1>10. ASSUME NEW k \in Keys, AddedElsewhere(k) PROVE RowsInv'
  BY <1>10 DEF AddedElsewhere, ErrorStaysWithItsRow
<1>11. CASE UNCHANGED rowVars
  BY <1>11 DEF rowVars, ErrorStaysWithItsRow
<1>12. Further \subseteq Texts
  BY RowBounds DEF Further, Texts, TextsUpTo
<1>. QED
  BY <1>1, <1>2, <1>3, <1>4, <1>5, <1>6, <1>7, <1>8, <1>9, <1>10, <1>11, <1>12 DEF RowsNext

LEMMA RowsInvSays == RowsInv => ErrorStaysWithItsRow /\ ParserKeepsValuesWhole
<1>. SUFFICES ASSUME RowsInv PROVE ParserKeepsValuesWhole
  BY DEF RowsInv
<1>. DEFINE text == pasted.text
<1>1. text \in Texts
  BY DEF RowsInv
<1>2. FoundIn(parseDotenv(text)) = Wanted(text, 1) /\ DOMAIN text = 1..Len(text)
  BY <1>1, EveryTextIsKeptWhole, TextFacts
<1>3. {e.line : e \in Entries(text)} = FoundIn(parseDotenv(text))
  BY <1>1 DEF Entries, FoundIn
<1>. QED
  BY <1>2, <1>3 DEF ParserKeepsValuesWhole, Wanted, Readable

-----------------------------------------------------------------------------
(* The key picker *)

\* Only the last fetch can still tell the combobox anything, and it asks about
\* the environment chosen; the combobox waits for it.
PickerInv ==
  /\ PickerTypeOK /\ KeysOfTheirEnvironment
  /\ \A l \in loads : ~l.cancelled => dialog /\ loading /\ l.of = environment
  /\ \A k, l \in loads : ~k.cancelled /\ ~l.cancelled => k = l

LEMMA PickerInitInv == PickerInit => PickerInv
BY DEF PickerInit, PickerInv, PickerTypeOK, KeysOfTheirEnvironment

\* What an environment holds is among all keys.
LEMMA KeysAreKeys == \A e \in KeyEnvironments : KeysOf[e] \subseteq AllKeys
BY DEF AllKeys

\* Those that are cleaned up stay what they were.
LEMMA CancelledAre ==
  ASSUME loads \subseteq Fetching
  PROVE  Cancelled(loads) \subseteq Fetching /\ \A l \in Cancelled(loads) : l.cancelled
<1>. SUFFICES ASSUME NEW l \in loads
              PROVE  [l EXCEPT !.cancelled = TRUE] \in Fetching /\ [l EXCEPT !.cancelled = TRUE].cancelled
  BY DEF Cancelled
<1>. QED
  BY DEF Fetching

LEMMA FetchInv ==
  ASSUME PickerInv, NEW e \in KeyEnvironments, FetchKeys(e), dialog', environment' = e,
         UNCHANGED <<chosenKeys, minted>>, offered' \subseteq AllKeys, matches' \subseteq offered',
         listOpen' \in BOOLEAN
  PROVE  PickerInv'
<1>1. PICK n \in 1..MaxLoads :
        loads' = Cancelled(loads) \cup {[n |-> n, of |-> e, before |-> chosenKeys, cancelled |-> FALSE]}
  BY DEF FetchKeys
<1>. DEFINE last == [n |-> n, of |-> e, before |-> chosenKeys, cancelled |-> FALSE]
<1>2. last \in Fetching /\ last.of = e
  BY DEF PickerInv, PickerTypeOK, Fetching
<1>3. Cancelled(loads) \subseteq Fetching /\ \A l \in Cancelled(loads) : l.cancelled
  BY CancelledAre DEF PickerInv, PickerTypeOK
<1>4. loading' = TRUE /\ loadError' = FALSE
  BY DEF FetchKeys
<1>5. \A l \in loads' : ~l.cancelled => l = last
  BY <1>1, <1>3
<1>6. PickerTypeOK'
  <2>1. loads' \subseteq Fetching
    BY <1>1, <1>2, <1>3
  <2>2. loading' \in BOOLEAN /\ loadError' \in BOOLEAN /\ dialog' \in BOOLEAN
    BY <1>4
  <2>. QED
    BY <2>1, <2>2 DEF PickerInv, PickerTypeOK
<1>7. KeysOfTheirEnvironment'
  BY <1>4 DEF PickerInv, KeysOfTheirEnvironment
<1>. HIDE DEF last
<1>. QED
  BY <1>2, <1>4, <1>5, <1>6, <1>7 DEF PickerInv

LEMMA PickerNextInv == PickerInv /\ [PickerNext]_pickerVars => PickerInv'
<1>. SUFFICES ASSUME PickerInv, [PickerNext]_pickerVars PROVE PickerInv'
  OBVIOUS
<1>. USE DEF PickerInv, PickerTypeOK
<1>1. ASSUME NEW l \in loads, KeysArrive(l) PROVE PickerInv'
  <2>1. l \in Fetching /\ KeysOf[l.of] \subseteq AllKeys
    BY KeysAreKeys DEF Fetching
  <2>2. loads' = loads \ {l} /\ UNCHANGED <<dialog, environment, loadError, listOpen, minted>>
    BY <1>1 DEF KeysArrive
  <2>3. CASE l.cancelled
    <3>1. UNCHANGED <<offered, chosenKeys, loading, matches>>
      BY <1>1, <2>3 DEF KeysArrive
    <3>. QED
      BY <2>2, <3>1 DEF KeysOfTheirEnvironment
  <2>4. CASE ~l.cancelled
    <3>1. /\ offered' = KeysOf[l.of] /\ chosenKeys' = l.before \cap KeysOf[l.of] /\ loading' = FALSE
          /\ matches' \subseteq KeysOf[l.of]
      BY <1>1, <2>4 DEF KeysArrive
    <3>2. dialog /\ l.of = environment /\ \A k \in loads' : k.cancelled
      BY <2>2, <2>4
    <3>3. KeysOfTheirEnvironment'
      BY <2>2, <3>1, <3>2 DEF KeysOfTheirEnvironment
    <3>4. PickerTypeOK'
      BY <2>1, <2>2, <3>1
    <3>. QED
      BY <3>2, <3>3, <3>4
  <2>. QED
    BY <2>3, <2>4
<1>2. ASSUME NEW l \in loads, KeysFail(l) PROVE PickerInv'
  <2>1. /\ loads' = loads \ {l}
        /\ loading' = (loading /\ l.cancelled) /\ loadError' = (loadError \/ ~l.cancelled)
        /\ UNCHANGED <<dialog, environment, chosenKeys, offered, listOpen, matches, minted>>
    BY <1>2 DEF KeysFail
  <2>2. loading' \in BOOLEAN /\ loadError' \in BOOLEAN
    BY <2>1, Zenon
  <2>3. \A k \in loads' : ~k.cancelled => l.cancelled
    BY <2>1
  <2>4. KeysOfTheirEnvironment'
    BY <2>1 DEF KeysOfTheirEnvironment
  <2>. QED
    BY <2>1, <2>2, <2>3, <2>4
<1>3. CASE OpenDialog
  BY <1>3, FetchInv DEF OpenDialog
<1>4. CASE CloseDialog
  <2>1. Cancelled(loads) \subseteq Fetching /\ \A l \in Cancelled(loads) : l.cancelled
    BY CancelledAre
  <2>. QED
    BY <1>4, <2>1 DEF CloseDialog, KeysOfTheirEnvironment
<1>5. CASE SubmitToken
  <2>. DEFINE new == [environment |-> environment, keys |-> chosenKeys, amid |-> loading \/ loadError]
  <2>1. minted' = minted \cup {new} /\ dialog
    BY <1>5 DEF SubmitToken
  <2>2. new \in Token
    <3>1. (loading \/ loadError) \in BOOLEAN
      BY Zenon
    <3>. QED
      BY <3>1 DEF Token
  <2>3. ~new.amid => new.keys \subseteq KeysOf[new.environment]
    BY <2>1 DEF KeysOfTheirEnvironment
  <2>4. UNCHANGED <<dialog, environment, chosenKeys, offered, loading, loadError, listOpen, matches, loads>>
    BY <1>5 DEF SubmitToken
  <2>. HIDE DEF new
  <2>. QED
    BY <2>1, <2>2, <2>3, <2>4 DEF KeysOfTheirEnvironment
<1>6. CASE CloseList
  BY <1>6 DEF CloseList, KeysOfTheirEnvironment
<1>7. ASSUME NEW e \in KeyEnvironments, ChooseEnvironment(e) PROVE PickerInv'
  BY <1>7, FetchInv DEF ChooseEnvironment
<1>8. ASSUME NEW m, TypeQuery(m) PROVE PickerInv'
  BY <1>8 DEF TypeQuery, Ready, KeysOfTheirEnvironment
<1>9. ASSUME NEW k, PickKey(k) \/ DropKey(k) PROVE PickerInv'
  BY <1>9 DEF PickKey, DropKey, toggle, Ready, KeysOfTheirEnvironment
<1>10. CASE UNCHANGED pickerVars
  BY <1>10 DEF pickerVars, KeysOfTheirEnvironment
<1>. QED
  BY <1>1, <1>2, <1>3, <1>4, <1>5, <1>6, <1>7, <1>8, <1>9, <1>10 DEF PickerNext

-----------------------------------------------------------------------------
(* Messages *)

\* Ids are counted up, so that no two messages and no two timers share one.
ToastInv ==
  /\ ToastTypeOK /\ OneTimerEach
  /\ \A t, u \in toasts : t.id = u.id => t = u
  /\ \A t \in toasts : t.id <= shownCount

LEMMA ToastInitInv == ToastInit => ToastInv
BY ToastBounds DEF ToastInit, ToastInv, ToastTypeOK, OneTimerEach, Present

\* A message is taken from the list.
LEMMA WithoutOne ==
  ASSUME NEW id
  PROVE  Without(id) \subseteq toasts /\ {t.id : t \in Without(id)} = Present \ {id}
BY DEF Without, Present

LEMMA EffectInv ==
  ASSUME ToastInv, ToastEffect
  PROVE  ToastInv'
<1>. USE DEF ToastInv, ToastTypeOK
<1>1. /\ timers' = Stopped(timers) \cup Started /\ settled' = TRUE
      /\ timerOf' = {t.id : t \in timers'} /\ UNCHANGED <<toasts, shownCount, stackAlive>>
  BY DEF ToastEffect
<1>2. Stopped(timers) \subseteq timers /\ \A t \in timers : t \in Stopped(timers) <=> t.id \in Present
  BY DEF Stopped
<1>3. Started \subseteq Timer
  <2>. SUFFICES ASSUME NEW u \in toasts
                PROVE  [id |-> u.id, left |-> LifeOf(u.status)] \in Timer
    BY DEF Started
  <2>1. u.id \in Ids /\ LifeOf(u.status) \in 0..Longest
    BY ToastBounds DEF Toast, LifeOf, Longest
  <2>. QED
    BY <2>1 DEF Timer
<1>4. \A t \in Started : t.id \in Present \ timerOf
  BY DEF Started, Present
<1>5. \A s, t \in Started : s.id = t.id => s = t
  BY DEF Started
<1>6. ASSUME NEW i \in Present \ timerOf PROVE \E t \in Started : t.id = i
  <2>1. PICK u \in toasts : u.id = i
    BY DEF Present
  <2>2. [id |-> u.id, left |-> LifeOf(u.status)] \in Started
    BY <2>1 DEF Started
  <2>. QED
    BY <2>1, <2>2
<1>7. \A s, t \in timers' : s.id = t.id => s = t
  BY <1>1, <1>2, <1>4, <1>5 DEF OneTimerEach
<1>8. timerOf' = Present
  <2>1. \A t \in timers' : t.id \in Present
    BY <1>1, <1>2, <1>4
  <2>2. \A i \in Present : \E t \in timers' : t.id = i
    BY <1>1, <1>2, <1>6 DEF OneTimerEach
  <2>. QED
    BY <1>1, <2>1, <2>2
<1>9. Present' = Present
  BY <1>1 DEF Present
<1>10. timers' \subseteq Timer /\ timerOf' \subseteq Ids
  <2>1. timers' \subseteq Timer
    BY <1>1, <1>2, <1>3
  <2>. QED
    BY <1>1, <2>1 DEF Timer
<1>. QED
  BY <1>1, <1>7, <1>8, <1>9, <1>10 DEF OneTimerEach

LEMMA ToastNextInv == ToastInv /\ [ToastNext]_toastVars => ToastInv'
<1>. SUFFICES ASSUME ToastInv, [ToastNext]_toastVars PROVE ToastInv'
  OBVIOUS
<1>. USE DEF ToastInv, ToastTypeOK
<1>1. ASSUME NEW status \in {"success", "error"}, showToast(status) PROVE ToastInv'
  <2>. DEFINE new == [id |-> shownCount + 1, status |-> status]
  <2>1. /\ toasts' = toasts \cup {new} /\ shownCount' = shownCount + 1 /\ shownCount < MaxToasts
        /\ settled' = FALSE /\ UNCHANGED <<timers, timerOf, stackAlive>>
    BY <1>1 DEF showToast
  <2>2. new \in Toast /\ shownCount' \in 0..MaxToasts
    BY <2>1, ToastBounds DEF Toast, Ids
  <2>3. \A t \in toasts : t.id \in Nat /\ t.id < new.id
    BY ToastBounds DEF Toast, Ids
  <2>4. new.id = shownCount'
    BY <2>1
  <2>. HIDE DEF new
  <2>5. toasts' \subseteq Toast
    BY <2>1, <2>2
  <2>6. \A t, u \in toasts' : t.id = u.id => t = u
    <3>1. \A t \in toasts : t.id # new.id
      BY <2>3
    <3>. QED
      BY <2>1, <3>1
  <2>7. \A t \in toasts' : t.id <= shownCount'
    <3>1. \A t \in toasts : t.id <= shownCount'
      BY <2>1, <2>3, ToastBounds
    <3>2. new.id <= shownCount'
      BY <2>2, <2>4, ToastBounds
    <3>. QED
      BY <2>1, <3>1, <3>2
  <2>8. OneTimerEach'
    BY <2>1 DEF OneTimerEach
  <2>. QED
    BY <2>1, <2>2, <2>5, <2>6, <2>7, <2>8
<1>2. ASSUME NEW id \in Ids, dismissToast(id) PROVE ToastInv'
  BY <1>2, WithoutOne DEF dismissToast, OneTimerEach
<1>3. CASE ToastEffect
  BY <1>3, EffectInv
<1>4. CASE Elapse
  <2>1. /\ timers' = {[t EXCEPT !.left = @ - 1] : t \in timers} /\ \A t \in timers : t.left > 0
        /\ UNCHANGED <<toasts, settled, timerOf, shownCount, stackAlive>>
    BY <1>4 DEF Elapse
  <2>2. ASSUME NEW t \in timers
        PROVE  [t EXCEPT !.left = @ - 1] \in Timer /\ [t EXCEPT !.left = @ - 1].id = t.id
    <3>1. t \in Timer /\ t.left > 0
      BY <2>1
    <3>2. Longest \in Nat
      BY ToastBounds DEF Longest
    <3>. QED
      BY <3>1, <3>2 DEF Timer
  <2>. DEFINE Later(t) == [t EXCEPT !.left = @ - 1]
  <2>a. timers' = {Later(t) : t \in timers} /\ \A t \in timers : Later(t).id = t.id
    BY <2>1, <2>2
  <2>. HIDE DEF Later
  <2>3. ASSUME NEW s \in timers', NEW t \in timers', s.id = t.id PROVE s = t
    <3>1. PICK s0 \in timers : s = Later(s0)
      BY <2>a
    <3>2. PICK t0 \in timers : t = Later(t0)
      BY <2>a
    <3>3. s0 = t0
      BY <2>a, <2>3, <3>1, <3>2 DEF OneTimerEach
    <3>. QED
      BY <3>1, <3>2, <3>3
  <2>4. {t.id : t \in timers'} = {t.id : t \in timers}
    <3>1. \A t \in timers' : \E s \in timers : t.id = s.id
      BY <2>a
    <3>2. \A s \in timers : \E t \in timers' : t.id = s.id
      BY <2>a
    <3>. QED
      BY <3>1, <3>2
  <2>5. timers' \subseteq Timer
    BY <2>1, <2>2
  <2>6. Present' = Present
    BY <2>1 DEF Present
  <2>. QED
    BY <2>1, <2>3, <2>4, <2>5, <2>6 DEF OneTimerEach
<1>5. CASE StackUnmounts
  BY <1>5 DEF StackUnmounts, OneTimerEach, Present
<1>6. ASSUME NEW t \in timers, TimerFires(t) PROVE ToastInv'
  <2>1. /\ timers' = timers \ {t} /\ timerOf' = timerOf \ {t.id} /\ toasts' = Without(t.id)
        /\ settled' = (settled /\ Without(t.id) = toasts) /\ UNCHANGED <<shownCount, stackAlive>>
    BY <1>6 DEF TimerFires
  <2>2. settled' = FALSE
    <3>1. ASSUME settled, Without(t.id) = toasts PROVE FALSE
      <4>1. t.id \in Present
        BY <3>1 DEF OneTimerEach
      <4>2. t.id \notin {u.id : u \in Without(t.id)}
        BY WithoutOne
      <4>. QED
        BY <3>1, <4>1, <4>2 DEF Present
    <3>. QED
      BY <2>1, <3>1
  <2>3. {u.id : u \in timers'} = timerOf'
    BY <2>1 DEF OneTimerEach
  <2>4. toasts' \subseteq toasts
    BY <2>1, WithoutOne
  <2>. QED
    BY <2>1, <2>2, <2>3, <2>4 DEF OneTimerEach
<1>7. CASE UNCHANGED toastVars
  BY <1>7 DEF toastVars, OneTimerEach, Present
<1>. QED
  BY <1>1, <1>2, <1>3, <1>4, <1>5, <1>6, <1>7 DEF ToastNext

-----------------------------------------------------------------------------
(* The dashboard *)

DashboardInv ==
  /\ FormInv /\ FormTyped /\ OnceInv
  /\ IInv /\ Bounded
  /\ PagesInv /\ PagesTypeOK
  /\ PageInv /\ EnvironmentTypeOK
  /\ RowsInv /\ PickerInv /\ ToastInv
  /\ PerimeterInv /\ PerimeterTypeOK

LEMMA DashboardInitInv == DashboardInit => DashboardInv
BY FormInitInv, FormTypedInit, OnceInitInv, InitIInv, BoundedInit, PagesInitInv, PagesTypedInit,
   PageInitInv, PageTypedInit, RowsInitInv, PickerInitInv, ToastInitInv, PerimeterInitInv, PerimeterTypedInit
   DEF DashboardInit, DashboardInv

\* A step of one part is a step of that part, and none of the others.
LEMMA PartSteps ==
  [DashboardNext]_dashboardVars =>
    /\ [FormNext]_formVars /\ [SessionNext]_sessionVars /\ [PagesNext]_signInVars /\ [PageNext]_pageVars
    /\ [RowsNext]_rowVars /\ [PickerNext]_pickerVars /\ [ToastNext]_toastVars /\ [PerimeterNext]_perimeterVars
BY DEF DashboardNext, dashboardVars

LEMMA DashboardNextInv == DashboardInv /\ [DashboardNext]_dashboardVars => DashboardInv'
BY PartSteps, FormNextInv, FormTypedNext, OnceNext, NextIInv, BoundedNext, PagesNextInv, PagesTypedNext,
   PageNextInv, PageTypedNext, RowsNextInv, PickerNextInv, ToastNextInv, PerimeterNextInv, PerimeterTypedNext
   DEF DashboardInv

\* What is known of every part of the dashboard holds in every reachable state,
\* whichever part takes its steps.
THEOREM DashboardInductive == DashboardSpec => []DashboardInv
BY DashboardInitInv, DashboardNextInv, PTL DEF DashboardSpec

\* Every variable of the dashboard has its type, for any bounds.
THEOREM DashboardTypeCorrect == DashboardSpec => []DashboardTypeOK
<1>1. DashboardInv => DashboardTypeOK
  BY BoundedSays DEF DashboardInv, FormTyped, RowsInv, PickerInv, ToastInv, DashboardTypeOK
<1> QED
  BY <1>1, DashboardInductive, PTL

\* One request of a dialog, one ceremony of a sign-in form and one reveal of a
\* row at a time, whatever is closed, opened, filtered or turned back.
THEOREM OneEach == DashboardSpec => []OneAtATime
<1>1. DashboardInv => OneAtATime
  BY PagesInvSays, FormInvSays, PageInvSays DEF DashboardInv, OneAtATime
<1> QED
  BY <1>1, DashboardInductive, PTL

\* Whatever is closed, opened again, left and returned to while a request is on
\* its way, one opening of a form creates at most one thing, and one more for
\* each answer that told the reader of a failure.
THEOREM CreationsHappenOnce == DashboardSpec => []CreatedOnce
<1>1. DashboardInv => CreatedOnce
  BY OnceInvSays DEF DashboardInv
<1> QED
  BY <1>1, DashboardInductive, PTL

\* A form that cannot be closed while it waits never shows the outcome of one
\* opening in another.
THEOREM AnswersMeetTheirVisits == DashboardSpec => []AnswerMeetsItsVisit
<1>1. DashboardInv => AnswerMeetsItsVisit
  BY FormInvSays DEF DashboardInv
<1> QED
  BY <1>1, DashboardInductive, PTL

\* A password goes with the answer to the request that carried it.
THEOREM PasswordsGo == DashboardSpec => []PasswordNotKept
<1>1. DashboardInv => PasswordNotKept
  BY PagesInvSays DEF DashboardInv
<1> QED
  BY <1>1, DashboardInductive, PTL

\* A value on the page is in a row of the list and is counted down by exactly one
\* interval of that row, and a row without a value has none of its own, whatever
\* is filtered, switched or refreshed while an answer is on its way.  (Intervals
\* started for a row that has gone belong to no row.)
THEOREM ValuesAreTimed == DashboardSpec => []ShownOnlyWhileTimed
<1>1. DashboardInv => ShownOnlyWhileTimed
  BY PageInvSays DEF DashboardInv
<1> QED
  BY <1>1, DashboardInductive, PTL

\* What a refused batch complains of stays with the row that was sent, however
\* the rows are changed, pasted over, removed or reset before it is answered.
THEOREM ComplaintsStay == DashboardSpec => []ErrorStaysWithItsRow
<1>1. DashboardInv => ErrorStaysWithItsRow
  BY RowsInvSays DEF DashboardInv
<1> QED
  BY <1>1, DashboardInductive, PTL

\* The parser never takes a line of a quoted value for an assignment, and misses
\* no assignment outside one, in texts of any length.
THEOREM ValuesAreKeptWhole == DashboardSpec => []ParserKeepsValuesWhole
<1>1. DashboardInv => ParserKeepsValuesWhole
  BY RowsInvSays DEF DashboardInv
<1> QED
  BY <1>1, DashboardInductive, PTL

\* In whatever order the listings of the key picker arrive, a token names keys
\* of its own environment.
THEOREM KeysBelong == DashboardSpec => []KeysOfTheirEnvironment
<1>1. DashboardInv => KeysOfTheirEnvironment
  BY DEF DashboardInv, PickerInv
<1> QED
  BY <1>1, DashboardInductive, PTL

\* A message has one timer, however many are shown and dismissed before the
\* effect that starts and clears them runs.
THEOREM MessagesAreTimed == DashboardSpec => []OneTimerEach
<1>1. DashboardInv => OneTimerEach
  BY DEF DashboardInv, ToastInv
<1> QED
  BY <1>1, DashboardInductive, PTL

\* No connection string opens production to plain HTTP or to another origin.
THEOREM ProductionStaysClosed == DashboardSpec => []ProductionIsClosed
<1>1. DashboardInv => ProductionIsClosed
  BY PerimeterInvSays DEF DashboardInv
<1> QED
  BY <1>1, DashboardInductive, PTL
=============================================================================
