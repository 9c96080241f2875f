--------------------------- MODULE DashboardForms ---------------------------
(***************************************************************************)
(* The dialogs and row actions of the dashboard (web/components).  Each is *)
(* a component with the same skeleton: it opens, is filled in, sends one   *)
(* request with apiFetch, and lives on while the answer is on its way; the *)
(* reader may close it, open it again or leave the page in the meantime.   *)
(* What differs from one to the next is when it may be closed, what        *)
(* closing clears, and what an answer does.  Those traits are the records  *)
(* below, one per component.                                               *)
(*                                                                         *)
(* Text and results are not represented; a number says during which        *)
(* opening ("visit") of the form they came about, 0 for none.              *)
(***************************************************************************)
EXTENDS Naturals, FiniteSets

CONSTANTS
  MaxVisits,   \* bound: how often the form is opened
  MaxPosts,    \* bound: requests sent
  Kinds        \* the forms explored, a subset of Forms

ASSUME FormBounds == MaxVisits \in Nat \ {0} /\ MaxPosts \in Nat \ {0}

-----------------------------------------------------------------------------
(* The components.  idle: the ways to close it; busy: the ways that remain *)
(* while a request is pending ("dismiss" is Escape, the overlay and the    *)
(* corner cross, "cancel" the button of the footer, "done" the button that *)
(* ends the display of a result).  clears: the ways that forget what was   *)
(* typed and shown.  has: the state it carries, whether it checks its      *)
(* fields before sending, whether they may be empty, and whether it sends  *)
(* without being opened.  success and always: what the try block and the   *)
(* finally block do with an answer.                                        *)

RotateSecretDialog ==
  [idle |-> {"dismiss", "cancel"}, busy |-> {"dismiss", "cancel"}, clears |-> {"dismiss"},
   has |-> {"draft", "error"}, success |-> {"close", "refresh"}, always |-> {"forget"}]

\* onOpenChange is undefined and Cancel disabled while the request is pending.
ChangeExpiryDialog ==
  [idle |-> {"dismiss", "cancel"}, busy |-> {}, clears |-> {},
   has |-> {"draft", "error", "optional"}, success |-> {"close", "refresh"}, always |-> {}]

\* Cancel calls setOpen(false), which does not run onOpenChange and its reset.
AddSecretsDialog ==
  [idle |-> {"dismiss", "cancel"}, busy |-> {"dismiss", "cancel"}, clears |-> {"dismiss"},
   has |-> {"draft", "error", "check"}, success |-> {"forget", "close", "refresh"}, always |-> {}]

CreateTokenDialog ==
  [idle |-> {"dismiss", "cancel", "done"}, busy |-> {"dismiss", "cancel"},
   clears |-> {"dismiss", "cancel", "done"},
   has |-> {"draft", "error", "result"}, success |-> {"show", "refresh"}, always |-> {}]

InviteMemberDialog ==
  [idle |-> {"dismiss", "cancel", "done"}, busy |-> {"dismiss", "cancel"},
   clears |-> {"dismiss", "cancel", "done"},
   has |-> {"draft", "error", "result"}, success |-> {"show", "refresh"}, always |-> {}]

\* Its Cancel is disabled while pending; Escape and the overlay are not.
IssueRecoveryDialog ==
  [idle |-> {"dismiss", "cancel", "done"}, busy |-> {"dismiss"}, clears |-> {"dismiss", "cancel", "done"},
   has |-> {"error", "result"}, success |-> {"show"}, always |-> {}]

\* Success forgets the reason and the tick at "can see"; the subject stays.
GrantAccessDialog ==
  [idle |-> {"dismiss", "cancel"}, busy |-> {"dismiss", "cancel"}, clears |-> {},
   has |-> {"draft", "error", "check"}, success |-> {"close", "forget", "refresh"}, always |-> {}]

\* Success forgets the name and the date; the kind of identity stays.
CreateIdentityDialog ==
  [idle |-> {"dismiss", "cancel"}, busy |-> {"dismiss", "cancel"}, clears |-> {},
   has |-> {"draft", "error"}, success |-> {"close", "forget", "refresh"}, always |-> {}]

CreateProjectDialog ==
  [idle |-> {"dismiss", "cancel"}, busy |-> {"dismiss", "cancel"}, clears |-> {},
   has |-> {"draft", "error"}, success |-> {"close", "forget", "push"}, always |-> {}]

\* Whatever the answer, the whole document is loaded anew.
SignOutDialog ==
  [idle |-> {"dismiss", "cancel"}, busy |-> {}, clears |-> {},
   has |-> {}, success |-> {}, always |-> {"load"}]

\* Reached from the menu of the row, and not unmounted with it.
RevokeIdentityDialog ==
  [idle |-> {"dismiss", "cancel"}, busy |-> {"dismiss", "cancel"}, clears |-> {},
   has |-> {}, success |-> {"close", "refresh"}, always |-> {}]

\* Confirmed in the row itself; Keep is disabled while pending.
RemovePasskeyRow ==
  [idle |-> {"cancel"}, busy |-> {}, clears |-> {},
   has |-> {}, success |-> {"refresh"}, always |-> {"close"}]

\* Asks first only if there are codes to lose; the new ones replace the panel
\* until the reader says they are saved.
RecoveryCodesSettings ==
  [idle |-> {"cancel", "done"}, busy |-> {}, clears |-> {"done"},
   has |-> {"result", "direct"}, success |-> {"show"}, always |-> {"close"}]

\* A row with a button and nothing to confirm.
TokenRow ==
  [idle |-> {}, busy |-> {}, clears |-> {}, has |-> {}, success |-> {"refresh"}, always |-> {}]

MemberRow ==
  [idle |-> {}, busy |-> {}, clears |-> {}, has |-> {}, success |-> {"refresh"}, always |-> {}]

InvitationRow ==
  [idle |-> {}, busy |-> {}, clears |-> {}, has |-> {}, success |-> {"refresh"}, always |-> {}]

GrantRow ==
  [idle |-> {}, busy |-> {}, clears |-> {}, has |-> {}, success |-> {"refresh"}, always |-> {}]

\* Stays pending after success: the document that showed it is being left.
CreateFirstOrganizationForm ==
  [idle |-> {}, busy |-> {}, clears |-> {}, has |-> {"draft", "error"}, success |-> {"load"}, always |-> {}]

Forms ==
  {"rotate", "expiry", "secrets", "token", "invite", "recovery", "grant", "identity", "project",
   "signout", "revoke-identity", "passkey", "codes", "token-row", "member-row", "invitation-row",
   "grant-row", "organization"}

ASSUME KindsAssumption == Kinds \subseteq Forms

Traits ==
  [f \in Forms |->
     CASE f = "rotate"          -> RotateSecretDialog
       [] f = "expiry"          -> ChangeExpiryDialog
       [] f = "secrets"         -> AddSecretsDialog
       [] f = "token"           -> CreateTokenDialog
       [] f = "invite"          -> InviteMemberDialog
       [] f = "recovery"        -> IssueRecoveryDialog
       [] f = "grant"           -> GrantAccessDialog
       [] f = "identity"        -> CreateIdentityDialog
       [] f = "project"         -> CreateProjectDialog
       [] f = "signout"         -> SignOutDialog
       [] f = "revoke-identity" -> RevokeIdentityDialog
       [] f = "passkey"         -> RemovePasskeyRow
       [] f = "codes"           -> RecoveryCodesSettings
       [] f = "token-row"       -> TokenRow
       [] f = "member-row"      -> MemberRow
       [] f = "invitation-row"  -> InvitationRow
       [] f = "grant-row"       -> GrantRow
       [] f = "organization"    -> CreateFirstOrganizationForm]

-----------------------------------------------------------------------------
VARIABLES
  kind,      \* which form this is
  place,     \* "page", "away" (another page, client side) or "loaded" (a new document)
  mount,     \* which mounting of the component
  open, visit, draft, shown, err, pending,   \* its state
  flight     \* the requests ever sent

formVars == <<kind, place, mount, open, visit, draft, shown, err, pending, flight>>

T      == Traits[kind]
Inline == {f \in Forms : Traits[f].idle = {}}

Request == [call : 1..MaxPosts, mount : 1..2, visit : 0..MaxVisits,
            core : {"sent", "done", "refused"}, answer : {"none", "ok", "failed"}]

Unanswered == {q \in flight : q.mount = mount /\ q.answer = "none"}

Fresh ==
  /\ open' = (kind \in Inline) /\ visit' = 0
  /\ draft' = 0 /\ shown' = 0 /\ err' = 0 /\ pending' = FALSE

FormInit ==
  /\ kind \in Kinds
  /\ place = "page" /\ mount = 1
  /\ open = (kind \in Inline) /\ visit = 0
  /\ draft = 0 /\ shown = 0 /\ err = 0 /\ pending = FALSE
  /\ flight = {}

-----------------------------------------------------------------------------
(* The reader *)

\* The trigger of a dialog is never disabled; those of the confirmations in
\* place are, and are hidden behind a result.
OpenForm ==
  /\ place = "page" /\ ~open /\ visit < MaxVisits
  /\ kind \in {"codes", "passkey"} => ~pending /\ shown = 0
  /\ open' = TRUE /\ visit' = visit + 1
  /\ UNCHANGED <<kind, place, mount, draft, shown, err, pending, flight>>

Type ==
  /\ place = "page" /\ open /\ shown = 0
  /\ "draft" \in T.has /\ draft # visit + 1
  /\ draft' = visit + 1
  /\ UNCHANGED <<kind, place, mount, open, visit, shown, err, pending, flight>>

Clears(way) == way \in T.clears

\* Mutant: onOpenChange is handed over whether or not a request is pending.
AlwaysClosable(way) == way \in T.idle

MayClose(way) == way \in (IF pending THEN T.busy ELSE T.idle)

CloseForm(way) ==
  /\ place = "page" /\ MayClose(way)
  /\ CASE way = "done"   -> shown # 0 /\ (open \/ kind = "codes")
       [] way = "cancel" -> shown = 0 /\ open
       [] OTHER          -> open
  /\ open' = FALSE
  /\ draft' = IF Clears(way) THEN 0 ELSE draft
  /\ shown' = IF Clears(way) THEN 0 ELSE shown
  /\ err'   = IF Clears(way) THEN 0 ELSE err
  /\ UNCHANGED <<kind, place, mount, visit, pending, flight>>

\* Mutant: the button does not show that it is loading, and takes presses.
Pressable0 == TRUE

\* A loading button is disabled, and with it the form's implicit submission.
Pressable == ~pending

OnScreen == place = "page" /\ shown = 0 /\ (open \/ "direct" \in T.has)

\* The request leaves; draft and result stay where they are.
Submit ==
  /\ OnScreen /\ Pressable
  /\ "draft" \in T.has => draft # 0 \/ "optional" \in T.has
  /\ Cardinality(flight) < MaxPosts
  /\ flight' = flight \cup {[call |-> Cardinality(flight) + 1, mount |-> mount, visit |-> visit,
                             core |-> "sent", answer |-> "none"]}
  /\ pending' = TRUE /\ err' = 0
  /\ UNCHANGED <<kind, place, mount, open, visit, draft, shown>>

\* Refused by the form itself: no key, no capability, no reason.
FailCheck ==
  /\ OnScreen /\ Pressable /\ "check" \in T.has
  /\ err' = visit
  /\ UNCHANGED <<kind, place, mount, open, visit, draft, shown, pending, flight>>

\* Another page by a link: the component is unmounted, its requests go on.
Leave ==
  /\ place = "page"
  /\ place' = "away"
  /\ UNCHANGED <<kind, mount, open, visit, draft, shown, err, pending, flight>>

\* Back: a new component, rendered from what the core knows now.
Return ==
  /\ place = "away" /\ mount < 2
  /\ place' = "page" /\ mount' = mount + 1
  /\ Fresh
  /\ UNCHANGED <<kind, flight>>

-----------------------------------------------------------------------------
(* The core, and the answer *)

\* Carried out or refused, perhaps after the browser was told of a time-out.
Perform(q) ==
  /\ q.core = "sent"
  /\ \E outcome \in {"done", "refused"} :
       flight' = (flight \ {q}) \cup {[q EXCEPT !.core = outcome]}
  /\ UNCHANGED <<kind, place, mount, open, visit, draft, shown, err, pending>>

\* Mutant: pending is reset after success only.
ResetOnSuccess(did, ok) == ~ok

\* The finally block resets pending; a form without one keeps it after success.
StaysPending(did, ok) == kind = "organization" /\ ok

\* A refresh renders the page anew and leaves the form's own state alone.
Goes(did) == IF "load" \in did THEN "loaded" ELSE IF "push" \in did THEN "away" ELSE place

\* The continuation after the await.  The state of an unmounted component is
\* beyond reach; the router is not.
Settle(q, ok) ==
  LET did   == T.always \cup (IF ok THEN T.success ELSE {})
      alive == place = "page" /\ q.mount = mount
  IN
  /\ q.answer = "none" /\ place # "loaded"
  /\ ok => q.core = "done"
  /\ flight' = (flight \ {q}) \cup {[q EXCEPT !.answer = IF ok THEN "ok" ELSE "failed"]}
  /\ place'  = Goes(did)
  /\ IF alive
     THEN /\ open'    = (open /\ "close" \notin did)
          /\ draft'   = IF "forget" \in did THEN 0 ELSE draft
          /\ shown'   = IF "show" \in did THEN q.visit + 1 ELSE shown
          /\ err'     = IF ~ok /\ "error" \in T.has THEN visit ELSE err
          /\ pending' = StaysPending(did, ok)
     ELSE UNCHANGED <<open, draft, shown, err, pending>>
  /\ UNCHANGED <<kind, mount, visit>>

\* 401: apiFetch loads the sign-in page, whoever asked.
SessionEnds(q) ==
  /\ q.answer = "none" /\ place # "loaded" /\ q.core = "refused"
  /\ flight' = (flight \ {q}) \cup {[q EXCEPT !.answer = "failed"]}
  /\ place' = "loaded"
  /\ UNCHANGED <<kind, mount, open, visit, draft, shown, err, pending>>

FormNext ==
  \/ OpenForm \/ Type \/ Submit \/ FailCheck \/ Leave \/ Return
  \/ \E way \in {"dismiss", "cancel", "done"} : CloseForm(way)
  \/ \E q \in flight : Perform(q) \/ (\E ok \in BOOLEAN : Settle(q, ok)) \/ SessionEnds(q)

\* The backend gives the core fifteen seconds and then answers for it, and a
\* broken connection rejects the fetch: every request is answered.
FormFairness == WF_formVars(\E q \in flight : (\E ok \in BOOLEAN : Settle(q, ok)) \/ SessionEnds(q))

FormSpec == FormInit /\ [][FormNext]_formVars /\ FormFairness

-----------------------------------------------------------------------------
(* Properties *)

FormTypeOK ==
  /\ kind \in Kinds /\ place \in {"page", "away", "loaded"} /\ mount \in 1..2
  /\ open \in BOOLEAN /\ visit \in 0..MaxVisits
  /\ draft \in 0..MaxVisits + 1 /\ shown \in 0..MaxVisits + 1 /\ err \in 0..MaxVisits
  /\ pending \in BOOLEAN
  /\ flight \subseteq Request

\* However often a form is closed and opened again under its own request, one
\* component never has two requests on their way (loading, in every form).
OneRequestAtATime == place = "page" => Cardinality(Unanswered) <= 1

\* What creates something does so once per opening, unless an answer was a
\* failure and the reader tried again.
Creating == {"rotate", "secrets", "token", "invite", "grant", "identity", "project", "organization"}

CreatedOnce ==
  kind \in Creating =>
    \A m \in 1..2, v \in 0..MaxVisits :
      LET mine == {q \in flight : q.mount = m /\ q.visit = v}
      IN  Cardinality({q \in mine : q.core = "done"})
            <= 1 + Cardinality({q \in mine : q.answer = "failed"})

\* A form that cannot be closed while it waits never shows the outcome of one
\* opening in another (change-expiry-dialog.tsx, sign-out-dialog.tsx, the
\* confirmations in place).
AnswerMeetsItsVisit ==
  T.busy = {} /\ place = "page" => \A q \in Unanswered : q.visit = visit

\* A form that waits stops waiting, whatever happens to the request.
PendingEnds == (place = "page" /\ pending) ~> (~pending \/ place # "page")
=============================================================================
