------------------------------ MODULE MCDashboard ------------------------------
(***************************************************************************)
(* The dashboard for TLC.  Its modules share no variable: what one of them *)
(* does is independent of the others, so one run explores each in turn,    *)
(* `part' saying which, while the rest stay in one initial state.          *)
(***************************************************************************)
EXTENDS DashboardForms, BrowserSessions, SignInPages, EnvironmentPage, SecretRows, TokenKeys,
        Toasts, Perimeter

CONSTANTS Parts, o1, e1, e2

VARIABLE part

AllParts ==
  {"forms", "sessions", "sign-in", "environment", "rows", "keys", "toasts", "perimeter"}

\* The parts that have something to wait for.
Waiting == {"forms", "sessions", "sign-in", "environment", "toasts"}

ASSUME PartsAssumption == Parts \subseteq AllParts

\* A secret in each environment; keys of one name in both.
HomeMap  == [s \in Secrets |-> IF s = 1 THEN e1 ELSE e2]
KeyTable == [e \in KeyEnvironments |-> IF e = e1 THEN {"A", "B"} ELSE {"B"}]

\* One route of each kind that the model tells apart.
EachKind ==
  {PostLogin, PostRecover, PostLogout, PostSwitch, PostToken, GetSession}
FewRoutes == {PostLogin, PostLogout, PostSwitch, PostToken}

dashboardVars ==
  <<formVars, sessionVars, signInVars, pageVars, rowVars, pickerVars, toastVars, perimeterVars, part>>

\* The parts that are not explored, in one of their initial states.
Asleep(p, at) == part = p \/ at

DashboardInit ==
  /\ part \in Parts
  /\ FormInit      /\ Asleep("forms", kind = CHOOSE k \in Kinds : TRUE)
  /\ SessionInit   /\ Asleep("sessions", sess = << >>)
  /\ PagesInit     /\ Asleep("sign-in", screen = "password")
  /\ PageInit      /\ Asleep("environment", shownEnv = e1)
  /\ RowsInit      /\ Asleep("rows", stored = {})
  /\ PickerInit    /\ Asleep("keys", environment = e1)
  /\ ToastInit
  /\ PerimeterInit /\ Asleep("perimeter", url = NoString)

DashboardNext ==
  \/ /\ part = "forms" /\ FormNext
     /\ UNCHANGED <<sessionVars, signInVars, pageVars, rowVars, pickerVars, toastVars, perimeterVars, part>>
  \/ /\ part = "sessions" /\ SessionNext
     /\ UNCHANGED <<formVars, signInVars, pageVars, rowVars, pickerVars, toastVars, perimeterVars, part>>
  \/ /\ part = "sign-in" /\ PagesNext
     /\ UNCHANGED <<formVars, sessionVars, pageVars, rowVars, pickerVars, toastVars, perimeterVars, part>>
  \/ /\ part = "environment" /\ PageNext
     /\ UNCHANGED <<formVars, sessionVars, signInVars, rowVars, pickerVars, toastVars, perimeterVars, part>>
  \/ /\ part = "rows" /\ RowsNext
     /\ UNCHANGED <<formVars, sessionVars, signInVars, pageVars, pickerVars, toastVars, perimeterVars, part>>
  \/ /\ part = "keys" /\ PickerNext
     /\ UNCHANGED <<formVars, sessionVars, signInVars, pageVars, rowVars, toastVars, perimeterVars, part>>
  \/ /\ part = "toasts" /\ ToastNext
     /\ UNCHANGED <<formVars, sessionVars, signInVars, pageVars, rowVars, pickerVars, perimeterVars, part>>
  \/ /\ part = "perimeter" /\ PerimeterNext
     /\ UNCHANGED <<formVars, sessionVars, signInVars, pageVars, rowVars, pickerVars, toastVars, part>>

DashboardSpec == DashboardInit /\ [][DashboardNext]_dashboardVars

\* The fairness each module states, together.
FairDashboardSpec ==
  DashboardSpec /\ FormFairness /\ SessionFairness /\ PagesFairness /\ PageFairness /\ ToastFairness

-----------------------------------------------------------------------------
(* Properties *)

\* Every variable of the dashboard's modules has its type.
DashboardTypeOK ==
  /\ FormTypeOK /\ SessionTypeOK /\ PagesTypeOK /\ EnvironmentTypeOK
  /\ RowsTypeOK /\ PickerTypeOK /\ ToastTypeOK /\ PerimeterTypeOK

\* A button that loads takes no press: one request of a dialog, one ceremony of
\* a sign-in form, one reveal of a row at a time, whatever is closed, opened,
\* filtered or turned back in the meantime (motion/button.tsx, "loading").
OneAtATime == OneRequestAtATime /\ OneCeremony /\ PendingIsOneReveal

\* Nothing on screen waits forever: no dialog, no call, no redirect, no form, no
\* revealed value and no message, whatever the reader does (the timers of
\* secrets-table.tsx and toast.tsx, the fifteen seconds of core-api.ts).
EverythingSettles ==
  PendingEnds /\ CallsAreAnswered /\ LoadsSettle /\ BusyEnds /\ RevealClears /\ ToastsGo
=============================================================================
