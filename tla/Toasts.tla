-------------------------------- MODULE Toasts --------------------------------
(***************************************************************************)
(* The messages in the corner of the dashboard (web/components/ui/         *)
(* toast.tsx over motion/animated-toast-stack.tsx).  showToast appends to  *)
(* a list in React state; an effect that runs after the render starts a    *)
(* timer for each message it has not seen and clears those of messages     *)
(* that are gone; the timer, the cross and a drag each dismiss by id.      *)
(*                                                                         *)
(* Several messages may be shown, dismissed or time out between two runs   *)
(* of the effect, which is therefore an action of its own.  The list is in *)
(* the order of the ids, which are counted up: a set holds all of it.      *)
(***************************************************************************)
EXTENDS Naturals, FiniteSets

CONSTANTS
  MaxToasts,    \* bound: messages ever shown
  MaxVisible,   \* maxVisible, three in the source
  SuccessTime,  \* SUCCESS_MS and ERROR_MS, in ticks
  ErrorTime

ASSUME ToastBounds == MaxToasts \in Nat /\ MaxVisible \in Nat \ {0} /\ SuccessTime \in Nat \ {0} /\ ErrorTime \in Nat \ {0}

VARIABLES
  toasts,      \* the list
  settled,     \* the effect has run for this list
  timers,      \* the timeouts set, with what remains; due at 0
  timerOf,     \* toastTimers: the messages it has an entry for
  shownCount,  \* how many were shown
  stackAlive   \* the provider is mounted

toastVars == <<toasts, settled, timers, timerOf, shownCount, stackAlive>>

Ids   == 1..MaxToasts
Toast == [id : Ids, status : {"success", "error"}]

LifeOf(status) == IF status = "success" THEN SuccessTime ELSE ErrorTime
Longest        == IF ErrorTime > SuccessTime THEN ErrorTime ELSE SuccessTime

Present == {t.id : t \in toasts}

Timer == [id : Ids, left : 0..Longest]

ToastInit ==
  /\ toasts = {} /\ settled = TRUE /\ timers = {} /\ timerOf = {}
  /\ shownCount = 0 /\ stackAlive = TRUE

\* toast.success and toast.error.
showToast(status) ==
  /\ stackAlive /\ shownCount < MaxToasts
  /\ shownCount' = shownCount + 1
  /\ toasts' = toasts \cup {[id |-> shownCount + 1, status |-> status]}
  /\ settled' = FALSE
  /\ UNCHANGED <<timers, timerOf, stackAlive>>

Without(id) == {t \in toasts : t.id # id}

\* The newest, and nothing else, can be pressed or dragged.
Visible == {t \in toasts : Cardinality({u \in toasts : u.id > t.id}) < MaxVisible}

dismissToast(id) ==
  /\ stackAlive /\ \E t \in Visible : t.id = id
  /\ toasts' = Without(id) /\ settled' = FALSE
  /\ UNCHANGED <<timers, timerOf, shownCount, stackAlive>>

\* Mutant: the timers of messages that are gone are left to run.
Stopped0(ts) == ts

\* The effect, first loop: entries without a message.
Stopped(ts) == {t \in ts : t.id \in Present}

\* Second loop: messages without an entry.  The time since showToast is the
\* time between a render and its effect, none in ticks.
Started == {[id |-> t.id, left |-> LifeOf(t.status)] : t \in {u \in toasts : u.id \notin timerOf}}

ToastEffect ==
  /\ stackAlive /\ ~settled /\ settled' = TRUE
  /\ timers' = Stopped(timers) \cup Started
  /\ timerOf' = {t.id : t \in timers'}
  /\ UNCHANGED <<toasts, shownCount, stackAlive>>

\* The next commit waits for the effects of the last one.
Elapse ==
  /\ settled /\ \A t \in timers : t.left > 0
  /\ timers # {} /\ timers' = {[t EXCEPT !.left = @ - 1] : t \in timers}
  /\ UNCHANGED <<toasts, settled, timerOf, shownCount, stackAlive>>

TimerFires(t) ==
  /\ t.left = 0
  /\ timers' = timers \ {t} /\ timerOf' = timerOf \ {t.id}
  /\ toasts' = Without(t.id) /\ settled' = (settled /\ Without(t.id) = toasts)
  /\ UNCHANGED <<shownCount, stackAlive>>

\* A new document.
StackUnmounts ==
  /\ stackAlive /\ stackAlive' = FALSE
  /\ timers' = {} /\ timerOf' = {} /\ toasts' = {} /\ settled' = TRUE
  /\ UNCHANGED shownCount

ToastNext ==
  \/ \E status \in {"success", "error"} : showToast(status)
  \/ \E id \in Ids : dismissToast(id)
  \/ ToastEffect \/ Elapse \/ StackUnmounts
  \/ \E t \in timers : TimerFires(t)

ToastFairness ==
  /\ WF_toastVars(ToastEffect) /\ WF_toastVars(Elapse)
  /\ WF_toastVars(\E t \in timers : TimerFires(t))

ToastSpec == ToastInit /\ [][ToastNext]_toastVars /\ ToastFairness

-----------------------------------------------------------------------------
(* Properties *)

ToastTypeOK ==
  /\ toasts \subseteq Toast /\ settled \in BOOLEAN /\ timers \subseteq Timer
  /\ timerOf \subseteq Ids /\ shownCount \in 0..MaxToasts /\ stackAlive \in BOOLEAN

\* One timer for one message, whatever was shown and dismissed while the
\* effect was due; and no more once it has run.
OneTimerEach ==
  /\ \A s, t \in timers : s.id = t.id => s = t
  /\ timerOf = {t.id : t \in timers}
  /\ settled => timerOf = Present

\* A message goes, also one that was pushed out of sight before its time
\* (the list has no limit).
ToastsGo == \A id \in Ids : id \in Present ~> id \notin Present
=============================================================================
