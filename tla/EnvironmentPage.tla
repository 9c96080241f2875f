--------------------------- MODULE EnvironmentPage ---------------------------
(***************************************************************************)
(* The page of one environment (web/components/secrets-table.tsx and its   *)
(* page.tsx): the table of secrets, the filter over it, revealed values    *)
(* and their countdowns, and the switch between environments.  Which row   *)
(* the detail pane describes is left out: nothing else depends on it.      *)
(*                                                                         *)
(* The server renders a listing from what the core holds at that moment;   *)
(* the browser keeps component state across renders for the rows that stay *)
(* in the list, and drops it with the rows that go.  A value is            *)
(* represented by the number of the version it was decrypted from, 0 for   *)
(* none.                                                                   *)
(***************************************************************************)
EXTENDS Naturals, FiniteSets

CONSTANTS
  Environments,    \* the project's environments
  Secrets,
  HomeOf,          \* the environment of each secret
  Nowhere,         \* no environment
  RevealSeconds,   \* REVEAL_SECONDS, thirty in the source
  MaxVersions,     \* bound: versions of a secret
  MaxReveals       \* bound: reveals asked for

ASSUME PageBounds ==
  /\ IsFiniteSet(Secrets) /\ HomeOf \in [Secrets -> Environments]
  /\ Nowhere \notin Environments
  /\ RevealSeconds \in Nat \ {0} /\ MaxVersions \in Nat \ {0} /\ MaxReveals \in Nat \ {0}

VARIABLES
  current,    \* the core: the active version of each secret
  readers,    \* the core: the secrets this person may read
  shownEnv,   \* the environment the page was rendered for
  heading,    \* the environment a pending navigation or refresh will render
  listing,    \* what was rendered: version and canReveal of each secret listed
  matching,   \* what the search box and the status filter let through
  row,        \* the state of each row
  reveals,    \* the reveals under way
  asked,      \* how many were asked for
  strays      \* the reveals whose answer started an interval nobody clears

pageVars == <<current, readers, shownEnv, heading, listing, matching, row, reveals, asked, strays>>

FreshRow == [pending |-> FALSE, value |-> 0, countdown |-> 0, timers |-> 0]

RowState == [pending : BOOLEAN, value : 0..MaxVersions, countdown : 0..RevealSeconds, timers : 0..MaxReveals]

Reveal == [id : 1..MaxReveals, secret : Secrets, own : BOOLEAN,
           at : {"core", "done"}, value : 0..MaxVersions]

SecretsIn(e) == {s \in Secrets : HomeOf[s] = e}

\* Mutant: the listing is not limited to the environment.
Listed0(e) == [s \in Secrets |-> [version |-> current[s], canReveal |-> s \in readers]]

\* GET /environments/{id}/secrets, as rendered.
Listed(e) == [s \in SecretsIn(e) |-> [version |-> current[s], canReveal |-> s \in readers]]

Rows(list, filter) == DOMAIN list \cap filter

PageInit ==
  /\ current = [s \in Secrets |-> 1] /\ readers = Secrets
  /\ shownEnv \in Environments /\ heading = Nowhere
  /\ listing = Listed(shownEnv)
  /\ matching = Secrets
  /\ row = [s \in Secrets |-> FreshRow]
  /\ reveals = {} /\ asked = 0 /\ strays = {}

-----------------------------------------------------------------------------
(* What a render keeps *)

\* Mutant: rows filtered out are only hidden.
RowsAfter0(rows) == row

\* A row that leaves the list unmounts: its state goes, and the effect's
\* clean-up clears its intervals.
RowsAfter(rows) == [s \in Secrets |-> IF s \in rows THEN row[s] ELSE FreshRow]

\* An answer to a row that has gone finds no state to set.
Orphaned(rows) == {[q EXCEPT !.own = @ /\ q.secret \in rows] : q \in reveals}

Rerender(list, filter) ==
  /\ listing' = list /\ matching' = filter
  /\ row' = RowsAfter(Rows(list, filter)) /\ reveals' = Orphaned(Rows(list, filter))

-----------------------------------------------------------------------------
(* The table *)

\* The search box, the status filter, and the button that resets both.
Filter(filter) ==
  /\ filter # matching
  /\ Rerender(listing, filter)
  /\ UNCHANGED <<current, readers, shownEnv, heading, asked, strays>>

\* There is a button to press: not for those who may not read, not beside a
\* value, not while a reveal is pending.
RevealOffered(s) == listing[s].canReveal /\ row[s].value = 0 /\ ~row[s].pending

AskReveal(s) ==
  /\ s \in Rows(listing, matching) /\ RevealOffered(s)
  /\ asked < MaxReveals /\ asked' = asked + 1
  /\ reveals' = reveals \cup {[id |-> asked + 1, secret |-> s, own |-> TRUE, at |-> "core", value |-> 0]}
  /\ row' = [row EXCEPT ![s] = [@ EXCEPT !.pending = TRUE]]
  /\ UNCHANGED <<current, readers, shownEnv, heading, listing, matching, strays>>

\* The core decrypts the version active now, or refuses; the answer may still
\* be lost on its way.
ServeReveal(q) ==
  /\ q.at = "core"
  /\ \E v \in {0} \cup (IF q.secret \in readers THEN {current[q.secret]} ELSE {}) :
       reveals' = (reveals \ {q}) \cup {[q EXCEPT !.at = "done", !.value = v]}
  /\ UNCHANGED <<current, readers, shownEnv, heading, listing, matching, row, asked, strays>>

\* setRevealed and startCountdown, or a toast; pending ends either way.
Revealed(r, v) ==
  IF v = 0 THEN [r EXCEPT !.pending = FALSE]
  ELSE [pending |-> FALSE, value |-> v, countdown |-> RevealSeconds, timers |-> r.timers + 1]

\* reveal() goes on when its row has gone: the interval it starts then comes after
\* the clean-up, and the updater that would clear it never runs.
RevealAnswered(q) ==
  /\ q.at = "done"
  /\ reveals' = reveals \ {q}
  /\ row' = IF q.own THEN [row EXCEPT ![q.secret] = Revealed(@, q.value)] ELSE row
  /\ strays' = IF ~q.own /\ q.value # 0 THEN strays \cup {q.id} ELSE strays
  /\ UNCHANGED <<current, readers, shownEnv, heading, listing, matching, asked>>

Ticked(r) ==
  IF r.countdown <= 1 THEN [r EXCEPT !.value = 0, !.countdown = 0, !.timers = @ - 1]
  ELSE [r EXCEPT !.countdown = @ - 1]

\* A second of one interval.
Tick(s) ==
  /\ row[s].timers > 0
  /\ row' = [row EXCEPT ![s] = Ticked(@)]
  /\ UNCHANGED <<current, readers, shownEnv, heading, listing, matching, reveals, asked, strays>>

-----------------------------------------------------------------------------
(* Navigation.  The page stays mounted when only ?env= changes. *)

\* The tabs: router.replace.
SwitchTo(e) ==
  /\ heading' = e /\ e # shownEnv
  /\ UNCHANGED <<current, readers, shownEnv, listing, matching, row, reveals, asked, strays>>

\* router.refresh renders wherever the router is going.
Refreshed == heading' = IF heading = Nowhere THEN shownEnv ELSE heading

\* The server answers with a listing of the core's present.
RenderPage ==
  /\ heading # Nowhere /\ heading' = Nowhere /\ shownEnv' = heading
  /\ Rerender(Listed(heading), matching)
  /\ UNCHANGED <<current, readers, asked, strays>>

\* One of the reads failed: the error page takes the place of this one, and
\* its button mounts it anew.
RenderFails ==
  /\ heading # Nowhere /\ heading' = Nowhere /\ shownEnv' = heading
  /\ listing' = Listed(heading) /\ matching' = Secrets
  /\ row' = RowsAfter({}) /\ reveals' = Orphaned({})
  /\ UNCHANGED <<current, readers, asked, strays>>

-----------------------------------------------------------------------------
(* The core, changed from here or from elsewhere *)

\* The row's own dialog: success refreshes.
RotateHere(s) ==
  /\ s \in Rows(listing, matching) /\ current[s] < MaxVersions
  /\ current' = [current EXCEPT ![s] = @ + 1]
  /\ Refreshed
  /\ UNCHANGED <<readers, shownEnv, listing, matching, row, reveals, asked, strays>>

RotateElsewhere(s) ==
  /\ current[s] < MaxVersions
  /\ current' = [current EXCEPT ![s] = @ + 1]
  /\ UNCHANGED <<readers, shownEnv, heading, listing, matching, row, reveals, asked, strays>>

RevokeReading(s) ==
  /\ s \in readers /\ readers' = readers \ {s}
  /\ UNCHANGED <<current, shownEnv, heading, listing, matching, row, reveals, asked, strays>>

PageNext ==
  \/ \E filter \in SUBSET Secrets : Filter(filter)
  \/ \E s \in Secrets : AskReveal(s) \/ Tick(s) \/ RotateHere(s) \/ RotateElsewhere(s) \/ RevokeReading(s)
  \/ \E q \in reveals : ServeReveal(q) \/ RevealAnswered(q)
  \/ \E e \in Environments : SwitchTo(e)
  \/ RenderPage \/ RenderFails

\* Intervals fire; nothing is assumed of the core or of the reader.
PageFairness == \A s \in Secrets : WF_pageVars(Tick(s))

PageSpec == PageInit /\ [][PageNext]_pageVars /\ PageFairness

-----------------------------------------------------------------------------
(* Properties *)

EnvironmentTypeOK ==
  /\ current \in [Secrets -> 1..MaxVersions] /\ readers \subseteq Secrets
  /\ shownEnv \in Environments /\ heading \in Environments \cup {Nowhere}
  /\ listing \in [SecretsIn(shownEnv) -> [version : 1..MaxVersions, canReveal : BOOLEAN]]
  /\ matching \subseteq Secrets
  /\ row \in [Secrets -> RowState] /\ reveals \subseteq Reveal /\ asked \in 0..MaxReveals
  /\ strays \subseteq 1..MaxReveals

\* A value on the page is in a row of the list and is being counted down by
\* exactly one interval of that row, through filters, switches, refreshes and
\* late answers; a row in the list without a value has no interval of its own.
\* Intervals that belong to no row, those of strays, are left running.
ShownOnlyWhileTimed ==
  \A s \in Secrets :
    IF row[s].value # 0
    THEN s \in Rows(listing, matching) /\ row[s].timers = 1 /\ row[s].countdown >= 1
    ELSE row[s].timers = 0

\* A row waits exactly while one reveal of its own is under way: an answer to
\* a row that was filtered out, and has come back since, is not taken for it.
PendingIsOneReveal ==
  \A s \in Secrets :
    Cardinality({q \in reveals : q.own /\ q.secret = s}) = (IF row[s].pending THEN 1 ELSE 0)

\* threat-model.md:261: a revealed value clears itself.
RevealClears == \A s \in Secrets : row[s].value # 0 ~> row[s].value = 0
=============================================================================
