------------------------------- MODULE TokenKeys -------------------------------
(***************************************************************************)
(* Choosing the secrets a runtime token may deliver: the combobox          *)
(* (web/components/secret-key-picker.tsx) inside the dialog that issues    *)
(* the token (create-token-dialog.tsx).  The combobox fetches the keys of  *)
(* the environment chosen; the environment may be changed while the fetch  *)
(* is on its way, and the dialog closed, opened again and submitted.       *)
(***************************************************************************)
EXTENDS Naturals, FiniteSets

CONSTANTS
  KeyEnvironments,   \* the environments offered
  KeysOf,            \* the keys each one holds, a function
  MaxLoads,          \* bound: fetches under way at once
  MaxMinted          \* bound: tokens issued

ASSUME PickerBounds == KeyEnvironments # {} /\ MaxLoads \in Nat /\ MaxMinted \in Nat

VARIABLES
  dialog,       \* the dialog is open, and the combobox mounted
  environment,  \* the environment chosen; it outlives the dialog
  chosenKeys,   \* the keys chosen, none for "everything-granted"
  offered,      \* what the combobox lists
  loading, loadError,
  listOpen,
  matches,      \* the keys the query lets through
  loads,        \* the fetches under way
  minted        \* the tokens issued

pickerVars == <<dialog, environment, chosenKeys, offered, loading, loadError, listOpen, matches, loads, minted>>

AllKeys == UNION {KeysOf[e] : e \in KeyEnvironments}

\* before: the keys that were chosen when the effect ran, held by its closure.
Fetching == [n : 1..MaxLoads, of : KeyEnvironments, before : SUBSET AllKeys, cancelled : BOOLEAN]

Token == [environment : KeyEnvironments, keys : SUBSET AllKeys, amid : BOOLEAN]

PickerInit ==
  /\ dialog = FALSE /\ environment \in KeyEnvironments /\ chosenKeys = {}
  /\ offered = {} /\ loading = FALSE /\ loadError = FALSE
  /\ listOpen = FALSE /\ matches = {} /\ loads = {} /\ minted = {}

-----------------------------------------------------------------------------
(* The fetch *)

\* Mutant: the effect has no clean-up.
Cancelled0(ls) == ls

\* The clean-up of the effect.
Cancelled(ls) == {[l EXCEPT !.cancelled = TRUE] : l \in ls}

\* The effect runs when the combobox mounts and when the environment changes.
FetchKeys(e) ==
  /\ \E n \in 1..MaxLoads :
       /\ \A l \in loads : l.n # n
       /\ loads' = Cancelled(loads) \cup {[n |-> n, of |-> e, before |-> chosenKeys, cancelled |-> FALSE]}
  /\ loading' = TRUE /\ loadError' = FALSE

\* The listing: what was chosen elsewhere is dropped.
KeysArrive(l) ==
  /\ loads' = loads \ {l}
  /\ IF l.cancelled THEN UNCHANGED <<offered, chosenKeys, loading, matches>>
     ELSE /\ offered' = KeysOf[l.of]
          /\ matches' \in IF matches = offered THEN {KeysOf[l.of]} ELSE SUBSET KeysOf[l.of]
          /\ chosenKeys' = l.before \cap KeysOf[l.of]
          /\ loading' = FALSE
  /\ UNCHANGED <<dialog, environment, loadError, listOpen, minted>>

\* Refused or lost: the message takes the combobox's place, the choice stays.
KeysFail(l) ==
  /\ loads' = loads \ {l}
  /\ loading' = (loading /\ l.cancelled) /\ loadError' = (loadError \/ ~l.cancelled)
  /\ UNCHANGED <<dialog, environment, chosenKeys, offered, listOpen, matches, minted>>

-----------------------------------------------------------------------------
(* The dialog *)

OpenDialog ==
  /\ ~dialog /\ dialog' = TRUE
  /\ offered' = {} /\ matches' = {} /\ listOpen' = FALSE
  /\ FetchKeys(environment)
  /\ UNCHANGED <<environment, chosenKeys, minted>>

\* Every way out runs close(), which forgets the keys and not the environment.
CloseDialog ==
  /\ dialog /\ dialog' = FALSE
  /\ chosenKeys' = {} /\ loads' = Cancelled(loads)
  /\ offered' = {} /\ matches' = {} /\ loading' = FALSE /\ loadError' = FALSE /\ listOpen' = FALSE
  /\ UNCHANGED <<environment, minted>>

ChooseEnvironment(e) ==
  /\ dialog /\ e # environment /\ environment' = e
  /\ FetchKeys(e)
  /\ UNCHANGED <<dialog, chosenKeys, offered, listOpen, matches, minted>>

\* POST /tokens; nothing waits for the listing.
SubmitToken ==
  /\ dialog /\ Cardinality(minted) < MaxMinted
  /\ minted' = minted \cup {[environment |-> environment, keys |-> chosenKeys, amid |-> loading \/ loadError]}
  /\ UNCHANGED <<dialog, environment, chosenKeys, offered, loading, loadError, listOpen, matches, loads>>

-----------------------------------------------------------------------------
(* The combobox *)

Ready == dialog /\ ~loading /\ ~loadError /\ offered # {}

\* Typing opens the list; what matches is some part of it.
TypeQuery(m) ==
  /\ Ready /\ m \subseteq offered
  /\ matches' = m /\ listOpen' = TRUE
  /\ UNCHANGED <<dialog, environment, chosenKeys, offered, loading, loadError, loads, minted>>

\* A choice clears the query.  Its focus opens the list.
toggle(k) ==
  /\ chosenKeys' = IF k \in chosenKeys THEN chosenKeys \ {k} ELSE chosenKeys \cup {k}
  /\ matches' = offered /\ listOpen' = TRUE
  /\ UNCHANGED <<dialog, environment, offered, loading, loadError, loads, minted>>

\* A click in the list, or Enter, which takes the first match not yet chosen.
PickKey(k) == Ready /\ k \in matches /\ (listOpen \/ k \notin chosenKeys) /\ toggle(k)

\* The cross of a key, or Backspace in an empty query.
DropKey(k) ==
  /\ Ready /\ k \in chosenKeys
  /\ chosenKeys' = chosenKeys \ {k}
  /\ UNCHANGED <<dialog, environment, offered, loading, loadError, listOpen, matches, loads, minted>>

\* Escape, or a press outside.
CloseList ==
  /\ Ready /\ listOpen /\ listOpen' = FALSE
  /\ UNCHANGED <<dialog, environment, chosenKeys, offered, loading, loadError, matches, loads, minted>>

PickerNext ==
  \/ \E l \in loads : KeysArrive(l) \/ KeysFail(l)
  \/ OpenDialog \/ CloseDialog \/ SubmitToken \/ CloseList
  \/ \E e \in KeyEnvironments : ChooseEnvironment(e)
  \/ \E m \in SUBSET AllKeys : TypeQuery(m)
  \/ \E k \in AllKeys : PickKey(k) \/ DropKey(k)

PickerSpec == PickerInit /\ [][PickerNext]_pickerVars

-----------------------------------------------------------------------------
(* Properties *)

PickerTypeOK ==
  /\ dialog \in BOOLEAN /\ environment \in KeyEnvironments
  /\ chosenKeys \subseteq AllKeys /\ offered \subseteq AllKeys /\ matches \subseteq offered
  /\ loading \in BOOLEAN /\ loadError \in BOOLEAN /\ listOpen \in BOOLEAN
  /\ loads \subseteq Fetching /\ minted \subseteq Token

\* In whatever order the listings arrive: a token submitted from a combobox
\* that is not loading and shows no error names keys of its own environment,
\* and so does what the combobox shows (the `cancelled' flag and the filter of
\* secret-key-picker.tsx).
KeysOfTheirEnvironment ==
  /\ \A t \in minted : ~t.amid => t.keys \subseteq KeysOf[t.environment]
  /\ dialog /\ ~loading /\ ~loadError => offered = KeysOf[environment] /\ chosenKeys \subseteq offered
=============================================================================
