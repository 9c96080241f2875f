--------------------------- MODULE SecretVersions ---------------------------
(***************************************************************************)
(* The version lifecycle of one secret: internal/secrets/service.go over   *)
(* internal/store/secrets.go, driven by the handlers of                    *)
(* internal/httpapi/handlers_secrets.go.                                   *)
(*                                                                         *)
(* Every HTTP request is a process.  A write runs a PostgreSQL transaction *)
(* at READ COMMITTED, the level store.InTx leaves it at, so each statement *)
(* is split into the moment it takes its snapshot and the moments it       *)
(* reaches each row: an UPDATE waits for a row another transaction has     *)
(* written and re-evaluates its WHERE clause on what that transaction left;*)
(* the two unique indexes of secret_versions make an INSERT or an UPDATE   *)
(* wait for an uncommitted entry and fail on a committed one.              *)
(*                                                                         *)
(* A value is identified with the version that stored it.  `aad' is the    *)
(* version number bound into the ciphertext as authenticated data.         *)
(***************************************************************************)
EXTENDS Naturals, FiniteSets

CONSTANTS
  Requests,    \* concurrent HTTP requests
  Nobody,      \* "no transaction holds this row"
  MaxVersion,  \* bound: versions the secret may ever reach
  Horizon,     \* bound: the clock stops here
  Offered      \* bound: the operations callers ask for

ASSUME NobodyAssumption == Nobody \notin Requests
ASSUME BoundsAssumption == MaxVersion \in Nat \ {0} /\ Horizon \in Nat

Versions == 1 .. MaxVersion
Never    == Horizon + 1            \* expires_at IS NULL
Statuses == {"NONE", "ACTIVE", "SUPERSEDED", "REVOKED"}

\* A row of secret_versions with its material; status NONE is "no such row".
Row   == [status : Statuses, revoked : BOOLEAN, expires : 0 .. Never, aad : 0 .. MaxVersion + 1]
NoRow == [status |-> "NONE", revoked |-> FALSE, expires |-> 0, aad |-> 0]
NotRead == [issued |-> 0, barred |-> {}]

Reads  == {"deliver", "reveal"}
Writes == {"create", "rotate", "rollback", "revoke", "expire"}
Ops    == Reads \cup Writes
Dated  == {"deliver", "create", "rotate", "expire"}   \* read the clock on their way in

ASSUME OfferedAssumption == Offered \subseteq Ops

\* The transaction has begun and has not ended.
InTx == {"supersede", "target", "index", "written"}
PCs  == {"idle", "located", "stamped", "authorized"} \cup InTx

VARIABLES
  rows,     \* committed rows
  dirty,    \* latest tuple of each row, committed or not
  lock,     \* transaction that wrote the latest tuple and has not ended
  now,      \* clock
  pc, op,   \* per request: where it is, what it was asked to do
  target,   \* version the request acts on (chosen by the caller, or by INSERT)
  seen,     \* version of the summary the request read, 0 when none was active
  seenRow,  \* the rest of that summary
  pending,  \* rows the running UPDATE matched in its snapshot and has yet to reach
  stamp,    \* `now' as the request captured it
  before    \* history: what had been committed when the request read its summary

database == <<rows, dirty, lock>>
request  == <<pc, op, target, seen, seenRow, pending, stamp>>
vars     == <<rows, dirty, lock, now, pc, op, target, seen, seenRow, pending, stamp, before>>

-----------------------------------------------------------------------------
(* What the statements write into a row *)

NewRow(e, n)     == [status |-> "ACTIVE", revoked |-> FALSE, expires |-> e, aad |-> n]
WithStatus(r, s) == [status |-> s, revoked |-> r.revoked, expires |-> r.expires, aad |-> r.aad]
\* Mutant: expiry as a status of its own, which no reader of the table knows.
ExpiryAsStatus(r, e) == [status |-> "EXPIRED", revoked |-> r.revoked, expires |-> e, aad |-> r.aad]
WithExpiry(r, e) == [status |-> r.status, revoked |-> r.revoked, expires |-> e, aad |-> r.aad]
\* Mutant: revocation marks the row and leaves it ACTIVE.
MarkedRevoked(r) == [status |-> r.status, revoked |-> TRUE, expires |-> r.expires, aad |-> r.aad]
AsRevoked(r)     == [status |-> "REVOKED", revoked |-> TRUE, expires |-> r.expires, aad |-> r.aad]

-----------------------------------------------------------------------------
(* Helpers *)

Exists(r)       == r.status # "NONE"
IssuedIn(table) == Cardinality({v \in Versions : Exists(table[v])})
Issued          == IssuedIn(rows)
ActiveIn(table) == {v \in Versions : table[v].status = "ACTIVE"}

\* What a statement of t sees: committed rows and its own writes.
View(t) == [v \in Versions |-> IF lock[v] = t THEN dirty[v] ELSE rows[v]]

\* COALESCE(max(version), 0) + 1 over the rows t sees.
NextNumber(t) ==
  LET present == {v \in Versions : Exists(View(t)[v])}
  IN  CHOOSE n \in 1 .. MaxVersion + 1 :
        /\ \A v \in present : v < n
        /\ n = 1 \/ n - 1 \in present

Expired(r, time)     == r.expires <= time
\* Mutant: delivery asks only for the status.
DeliverableIfActive(r, time) == r.status = "ACTIVE" /\ ~r.revoked
Deliverable(r, time) == r.status = "ACTIVE" /\ ~r.revoked /\ ~Expired(r, time)

\* Committed versions that were withdrawn, by revocation or by their expiry.
Undeliverable == {v \in Versions : Exists(rows[v]) /\ (rows[v].revoked \/ Expired(rows[v], now))}

\* Requests that hold an entry of the index on (secret_id) WHERE status =
\* 'ACTIVE', or of the index on (secret_id, version), that t has to wait for.
\* A creation meets the index on the secret's key, which another creation holds.
IndexBlockers(t) ==
  {u \in Requests \ {t} : \E v \in Versions :
      /\ lock[v] = u
      /\ \/ op[t] = "create" /\ ~Exists(rows[v])
         \/ op[t] = "rotate" /\ v = target[t]
         \/ op[t] # "create" /\ v # target[t] /\ "ACTIVE" \in {rows[v].status, dirty[v].status}}

\* Mutant: no partial unique index on the ACTIVE rows.
NumberConflict(t) ==
  \/ op[t] = "create" /\ \E v \in Versions : Exists(rows[v])
  \/ op[t] = "rotate" /\ Exists(dirty[target[t]])

\* A committed entry, or one of t's own, that the new entry of t duplicates.
IndexConflict(t) ==
  \/ op[t] = "create" /\ \E v \in Versions : Exists(rows[v])
  \/ op[t] = "rotate" /\ Exists(dirty[target[t]])
  \/ /\ op[t] # "create"
     /\ \E v \in Versions \ {target[t]} : lock[v] \in {t, Nobody} /\ dirty[v].status = "ACTIVE"

\* Mutant: rollback accepts any version of the secret.
TargetExists(t, r) == Exists(r) /\ (op[t] = "revoke" => ~r.revoked)

\* The WHERE clauses of RevokeVersion, ActivateVersion and SetVersionExpiry.
TargetMatches(t, r) ==
  /\ Exists(r)
  /\ op[t] = "revoke"   => ~r.revoked
  /\ op[t] = "rollback" => ~r.revoked /\ r.status # "REVOKED"

\* Whose locks keep t from taking its next step.
Blockers(t) ==
  IF pc[t] = "supersede" THEN {lock[v] : v \in pending[t]} \ {Nobody, t}
  ELSE IF pc[t] = "target" THEN {lock[target[t]]} \ {Nobody, t}
  ELSE IF pc[t] = "index"  THEN IndexBlockers(t)
  ELSE {}

\* t waits in a cycle: PostgreSQL's deadlock detector will pick a victim.
Deadlocked(t) ==
  \E S \in SUBSET Requests : t \in S /\ \A s \in S : Blockers(s) \cap S # {}

-----------------------------------------------------------------------------
(* Ends of a request *)

\* The response is written and the request forgotten.
Finish(t) ==
  /\ pc' = [pc EXCEPT ![t] = "idle"]
  /\ op' = [op EXCEPT ![t] = "create"]
  /\ target' = [target EXCEPT ![t] = 1]
  /\ seen' = [seen EXCEPT ![t] = 0]
  /\ seenRow' = [seenRow EXCEPT ![t] = NoRow]
  /\ pending' = [pending EXCEPT ![t] = {}]
  /\ stamp' = [stamp EXCEPT ![t] = 0]
  /\ before' = [before EXCEPT ![t] = NotRead]

\* ROLLBACK: the tuples t wrote vanish.
Rollback(t) ==
  /\ dirty' = [v \in Versions |-> IF lock[v] = t THEN rows[v] ELSE dirty[v]]
  /\ lock' = [v \in Versions |-> IF lock[v] = t THEN Nobody ELSE lock[v]]
  /\ Finish(t)
  /\ UNCHANGED <<rows, now>>

Goto(t, label) ==
  /\ pc' = [pc EXCEPT ![t] = label]
  /\ UNCHANGED <<op, before>>

-----------------------------------------------------------------------------
(* Before the transaction: locate the secret, authorize *)

\* A new request arrives.  GetSecret (ResolveForDelivery for a runtime) joins
\* the secret to its ACTIVE version, if it has one.  Create reads nothing.
Locate(t, o, v) ==
  /\ pc[t] = "idle"
  /\ Issued = 0 => o = "create"
  /\ o = "rotate" =>
       Issued + Cardinality({u \in Requests : pc[u] # "idle" /\ op[u] = "rotate"}) < MaxVersion
  /\ \E s \in IF o = "create" \/ ActiveIn(rows) = {} THEN {0} ELSE ActiveIn(rows) :
       /\ seen' = [seen EXCEPT ![t] = s]
       /\ seenRow' = [seenRow EXCEPT ![t] = IF s = 0 THEN NoRow ELSE rows[s]]
  /\ pc' = [pc EXCEPT ![t] = "located"]
  /\ op' = [op EXCEPT ![t] = o]
  /\ target' = [target EXCEPT ![t] = v]
  /\ before' = [before EXCEPT ![t] = [issued |-> Issued, barred |-> Undeliverable]]
  /\ UNCHANGED <<rows, dirty, lock, now, pending, stamp>>

\* Deliver reads the clock once, before it authorizes any key; a handler that
\* takes an expiry reads it to check that the expiry lies in the future.
Stamp(t) ==
  /\ pc[t] = "located" /\ op[t] \in Dated
  /\ stamp' = [stamp EXCEPT ![t] = now]
  /\ Goto(t, "stamped")
  /\ UNCHANGED <<database, now, target, seen, seenRow, pending>>

\* The policy engine allows the request; its rules are module Authz.
Authorize(t) ==
  /\ pc[t] = IF op[t] \in Dated THEN "stamped" ELSE "located"
  /\ Goto(t, "authorized")
  /\ UNCHANGED <<database, now, target, seen, seenRow, pending, stamp>>

Deny(t) ==
  /\ pc[t] = IF op[t] \in Dated THEN "stamped" ELSE "located"
  /\ Finish(t)
  /\ UNCHANGED <<database, now>>

-----------------------------------------------------------------------------
(* Reading a value *)

\* Deliver and Reveal judge the summary, then load the material of the version
\* it names and open it under that version's number.
Releasable(t) ==
  /\ Deliverable(seenRow[t], IF op[t] = "deliver" THEN stamp[t] ELSE now)
  /\ rows[seen[t]].aad = seen[t]

\* The plaintext of version seen[t] goes to the caller.
Release(t) ==
  /\ pc[t] = "authorized" /\ op[t] \in Reads /\ Releasable(t)
  /\ Finish(t)
  /\ UNCHANGED <<database, now>>

\* Unavailable: no active version, expired, revoked, or undecryptable.
Withhold(t) ==
  /\ pc[t] = "authorized" /\ op[t] \in Reads /\ ~Releasable(t)
  /\ Finish(t)
  /\ UNCHANGED <<database, now>>

-----------------------------------------------------------------------------
(* Rotate, and the first statement it shares with rollback *)

\* UPDATE ... SET status = 'SUPERSEDED' WHERE status = 'ACTIVE': the snapshot.
SupersedeStart(t) ==
  /\ pc[t] = "authorized" /\ op[t] \in {"rotate", "rollback"}
  /\ pending' = [pending EXCEPT ![t] = ActiveIn(View(t))]
  /\ Goto(t, "supersede")
  /\ UNCHANGED <<database, now, target, seen, seenRow, stamp>>

\* ... and one row of it, re-checked once nobody else holds it.
SupersedeRow(t, v) ==
  /\ pc[t] = "supersede" /\ v \in pending[t] /\ lock[v] = Nobody
  /\ pending' = [pending EXCEPT ![t] = @ \ {v}]
  /\ IF dirty[v].status = "ACTIVE"
     THEN /\ dirty' = [dirty EXCEPT ![v] = WithStatus(@, "SUPERSEDED")]
          /\ lock' = [lock EXCEPT ![v] = t]
     ELSE UNCHANGED <<dirty, lock>>
  /\ UNCHANGED <<rows, now, pc, op, target, seen, seenRow, stamp, before>>

\* INSERT ... VALUES (max(version) + 1, 'ACTIVE'): the number is chosen here.
\* A creation numbers its first version 1 and supersedes nothing.
InsertStart(t) ==
  /\ \/ pc[t] = "supersede" /\ op[t] = "rotate" /\ pending[t] = {}
     \/ pc[t] = "authorized" /\ op[t] = "create"
  /\ LET number == IF op[t] = "create" THEN 1 ELSE NextNumber(t)
     IN  number \in Versions /\ target' = [target EXCEPT ![t] = number]
  /\ Goto(t, "index")
  /\ UNCHANGED <<database, now, seen, seenRow, pending, stamp>>

\* The new ACTIVE entry meets the unique indexes.  The row is written whole, its
\* material bound to the number computed from the summary.
EnterIndex(t) ==
  /\ pc[t] = "index" /\ IndexBlockers(t) = {} /\ ~IndexConflict(t)
  /\ lock' = [lock EXCEPT ![target[t]] = t]
  /\ IF op[t] = "rollback"
     THEN dirty' = [dirty EXCEPT ![target[t]] = WithStatus(@, "ACTIVE")]
     ELSE \E e \in (stamp[t] + 1) .. Never :
            dirty' = [dirty EXCEPT ![target[t]] = NewRow(e, seen[t] + 1)]
  /\ Goto(t, "written")
  /\ UNCHANGED <<rows, now, target, seen, seenRow, pending, stamp>>

\* unique_violation: ErrConflict, and the transaction rolls back.
Conflict(t) ==
  /\ pc[t] = "index" /\ IndexBlockers(t) = {} /\ IndexConflict(t)
  /\ Rollback(t)

-----------------------------------------------------------------------------
(* The single-row updates: rollback's second statement, revoke, set expiry *)

AtTargetStatement(t) ==
  \/ pc[t] = "authorized" /\ op[t] \in {"revoke", "expire"}
  \/ pc[t] = "supersede" /\ op[t] = "rollback" /\ pending[t] = {}

\* The snapshot of the UPDATE matches the caller's version ...
TargetStart(t) ==
  /\ AtTargetStatement(t) /\ TargetMatches(t, View(t)[target[t]])
  /\ Goto(t, "target")
  /\ UNCHANGED <<database, now, target, seen, seenRow, pending, stamp>>

\* ... and the row is re-checked when t gets hold of it.
TargetRow(t) ==
  /\ pc[t] = "target" /\ lock[target[t]] \in {Nobody, t}
  /\ TargetMatches(t, dirty[target[t]])
  /\ lock' = [lock EXCEPT ![target[t]] = t]
  /\ \/ /\ op[t] = "revoke"
        /\ dirty' = [dirty EXCEPT ![target[t]] = AsRevoked(@)]
        /\ Goto(t, "written")
     \/ /\ op[t] = "expire"
        /\ \E e \in (stamp[t] + 1) .. Never : dirty' = [dirty EXCEPT ![target[t]] = WithExpiry(@, e)]
        /\ Goto(t, "written")
     \/ /\ op[t] = "rollback"
        /\ dirty' = dirty
        /\ Goto(t, "index")
  /\ UNCHANGED <<rows, now, target, seen, seenRow, pending, stamp>>

\* Mutant: a missing row is reported as success, and what came before it commits.
TargetIgnored(t) ==
  /\ AtTargetStatement(t) /\ ~TargetMatches(t, View(t)[target[t]])
  /\ rows' = [v \in Versions |-> IF lock[v] = t THEN dirty[v] ELSE rows[v]]
  /\ lock' = [v \in Versions |-> IF lock[v] = t THEN Nobody ELSE lock[v]]
  /\ Finish(t)
  /\ UNCHANGED <<dirty, now>>

\* Mutant: the early return leaves the transaction open.
TargetLeaked(t) ==
  /\ AtTargetStatement(t) /\ ~TargetMatches(t, View(t)[target[t]])
  /\ Finish(t)
  /\ UNCHANGED <<database, now>>

\* No row matched: ErrNotFound, and the transaction rolls back.
TargetMissing(t) ==
  /\ \/ AtTargetStatement(t) /\ ~TargetMatches(t, View(t)[target[t]])
     \/ /\ pc[t] = "target" /\ lock[target[t]] \in {Nobody, t}
        /\ ~TargetMatches(t, dirty[target[t]])
  /\ Rollback(t)

-----------------------------------------------------------------------------
(* Ending the transaction *)

\* Rotate's own check: the number the database assigned is not the one bound
\* into the ciphertext.  "concurrent rotation detected; retry".
Refuse(t) ==
  /\ pc[t] = "written" /\ op[t] = "rotate" /\ target[t] # seen[t] + 1
  /\ Rollback(t)

\* Mutant: Rotate commits whatever number the database gave it.
CommitUnchecked(t) ==
  /\ pc[t] = "written"
  /\ rows' = [v \in Versions |-> IF lock[v] = t THEN dirty[v] ELSE rows[v]]
  /\ lock' = [v \in Versions |-> IF lock[v] = t THEN Nobody ELSE lock[v]]
  /\ Finish(t)
  /\ UNCHANGED <<dirty, now>>

\* The audit event is written in the same transaction, then COMMIT.
Commit(t) ==
  /\ pc[t] = "written"
  /\ op[t] = "rotate" => target[t] = seen[t] + 1
  /\ rows' = [v \in Versions |-> IF lock[v] = t THEN dirty[v] ELSE rows[v]]
  /\ lock' = [v \in Versions |-> IF lock[v] = t THEN Nobody ELSE lock[v]]
  /\ Finish(t)
  /\ UNCHANGED <<dirty, now>>

\* A database error, a cancelled request or a crash of the process.
Abort(t) ==
  /\ pc[t] # "idle"
  /\ Rollback(t)

\* The victim PostgreSQL picks among transactions waiting for each other.
DeadlockVictim(t) ==
  /\ Deadlocked(t)
  /\ Rollback(t)

Tick ==
  /\ now < Horizon
  /\ now' = now + 1
  /\ UNCHANGED <<database, request, before>>

-----------------------------------------------------------------------------
Init ==
  /\ rows = [v \in Versions |-> NoRow]
  /\ dirty = rows
  /\ lock = [v \in Versions |-> Nobody]
  /\ now = 0
  /\ pc = [t \in Requests |-> "idle"]
  /\ op = [t \in Requests |-> "create"]
  /\ target = [t \in Requests |-> 1]
  /\ seen = [t \in Requests |-> 0]
  /\ seenRow = [t \in Requests |-> NoRow]
  /\ pending = [t \in Requests |-> {}]
  /\ stamp = [t \in Requests |-> 0]
  /\ before = [t \in Requests |-> NotRead]

Arrive(t) == \E o \in Offered, v \in Versions : Locate(t, o, v)

Progress(t) ==
  \/ Stamp(t) \/ Authorize(t) \/ Deny(t) \/ Release(t) \/ Withhold(t)
  \/ SupersedeStart(t) \/ (\E v \in Versions : SupersedeRow(t, v))
  \/ InsertStart(t) \/ EnterIndex(t) \/ Conflict(t)
  \/ TargetStart(t) \/ TargetRow(t) \/ TargetMissing(t)
  \/ Refuse(t) \/ Commit(t)

Next == Tick \/ \E t \in Requests : Arrive(t) \/ Progress(t) \/ Abort(t) \/ DeadlockVictim(t)

Spec == Init /\ [][Next]_vars

\* The steps that need a row or an index entry another transaction may hold.
TakeLock(t) ==
  \/ \E v \in Versions : SupersedeRow(t, v)
  \/ TargetRow(t) \/ TargetMissing(t)
  \/ EnterIndex(t) \/ Conflict(t)

\* A request's goroutine runs on; PostgreSQL queues those waiting for a row and
\* wakes them in turn, and its deadlock detector runs after deadlock_timeout.
Fairness ==
  \A t \in Requests : WF_vars(Progress(t)) /\ SF_vars(TakeLock(t)) /\ WF_vars(DeadlockVictim(t))
FairSpec == Spec /\ Fairness

-----------------------------------------------------------------------------
(* Properties *)

\* Every variable has its type.
TypeOK ==
  /\ rows \in [Versions -> Row] /\ dirty \in [Versions -> Row]
  /\ lock \in [Versions -> Requests \cup {Nobody}]
  /\ now \in 0 .. Horizon
  /\ pc \in [Requests -> PCs] /\ op \in [Requests -> Ops]
  /\ target \in [Requests -> Versions]
  /\ seen \in [Requests -> 0 .. MaxVersion] /\ seenRow \in [Requests -> Row]
  /\ pending \in [Requests -> SUBSET Versions]
  /\ stamp \in [Requests -> 0 .. Horizon]
  /\ before \in [Requests -> [issued : Nat, barred : SUBSET Versions]]

\* Whatever rotations, rollbacks and revocations overlap, "which value does my
\* application get" has one answer: two versions are never active at once.
OneActive == \A v, w \in ActiveIn(rows) : v = w

\* No committed version is undecryptable: its ciphertext is bound to the number
\* the database gave it, although Rotate computes that number from a summary it
\* read before the transaction began.
MaterialOpens == \A v \in Versions : Exists(rows[v]) => rows[v].aad = v

\* Revocation is final: no rotation or rollback in flight when a version is
\* revoked, and none that starts later, overwrites its status or its mark.
RevokedForGood ==
  [][\A v \in Versions : rows[v].revoked => rows'[v].revoked /\ rows'[v].status = "REVOKED"]_vars

\* A request never returns the plaintext of a version that was revoked or had
\* expired when the request read its summary.
NoBarredPlaintext ==
  [][\A t \in Requests : Release(t) => seen[t] \notin before[t].barred]_vars

\* A secret that has an active version loses it only to the revocation of that
\* very version: no rotation or rollback, however it ends, leaves a gap.
NoGap ==
  [][\A v \in Versions :
       rows[v].status = "ACTIVE" /\ ~rows'[v].revoked => ActiveIn(rows') # {}]_vars

\* No rotation is lost: one that succeeds built on the newest version there was,
\* so no other rotation committed between its reading and its own commit.
NoLostRotation ==
  [][\A t \in Requests : Commit(t) /\ op[t] = "rotate" => Issued = before[t].issued]_vars

\* The versions of a secret form the register of VersionRegister, each of its
\* operations taking effect in the commit of one request.
Register == INSTANCE VersionRegister WITH
  issued  <- {v \in Versions : Exists(rows[v])},
  current <- IF ActiveIn(rows) = {} THEN 0 ELSE CHOOSE v \in Versions : v \in ActiveIn(rows),
  revoked <- {v \in Versions : rows[v].revoked}
ImplementsRegister == Register!Spec

\* Every request ends: row locks and index waits never leave one hanging.
EveryRequestEnds == \A t \in Requests : pc[t] # "idle" ~> pc[t] = "idle"

\* service.go on the version check of Rotate: it fires "if a concurrent rotation
\* moved the counter", which is also what the error tells the operator.
RefusedOnlyIfOvertaken ==
  [][\A t \in Requests : Refuse(t) => Issued > before[t].issued]_vars
=============================================================================
