------------------------ MODULE SecretVersionsProofs ------------------------
(***************************************************************************)
(* Theorems about SecretVersions, for any number of requests and versions. *)
(***************************************************************************)
EXTENDS SecretVersions, FiniteSetTheorems, TLAPS

-----------------------------------------------------------------------------
(* The inductive invariant *)

\* A row nobody holds has no uncommitted tuple.
Quiet == \A v \in Versions : lock[v] = Nobody => dirty[v] = rows[v]

\* Only a transaction that is still open holds rows; a creation holds none
\* before it has written its version.
Held ==
  \A v \in Versions : lock[v] # Nobody =>
    /\ pc[lock[v]] \in InTx
    /\ op[lock[v]] = "create" => pc[lock[v]] = "written"

\* Entries of the one-active index, of committed and of uncommitted tuples.
Claims(v) == rows[v].status = "ACTIVE" \/ dirty[v].status = "ACTIVE"

\* Two entries coexist only while one transaction replaces one by the other.
Exclusive ==
  \A v, w \in Versions : v # w /\ Claims(v) /\ Claims(w) =>
    /\ lock[v] # Nobody /\ lock[v] = lock[w]
    /\ ~(rows[v].status = "ACTIVE" /\ rows[w].status = "ACTIVE")
    /\ ~(dirty[v].status = "ACTIVE" /\ dirty[w].status = "ACTIVE")

\* The status and the revocation mark of a tuple agree.
Marked ==
  \A v \in Versions :
    /\ rows[v].revoked <=> (rows[v].status = "REVOKED")
    /\ dirty[v].revoked <=> (dirty[v].status = "REVOKED")

\* No uncommitted tuple undoes a revocation.
NotUndone == \A v \in Versions : rows[v].revoked => dirty[v].revoked

\* A committed row keeps its ciphertext; a new one is its writer's, who will
\* compare the number it has with the number bound into it.
Sealed ==
  \A v \in Versions :
    /\ Exists(rows[v]) => Exists(dirty[v]) /\ rows[v].aad = v /\ dirty[v].aad = v
    /\ ~Exists(rows[v]) /\ Exists(dirty[v]) =>
         /\ lock[v] # Nobody
         /\ pc[lock[v]] = "written" /\ op[lock[v]] \in {"create", "rotate"}
         /\ target[lock[v]] = v /\ dirty[v].aad = seen[lock[v]] + 1

\* A creation numbers its version 1, for which it has read nothing.
Creation ==
  \A t \in Requests : op[t] = "create" =>
    /\ seen[t] = 0 /\ pc[t] \notin {"supersede", "target"}
    /\ pc[t] \in {"index", "written"} => target[t] = 1

\* A rollback about to activate its target holds it, committed and unrevoked.
Restoring ==
  \A t \in Requests : pc[t] = "index" /\ op[t] = "rollback" =>
    /\ lock[target[t]] = t
    /\ Exists(rows[target[t]]) /\ ~dirty[target[t]].revoked

\* Only the operations that activate a version reach the unique indexes.
Inserting ==
  \A t \in Requests : pc[t] = "index" => op[t] \in {"create", "rotate", "rollback"}

IInv ==
  /\ TypeOK /\ Quiet /\ Held /\ Exclusive /\ Marked /\ NotUndone
  /\ Sealed /\ Creation /\ Restoring /\ Inserting

-----------------------------------------------------------------------------
(* Lemmas *)

\* A count of versions is a natural number.
LEMMA IssuedIsNat == Issued \in Nat
<1>1. IsFiniteSet(Versions)
  BY BoundsAssumption, FS_Interval DEF Versions
<1>2. IsFiniteSet({v \in Versions : Exists(rows[v])})
  BY <1>1, FS_Subset
<1>. QED
  BY <1>2, FS_CardinalityType DEF Issued, IssuedIn

\* Where the values of the types come from.
LEMMA Types ==
  /\ NoRow \in Row
  /\ NotRead \in [issued : Nat, barred : SUBSET Versions]
  /\ 1 \in Versions /\ Never \in Nat
BY BoundsAssumption DEF NoRow, NotRead, Row, Statuses, Never, Versions

\* What a statement writes into a row is a row.
LEMMA RowWrites ==
  /\ \A r \in Row, s \in Statuses : WithStatus(r, s) \in Row
  /\ \A r \in Row, e \in 0 .. Never : WithExpiry(r, e) \in Row
  /\ \A r \in Row : AsRevoked(r) \in Row
  /\ \A e \in 0 .. Never, n \in 0 .. MaxVersion + 1 : NewRow(e, n) \in Row
BY DEF NewRow, WithStatus, WithExpiry, AsRevoked, Row, Statuses

\* Every row, held or not, is a row; rolling back restores rows.
LEMMA RollbackTypes ==
  ASSUME TypeOK, NEW t \in Requests, Rollback(t)
  PROVE  TypeOK'
BY Types, NobodyAssumption, BoundsAssumption DEF TypeOK, Rollback, Finish, Ops, Writes, PCs

\* Forgetting a request keeps the types.
LEMMA FinishTypes ==
  ASSUME TypeOK, NEW t \in Requests, Finish(t), UNCHANGED <<database, now>>
  PROVE  TypeOK'
BY Types, BoundsAssumption DEF TypeOK, Finish, Ops, Writes, PCs, database

-----------------------------------------------------------------------------
(* Type correctness *)

LEMMA TypeInit == Init => TypeOK
BY Types, BoundsAssumption DEF Init, TypeOK, Ops, Writes, PCs

LEMMA TypeNext == TypeOK /\ [Next]_vars => TypeOK'
<1>. SUFFICES ASSUME TypeOK, [Next]_vars PROVE TypeOK'
  OBVIOUS
<1>. USE Types, BoundsAssumption, NobodyAssumption DEF TypeOK
<1>1. CASE UNCHANGED vars
  BY <1>1 DEF vars
<1>2. CASE Tick
  BY <1>2 DEF Tick, database, request
<1>3. ASSUME NEW t \in Requests, NEW o \in Offered, NEW v \in Versions, Locate(t, o, v)
      PROVE  TypeOK'
  <2>1. PICK s \in IF o = "create" \/ ActiveIn(rows) = {} THEN {0} ELSE ActiveIn(rows) :
          /\ seen' = [seen EXCEPT ![t] = s]
          /\ seenRow' = [seenRow EXCEPT ![t] = IF s = 0 THEN NoRow ELSE rows[s]]
    BY <1>3 DEF Locate
  <2>2. s = 0 \/ s \in Versions
    BY <2>1 DEF ActiveIn
  <2>3. seen' \in [Requests -> 0 .. MaxVersion] /\ seenRow' \in [Requests -> Row]
    BY <2>1, <2>2 DEF Versions
  <2>4. before' \in [Requests -> [issued : Nat, barred : SUBSET Versions]]
    BY <1>3, IssuedIsNat DEF Locate, Undeliverable
  <2>. QED
    BY <1>3, <2>3, <2>4, OfferedAssumption DEF Locate, PCs
<1>4. ASSUME NEW t \in Requests, Stamp(t) PROVE TypeOK'
  BY <1>4 DEF Stamp, Goto, PCs, database
<1>5. ASSUME NEW t \in Requests, Authorize(t) PROVE TypeOK'
  BY <1>5 DEF Authorize, Goto, PCs, database
<1>6. ASSUME NEW t \in Requests, Deny(t) \/ Release(t) \/ Withhold(t) PROVE TypeOK'
  BY <1>6, FinishTypes DEF Deny, Release, Withhold
<1>7. ASSUME NEW t \in Requests, SupersedeStart(t) PROVE TypeOK'
  BY <1>7 DEF SupersedeStart, Goto, PCs, InTx, database, ActiveIn
<1>8. ASSUME NEW t \in Requests, NEW v \in Versions, SupersedeRow(t, v) PROVE TypeOK'
  <2>1. WithStatus(dirty[v], "SUPERSEDED") \in Row
    BY RowWrites DEF Statuses
  <2>2. dirty' \in [Versions -> Row] /\ lock' \in [Versions -> Requests \cup {Nobody}]
    <3>1. CASE dirty[v].status = "ACTIVE"
      <4>1. /\ dirty' = [dirty EXCEPT ![v] = WithStatus(dirty[v], "SUPERSEDED")]
            /\ lock' = [lock EXCEPT ![v] = t]
        BY <1>8, <3>1 DEF SupersedeRow
      <4>. QED
        BY <2>1, <4>1
    <3>2. CASE dirty[v].status # "ACTIVE"
      BY <1>8, <3>2 DEF SupersedeRow
    <3>. QED
      BY <3>1, <3>2
  <2>. QED
    BY <1>8, <2>2 DEF SupersedeRow
<1>9. ASSUME NEW t \in Requests, InsertStart(t) PROVE TypeOK'
  BY <1>9 DEF InsertStart, Goto, PCs, InTx, database
<1>10. ASSUME NEW t \in Requests, EnterIndex(t) PROVE TypeOK'
  <2>1. dirty' \in [Versions -> Row]
    <3>1. CASE op[t] = "rollback"
      <4>1. WithStatus(dirty[target[t]], "ACTIVE") \in Row
        BY RowWrites DEF Statuses
      <4>. QED
        BY <1>10, <3>1, <4>1 DEF EnterIndex
    <3>2. CASE op[t] # "rollback"
      <4>1. PICK e \in (stamp[t] + 1) .. Never :
              dirty' = [dirty EXCEPT ![target[t]] = NewRow(e, seen[t] + 1)]
        BY <1>10, <3>2 DEF EnterIndex
      <4>2. e \in 0 .. Never /\ seen[t] + 1 \in 0 .. MaxVersion + 1
        BY DEF Never
      <4>3. NewRow(e, seen[t] + 1) \in Row
        BY <4>2, RowWrites
      <4>. QED
        BY <4>1, <4>3
    <3>. QED
      BY <3>1, <3>2
  <2>. QED
    BY <1>10, <2>1 DEF EnterIndex, Goto, PCs, InTx
<1>11. ASSUME NEW t \in Requests, TargetStart(t) PROVE TypeOK'
  BY <1>11 DEF TargetStart, Goto, PCs, InTx, database
<1>12. ASSUME NEW t \in Requests, TargetRow(t) PROVE TypeOK'
  <2>1. dirty' \in [Versions -> Row]
    <3>1. CASE op[t] = "revoke"
      <4>1. AsRevoked(dirty[target[t]]) \in Row
        BY RowWrites DEF Statuses
      <4>. QED
        BY <1>12, <3>1, <4>1 DEF TargetRow
    <3>2. CASE op[t] = "expire"
      <4>1. PICK e \in (stamp[t] + 1) .. Never : dirty' = [dirty EXCEPT ![target[t]] = WithExpiry(@, e)]
        BY <1>12, <3>2 DEF TargetRow
      <4>2. e \in 0 .. Never
        BY DEF Never
      <4>3. WithExpiry(dirty[target[t]], e) \in Row
        BY <4>2, RowWrites
      <4>. QED
        BY <4>1, <4>3
    <3>3. CASE op[t] = "rollback"
      BY <1>12, <3>3 DEF TargetRow
    <3>. QED
      BY <1>12, <3>1, <3>2, <3>3 DEF TargetRow
  <2>2. pc' \in [Requests -> PCs] /\ UNCHANGED <<op, before>>
    BY <1>12 DEF TargetRow, Goto, PCs, InTx
  <2>3. lock' \in [Versions -> Requests \cup {Nobody}]
    BY <1>12 DEF TargetRow
  <2>. QED
    BY <1>12, <2>1, <2>2, <2>3 DEF TargetRow
<1>13. ASSUME NEW t \in Requests, Commit(t) PROVE TypeOK'
  BY <1>13 DEF Commit, Finish, Ops, Writes, PCs
<1>14. ASSUME NEW t \in Requests,
              Conflict(t) \/ TargetMissing(t) \/ Refuse(t) \/ Abort(t) \/ DeadlockVictim(t)
       PROVE  TypeOK'
  BY <1>14, RollbackTypes DEF Conflict, TargetMissing, Refuse, Abort, DeadlockVictim
<1>. QED
  BY <1>1, <1>2, <1>3, <1>4, <1>5, <1>6, <1>7, <1>8, <1>9, <1>10, <1>11, <1>12, <1>13, <1>14
  DEF Next, Arrive, Progress

\* Every variable keeps its type in every behaviour.
THEOREM TypeCorrect == Spec => []TypeOK
BY TypeInit, TypeNext, PTL DEF Spec

-----------------------------------------------------------------------------
(* The invariant is inductive *)

LEMMA IInvInit == Init => IInv
<1>. SUFFICES ASSUME Init PROVE IInv
  OBVIOUS
<1>1. TypeOK
  BY TypeInit
<1>2. \A v \in Versions : rows[v] = NoRow /\ dirty[v] = NoRow /\ lock[v] = Nobody
  BY DEF Init
<1>3. \A t \in Requests : pc[t] = "idle" /\ op[t] = "create" /\ seen[t] = 0
  BY DEF Init
<1>4. Quiet /\ Held /\ Exclusive /\ NotUndone /\ Sealed
  BY <1>2 DEF Quiet, Held, Exclusive, Claims, NotUndone, Sealed, Exists, NoRow
<1>6. Marked
  BY <1>2 DEF Marked, NoRow
<1>5. Creation /\ Restoring /\ Inserting
  BY <1>3 DEF Creation, Restoring, Inserting
<1>. QED
  BY <1>1, <1>4, <1>5, <1>6 DEF IInv

\* A step that leaves the database alone and moves one request on, to a place
\* where it is not yet "written", keeps the invariant.
LEMMA LocalStep ==
  ASSUME IInv, TypeOK', NEW t \in Requests, UNCHANGED database,
         \A u \in Requests \ {t} : pc'[u] = pc[u] /\ op'[u] = op[u] /\ target'[u] = target[u] /\ seen'[u] = seen[u],
         pc[t] # "written", pc'[t] # "written",
         pc[t] \in InTx => pc'[t] \in InTx /\ op'[t] = op[t],
         op'[t] = "create" => /\ seen'[t] = 0 /\ pc'[t] \notin {"supersede", "target"}
                              /\ pc'[t] = "index" => target'[t] = 1,
         pc'[t] = "index" => op'[t] \in {"create", "rotate"}
  PROVE  IInv'
<1>. USE DEF IInv, TypeOK, database
<1>1. Quiet' /\ Exclusive' /\ Marked' /\ NotUndone'
  BY DEF Quiet, Exclusive, Claims, Marked, NotUndone
<1>2. Held'
  <2>. SUFFICES ASSUME NEW v \in Versions, lock[v] # Nobody
                PROVE  pc'[lock[v]] \in InTx /\ (op'[lock[v]] = "create" => pc'[lock[v]] = "written")
    BY DEF Held
  <2>1. lock[v] \in Requests /\ pc[lock[v]] \in InTx /\ (op[lock[v]] = "create" => pc[lock[v]] = "written")
    BY DEF Held
  <2>. QED
    BY <2>1
<1>3. Sealed'
  <2>. SUFFICES ASSUME NEW v \in Versions, ~Exists(rows[v]), Exists(dirty[v])
                PROVE  /\ lock[v] # Nobody
                       /\ pc'[lock[v]] = "written" /\ op'[lock[v]] \in {"create", "rotate"}
                       /\ target'[lock[v]] = v /\ dirty[v].aad = seen'[lock[v]] + 1
    BY DEF Sealed, Exists
  <2>1. /\ lock[v] # Nobody
        /\ pc[lock[v]] = "written" /\ op[lock[v]] \in {"create", "rotate"}
        /\ target[lock[v]] = v /\ dirty[v].aad = seen[lock[v]] + 1
    BY DEF Sealed
  <2>2. lock[v] \in Requests \ {t}
    BY <2>1
  <2>. QED
    BY <2>1, <2>2
<1>4. Creation' /\ Inserting'
  <2>1. Creation'
    BY DEF Creation
  <2>2. Inserting'
    BY DEF Inserting
  <2>. QED
    BY <2>1, <2>2
<1>5. Restoring'
  <2>. SUFFICES ASSUME NEW u \in Requests, pc'[u] = "index", op'[u] = "rollback"
                PROVE  /\ lock[target'[u]] = u
                       /\ Exists(rows[target'[u]]) /\ ~dirty[target'[u]].revoked
    BY DEF Restoring, Exists
  <2>1. u # t
    OBVIOUS
  <2>. QED
    BY <2>1 DEF Restoring
<1>. QED
  BY <1>1, <1>2, <1>3, <1>4, <1>5

\* ROLLBACK keeps the invariant.
LEMMA RollbackStep ==
  ASSUME IInv, TypeOK', NEW t \in Requests, Rollback(t)
  PROVE  IInv'
<1>. USE NobodyAssumption DEF IInv, TypeOK
<1>1. /\ rows' = rows
      /\ \A v \in Versions : dirty'[v] = IF lock[v] = t THEN rows[v] ELSE dirty[v]
      /\ \A v \in Versions : lock'[v] = IF lock[v] = t THEN Nobody ELSE lock[v]
  BY DEF Rollback
<1>2. /\ pc'[t] = "idle" /\ op'[t] = "create" /\ seen'[t] = 0
      /\ \A u \in Requests \ {t} : pc'[u] = pc[u] /\ op'[u] = op[u] /\ target'[u] = target[u] /\ seen'[u] = seen[u]
  BY DEF Rollback, Finish
<1>3. Quiet'
  BY <1>1 DEF Quiet
<1>4. Held'
  BY <1>1, <1>2 DEF Held
<1>5. Exclusive'
  BY <1>1 DEF Exclusive, Claims
<1>6. Marked' /\ NotUndone'
  BY <1>1 DEF Marked, NotUndone
<1>7. Sealed'
  <2>1. ASSUME NEW v \in Versions, Exists(rows[v])
        PROVE  Exists(dirty'[v]) /\ rows[v].aad = v /\ dirty'[v].aad = v
    BY <1>1, <2>1 DEF Sealed
  <2>2. ASSUME NEW v \in Versions, ~Exists(rows[v]), Exists(dirty'[v])
        PROVE  /\ lock'[v] # Nobody
               /\ pc'[lock'[v]] = "written" /\ op'[lock'[v]] \in {"create", "rotate"}
               /\ target'[lock'[v]] = v /\ dirty'[v].aad = seen'[lock'[v]] + 1
    <3>1. lock[v] # t
      BY <1>1, <2>2
    <3>2. lock'[v] = lock[v] /\ dirty'[v] = dirty[v]
      BY <1>1, <3>1
    <3>3. /\ lock[v] # Nobody
          /\ pc[lock[v]] = "written" /\ op[lock[v]] \in {"create", "rotate"}
          /\ target[lock[v]] = v /\ dirty[v].aad = seen[lock[v]] + 1
      BY <2>2, <3>2 DEF Sealed
    <3>4. lock[v] \in Requests \ {t}
      BY <3>1, <3>3
    <3>. QED
      BY <1>2, <3>2, <3>3, <3>4
  <2>. QED
    BY <1>1, <2>1, <2>2 DEF Sealed, Exists
<1>8. Creation' /\ Inserting'
  <2>1. Creation'
    BY ZenonT(30), <1>2 DEF Creation
  <2>2. Inserting'
    BY <1>2 DEF Inserting
  <2>. QED
    BY <2>1, <2>2
<1>9. Restoring'
  <2>. SUFFICES ASSUME NEW u \in Requests, pc'[u] = "index", op'[u] = "rollback"
                PROVE  /\ lock'[target'[u]] = u
                       /\ Exists(rows'[target'[u]]) /\ ~dirty'[target'[u]].revoked
    BY DEF Restoring, Exists
  <2>1. u # t /\ pc[u] = "index" /\ op[u] = "rollback" /\ target'[u] = target[u]
    BY <1>2
  <2>2. lock[target[u]] = u /\ Exists(rows[target[u]]) /\ ~dirty[target[u]].revoked
    BY <2>1 DEF Restoring
  <2>. QED
    BY <1>1, <2>1, <2>2
<1>. QED
  BY <1>3, <1>4, <1>5, <1>6, <1>7, <1>8, <1>9

\* One row of the supersede statement.
LEMMA SupersedeStep ==
  ASSUME IInv, TypeOK', NEW t \in Requests, NEW x \in Versions, SupersedeRow(t, x)
  PROVE  IInv'
<1>. USE NobodyAssumption DEF IInv, TypeOK
<1>1. /\ rows' = rows /\ pc' = pc /\ op' = op /\ target' = target /\ seen' = seen
      /\ pc[t] = "supersede" /\ lock[x] = Nobody /\ dirty[x] = rows[x]
  BY DEF SupersedeRow, Quiet
<1>2. CASE dirty[x].status # "ACTIVE"
  <2>1. dirty' = dirty /\ lock' = lock
    BY <1>2 DEF SupersedeRow
  <2>. QED
    BY <1>1, <2>1 DEF Quiet, Held, Exclusive, Claims, Marked, NotUndone, Sealed, Exists, Creation, Restoring, Inserting
<1>3. CASE dirty[x].status = "ACTIVE"
  <2>1. dirty' = [dirty EXCEPT ![x] = WithStatus(dirty[x], "SUPERSEDED")] /\ lock' = [lock EXCEPT ![x] = t]
    BY <1>3 DEF SupersedeRow
  <2>2. /\ dirty'[x].status = "SUPERSEDED" /\ dirty'[x].aad = dirty[x].aad
        /\ dirty'[x].revoked = dirty[x].revoked /\ lock'[x] = t
        /\ \A v \in Versions \ {x} : dirty'[v] = dirty[v] /\ lock'[v] = lock[v]
    BY <2>1 DEF WithStatus
  <2>3. Quiet'
    BY <1>1, <2>2 DEF Quiet
  <2>9. Marked' /\ NotUndone'
    <3>1. ~dirty[x].revoked /\ ~rows[x].revoked
      BY <1>1, <1>3 DEF Marked
    <3>2. Marked'
      BY ZenonT(30), <1>1, <2>2, <3>1 DEF Marked
    <3>3. NotUndone'
      BY <1>1, <2>2, <3>1 DEF NotUndone
    <3>. QED
      BY <3>2, <3>3
  <2>4. op[t] # "create"
    BY <1>1 DEF Creation
  <2>5. Held'
    <3>1. pc[t] \in InTx
      BY <1>1 DEF InTx
    <3>2. ASSUME NEW v \in Versions, lock'[v] # Nobody
          PROVE  pc'[lock'[v]] \in InTx /\ (op'[lock'[v]] = "create" => pc'[lock'[v]] = "written")
      <4>1. CASE v = x
        BY ZenonT(30), <1>1, <2>2, <2>4, <3>1, <4>1
      <4>2. CASE v # x
        <5>1. lock'[v] = lock[v]
          BY <2>2, <4>2
        <5>2. pc[lock[v]] \in InTx /\ (op[lock[v]] = "create" => pc[lock[v]] = "written")
          BY ZenonT(30), <3>2, <5>1 DEF Held
        <5>. QED
          BY ZenonT(30), <1>1, <5>1, <5>2
      <4>. QED
        BY <4>1, <4>2
    <3>. QED
      BY ZenonT(30), <3>2 DEF Held
  <2>6. Exclusive'
    <3>1. \A w \in Versions \ {x} : ~Claims(w)
      BY <1>1, <1>3 DEF Exclusive, Claims
    <3>. QED
      BY ZenonT(30), <1>1, <2>2, <3>1 DEF Exclusive, Claims
  <2>7. Sealed'
    <3>1. Exists(rows[x]) /\ Exists(dirty'[x]) /\ dirty'[x].aad = x
      BY <1>1, <1>3, <2>2 DEF Sealed, Exists
    <3>2. ASSUME NEW v \in Versions \ {x}, ~Exists(rows[v]), Exists(dirty[v])
          PROVE  /\ lock'[v] # Nobody
                 /\ pc'[lock'[v]] = "written" /\ op'[lock'[v]] \in {"create", "rotate"}
                 /\ target'[lock'[v]] = v /\ dirty'[v].aad = seen'[lock'[v]] + 1
      <4>1. /\ lock[v] # Nobody
            /\ pc[lock[v]] = "written" /\ op[lock[v]] \in {"create", "rotate"}
            /\ target[lock[v]] = v /\ dirty[v].aad = seen[lock[v]] + 1
        BY <3>2 DEF Sealed
      <4>. QED
        BY <1>1, <2>2, <4>1
    <3>3. \A v \in Versions \ {x} :
            Exists(rows[v]) => Exists(dirty'[v]) /\ rows[v].aad = v /\ dirty'[v].aad = v
      BY <2>2 DEF Sealed
    <3>4. rows[x].aad = x
      BY <3>1 DEF Sealed
    <3>. QED
      BY <1>1, <2>2, <3>1, <3>2, <3>3, <3>4 DEF Sealed, Exists
  <2>8. Creation' /\ Inserting'
    BY <1>1 DEF Creation, Inserting
  <2>10. Restoring'
    <3>1. \A u \in Requests : pc[u] = "index" /\ op[u] = "rollback" => target[u] # x
      BY <1>1 DEF Restoring
    <3>. QED
      BY <1>1, <2>2, <3>1 DEF Restoring, Exists
  <2>. QED
    BY <2>3, <2>5, <2>6, <2>7, <2>8, <2>9, <2>10
<1>. QED
  BY <1>2, <1>3

\* A new ACTIVE entry is written: the unique indexes keep the claims exclusive.
LEMMA EnterIndexStep ==
  ASSUME IInv, TypeOK', NEW t \in Requests, EnterIndex(t)
  PROVE  IInv'
<1>. USE NobodyAssumption DEF IInv, TypeOK
<1>. DEFINE x == target[t]
<1>1. /\ rows' = rows /\ op' = op /\ target' = target /\ seen' = seen
      /\ x \in Versions /\ pc[t] = "index" /\ pc' = [pc EXCEPT ![t] = "written"]
      /\ IndexBlockers(t) = {} /\ ~IndexConflict(t)
      /\ lock' = [lock EXCEPT ![x] = t]
  BY DEF EnterIndex, Goto
<1>2. /\ dirty'[x].status = "ACTIVE" /\ ~dirty'[x].revoked
      /\ \A v \in Versions \ {x} : dirty'[v] = dirty[v]
      /\ op[t] = "rollback" => dirty'[x].aad = dirty[x].aad
      /\ op[t] # "rollback" => dirty'[x].aad = seen[t] + 1
  <2>1. CASE op[t] = "rollback"
    <3>1. dirty' = [dirty EXCEPT ![x] = WithStatus(dirty[x], "ACTIVE")] /\ ~dirty[x].revoked
      BY <1>1, <2>1 DEF EnterIndex, Restoring
    <3>. QED
      BY <1>1, <2>1, <3>1 DEF WithStatus
  <2>2. CASE op[t] # "rollback"
    <3>1. PICK e \in (stamp[t] + 1) .. Never : dirty' = [dirty EXCEPT ![x] = NewRow(e, seen[t] + 1)]
      BY <1>1, <2>2 DEF EnterIndex
    <3>. QED
      BY <1>1, <2>2, <3>1 DEF NewRow
  <2>. QED
    BY <2>1, <2>2
<1>3. op[t] # "rollback" => /\ ~Exists(rows[x])
                            /\ op[t] \in {"create", "rotate"}
                            /\ op[t] = "create" => x = 1 /\ seen[t] = 0
  <2>1. op[t] # "rollback" => op[t] \in {"create", "rotate"}
    BY <1>1 DEF Inserting
  <2>2. op[t] = "create" => x = 1 /\ seen[t] = 0 /\ ~Exists(rows[x])
    BY <1>1 DEF Creation, IndexConflict
  <2>3. op[t] = "rotate" => ~Exists(rows[x])
    BY <1>1 DEF IndexConflict, Sealed
  <2>. QED
    BY <2>1, <2>2, <2>3
<1>4. \A v \in Versions \ {x} : lock'[v] = lock[v]
  BY <1>1
<1>5. lock'[x] = t
  BY <1>1
<1>6. Quiet'
  BY <1>1, <1>2, <1>4, <1>5 DEF Quiet
<1>7. Held'
  BY <1>1, <1>4, <1>5 DEF Held, InTx
<1>8. \A w \in Versions \ {x} : Claims(w) =>
        lock[w] = t /\ rows[w].status = "ACTIVE" /\ dirty[w].status # "ACTIVE"
  <2>. SUFFICES ASSUME NEW w \in Versions \ {x}, Claims(w)
                PROVE  lock[w] = t /\ rows[w].status = "ACTIVE" /\ dirty[w].status # "ACTIVE"
    OBVIOUS
  <2>1. lock[w] \in Requests \cup {Nobody}
    OBVIOUS
  <2>2. CASE op[t] # "create"
    <3>1. "ACTIVE" \in {rows[w].status, dirty[w].status}
      BY DEF Claims
    <3>2. lock[w] \notin Requests \ {t}
      BY <1>1, <2>2, <3>1 DEF IndexBlockers
    <3>3. dirty[w].status # "ACTIVE"
      BY <1>1, <2>1, <2>2, <3>2 DEF IndexConflict
    <3>4. rows[w].status = "ACTIVE"
      BY <3>3 DEF Claims
    <3>5. lock[w] # Nobody
      BY <3>3, <3>4 DEF Quiet
    <3>. QED
      BY <2>1, <3>2, <3>3, <3>4, <3>5
  <2>3. CASE op[t] = "create"
    <3>1. ~Exists(rows[w])
      BY <1>1, <2>3 DEF IndexConflict
    <3>2. rows[w].status # "ACTIVE"
      BY <3>1 DEF Exists
    <3>3. lock[w] \in Requests
      BY <2>1, <3>2 DEF Claims, Quiet
    <3>4. lock[w] = t
      BY <1>1, <2>3, <3>1, <3>3 DEF IndexBlockers
    <3>. QED
      BY <1>1, <2>3, <3>4 DEF Held
  <2>. QED
    BY <2>2, <2>3
<1>9. Exclusive'
  <2>. SUFFICES ASSUME NEW v \in Versions, NEW w \in Versions, v # w,
                       rows[v].status = "ACTIVE" \/ dirty'[v].status = "ACTIVE",
                       rows[w].status = "ACTIVE" \/ dirty'[w].status = "ACTIVE"
                PROVE  /\ lock'[v] # Nobody /\ lock'[v] = lock'[w]
                       /\ ~(rows[v].status = "ACTIVE" /\ rows[w].status = "ACTIVE")
                       /\ ~(dirty'[v].status = "ACTIVE" /\ dirty'[w].status = "ACTIVE")
    BY <1>1 DEF Exclusive, Claims
  <2>0. ~(rows[v].status = "ACTIVE" /\ rows[w].status = "ACTIVE")
    BY DEF Exclusive, Claims
  <2>1. CASE v = x
    BY <1>2, <1>4, <1>5, <1>8, <2>0, <2>1 DEF Claims
  <2>2. CASE w = x
    BY <1>2, <1>4, <1>5, <1>8, <2>0, <2>2 DEF Claims
  <2>3. CASE v # x /\ w # x
    BY <1>2, <1>4, <2>0, <2>3 DEF Exclusive, Claims
  <2>. QED
    BY <2>1, <2>2, <2>3
<1>10. Marked' /\ NotUndone'
  <2>1. ~rows[x].revoked
    <3>1. CASE op[t] = "rollback"
      BY <1>1, <3>1 DEF Restoring, NotUndone
    <3>2. CASE op[t] # "rollback"
      BY <1>3, <3>2 DEF Marked, Exists
    <3>. QED
      BY <3>1, <3>2
  <2>2. Marked'
    BY <1>1, <1>2, <2>1 DEF Marked
  <2>3. NotUndone'
    BY <1>1, <1>2, <2>1 DEF NotUndone
  <2>. QED
    BY <2>2, <2>3
<1>11. Sealed'
  <2>1. ASSUME Exists(rows[x])
        PROVE  rows[x].aad = x /\ Exists(dirty'[x]) /\ dirty'[x].aad = x
    BY <1>2, <1>3, <2>1 DEF Sealed, Exists
  <2>2. ASSUME ~Exists(rows[x])
        PROVE  /\ lock'[x] = t /\ t # Nobody /\ pc'[t] = "written" /\ op'[t] \in {"create", "rotate"}
               /\ target'[t] = x /\ dirty'[x].aad = seen'[t] + 1
    BY <1>1, <1>2, <1>3, <1>5, <2>2 DEF Restoring
  <2>3. ASSUME NEW v \in Versions \ {x}, ~Exists(rows[v]), Exists(dirty[v])
        PROVE  /\ lock'[v] # Nobody
               /\ pc'[lock'[v]] = "written" /\ op'[lock'[v]] \in {"create", "rotate"}
               /\ target'[lock'[v]] = v /\ dirty'[v].aad = seen'[lock'[v]] + 1
    <3>1. /\ lock[v] # Nobody
          /\ pc[lock[v]] = "written" /\ op[lock[v]] \in {"create", "rotate"}
          /\ target[lock[v]] = v /\ dirty[v].aad = seen[lock[v]] + 1
      BY <2>3 DEF Sealed
    <3>. QED
      BY <1>1, <1>2, <1>4, <3>1
  <2>4. \A v \in Versions \ {x} :
          Exists(rows[v]) => Exists(dirty'[v]) /\ rows[v].aad = v /\ dirty'[v].aad = v
    BY <1>2 DEF Sealed
  <2>. QED
    BY <1>1, <1>2, <1>5, <2>1, <2>2, <2>3, <2>4 DEF Sealed, Exists
<1>12. Creation' /\ Inserting'
  BY <1>1 DEF Creation, Inserting
<1>13. Restoring'
  <2>. SUFFICES ASSUME NEW u \in Requests, pc'[u] = "index", op[u] = "rollback"
                PROVE  /\ lock'[target[u]] = u
                       /\ Exists(rows[target[u]]) /\ ~dirty'[target[u]].revoked
    BY <1>1 DEF Restoring, Exists
  <2>1. u # t /\ pc[u] = "index"
    BY <1>1
  <2>2. lock[target[u]] = u /\ Exists(rows[target[u]]) /\ ~dirty[target[u]].revoked
    BY <2>1 DEF Restoring
  <2>3. target[u] # x
    <3>. SUFFICES ASSUME target[u] = x PROVE FALSE
      OBVIOUS
    <3>1. op[t] = "rollback" => FALSE
      BY <1>1, <2>1, <2>2 DEF Restoring
    <3>. QED
      BY <1>3, <2>2, <3>1
  <2>. QED
    BY <1>2, <1>4, <2>2, <2>3
<1>. QED
  BY <1>6, <1>7, <1>9, <1>10, <1>11, <1>12, <1>13

\* The row of a single-row update is reached and re-checked.
LEMMA TargetRowStep ==
  ASSUME IInv, TypeOK', NEW t \in Requests, TargetRow(t)
  PROVE  IInv'
<1>. USE NobodyAssumption DEF IInv, TypeOK
<1>. DEFINE x == target[t]
<1>1. /\ rows' = rows /\ op' = op /\ target' = target /\ seen' = seen
      /\ x \in Versions /\ pc[t] = "target" /\ lock[x] \in {Nobody, t}
      /\ lock' = [lock EXCEPT ![x] = t]
      /\ op[t] \in {"revoke", "expire", "rollback"}
      /\ pc' = [pc EXCEPT ![t] = IF op[t] = "rollback" THEN "index" ELSE "written"]
  BY DEF TargetRow, Goto
<1>2. Exists(dirty[x]) /\ (op[t] = "rollback" => ~dirty[x].revoked)
  BY DEF TargetRow, TargetMatches
<1>3. Exists(rows[x])
  BY <1>1, <1>2 DEF Quiet, Sealed
<1>4. /\ dirty'[x].aad = dirty[x].aad
      /\ \/ dirty'[x].status = dirty[x].status /\ (dirty'[x].revoked <=> dirty[x].revoked)
         \/ dirty'[x].status = "REVOKED" /\ dirty'[x].revoked
      /\ op[t] = "rollback" => dirty' = dirty
      /\ \A v \in Versions \ {x} : dirty'[v] = dirty[v]
  <2>1. CASE op[t] = "revoke"
    <3>1. dirty' = [dirty EXCEPT ![x] = AsRevoked(dirty[x])]
      BY <2>1 DEF TargetRow
    <3>2. dirty'[x] = AsRevoked(dirty[x]) /\ \A v \in Versions \ {x} : dirty'[v] = dirty[v]
      BY <1>1, <3>1
    <3>3. dirty'[x].aad = dirty[x].aad /\ dirty'[x].status = "REVOKED" /\ dirty'[x].revoked
      BY <3>2 DEF AsRevoked
    <3>. QED
      BY <2>1, <3>2, <3>3
  <2>2. CASE op[t] = "expire"
    <3>1. PICK e \in (stamp[t] + 1) .. Never : dirty' = [dirty EXCEPT ![x] = WithExpiry(dirty[x], e)]
      BY <2>2 DEF TargetRow
    <3>2. dirty'[x] = WithExpiry(dirty[x], e) /\ \A v \in Versions \ {x} : dirty'[v] = dirty[v]
      BY <1>1, <3>1
    <3>3. /\ dirty'[x].aad = dirty[x].aad /\ dirty'[x].status = dirty[x].status
          /\ dirty'[x].revoked <=> dirty[x].revoked
      BY <3>2 DEF WithExpiry
    <3>. QED
      BY <2>2, <3>2, <3>3
  <2>3. CASE op[t] = "rollback"
    BY <1>1, <2>3 DEF TargetRow
  <2>. QED
    BY <1>1, <2>1, <2>2, <2>3
<1>5. lock'[x] = t /\ \A v \in Versions \ {x} : lock'[v] = lock[v]
  BY <1>1
<1>6. Quiet'
  BY <1>1, <1>4, <1>5 DEF Quiet
<1>7. Held'
  BY <1>1, <1>5 DEF Held, InTx
<1>8. Exclusive'
  <2>1. (rows[x].status = "ACTIVE" \/ dirty'[x].status = "ACTIVE") => Claims(x)
    BY <1>4 DEF Claims
  <2>2. lock[x] = Nobody /\ Claims(x) => \A w \in Versions \ {x} : ~Claims(w)
    BY <1>1 DEF Exclusive
  <2>3. dirty'[x].status = "ACTIVE" => dirty[x].status = "ACTIVE"
    BY <1>4
  <2>. SUFFICES ASSUME NEW v \in Versions, NEW w \in Versions, v # w,
                       rows[v].status = "ACTIVE" \/ dirty'[v].status = "ACTIVE",
                       rows[w].status = "ACTIVE" \/ dirty'[w].status = "ACTIVE"
                PROVE  /\ lock'[v] # Nobody /\ lock'[v] = lock'[w]
                       /\ ~(rows[v].status = "ACTIVE" /\ rows[w].status = "ACTIVE")
                       /\ ~(dirty'[v].status = "ACTIVE" /\ dirty'[w].status = "ACTIVE")
    BY <1>1 DEF Exclusive, Claims
  <2>4. Claims(v) /\ Claims(w)
    BY <1>4, <2>1 DEF Claims
  <2>5. /\ lock[v] # Nobody /\ lock[v] = lock[w]
        /\ ~(rows[v].status = "ACTIVE" /\ rows[w].status = "ACTIVE")
        /\ ~(dirty[v].status = "ACTIVE" /\ dirty[w].status = "ACTIVE")
    BY <2>4 DEF Exclusive
  <2>6. lock'[v] # Nobody /\ lock'[v] = lock'[w]
    BY <1>1, <1>5, <2>5
  <2>. QED
    BY <1>4, <2>3, <2>5, <2>6
<1>9. Marked' /\ NotUndone'
  <2>1. Marked'
    BY ZenonT(30), <1>1, <1>4 DEF Marked
  <2>2. NotUndone'
    BY <1>1, <1>4 DEF NotUndone
  <2>. QED
    BY <2>1, <2>2
<1>10. Sealed'
  <2>1. rows[x].aad = x /\ Exists(dirty'[x]) /\ dirty'[x].aad = x
    BY <1>2, <1>3, <1>4 DEF Sealed, Exists
  <2>2. ASSUME NEW v \in Versions \ {x}, ~Exists(rows[v]), Exists(dirty[v])
        PROVE  /\ lock'[v] # Nobody
               /\ pc'[lock'[v]] = "written" /\ op'[lock'[v]] \in {"create", "rotate"}
               /\ target'[lock'[v]] = v /\ dirty'[v].aad = seen'[lock'[v]] + 1
    <3>1. /\ lock[v] # Nobody
          /\ pc[lock[v]] = "written" /\ op[lock[v]] \in {"create", "rotate"}
          /\ target[lock[v]] = v /\ dirty[v].aad = seen[lock[v]] + 1
      BY <2>2 DEF Sealed
    <3>. QED
      BY <1>1, <1>4, <1>5, <3>1
  <2>3. \A v \in Versions \ {x} :
          Exists(rows[v]) => Exists(dirty'[v]) /\ rows[v].aad = v /\ dirty'[v].aad = v
    BY <1>4 DEF Sealed
  <2>. QED
    BY <1>1, <1>3, <1>4, <2>1, <2>2, <2>3 DEF Sealed, Exists
<1>11. Creation' /\ Inserting'
  BY <1>1 DEF Creation, Inserting
<1>12. Restoring'
  <2>. SUFFICES ASSUME NEW u \in Requests, pc'[u] = "index", op[u] = "rollback"
                PROVE  /\ lock'[target[u]] = u
                       /\ Exists(rows[target[u]]) /\ ~dirty'[target[u]].revoked
    BY <1>1 DEF Restoring, Exists
  <2>1. CASE u = t
    BY <1>1, <1>2, <1>3, <1>4, <1>5, <2>1
  <2>2. CASE u # t
    <3>1. lock[target[u]] = u /\ Exists(rows[target[u]]) /\ ~dirty[target[u]].revoked
      BY <1>1, <2>2 DEF Restoring
    <3>. QED
      BY <1>1, <1>4, <1>5, <2>2, <3>1
  <2>. QED
    BY <2>1, <2>2
<1>. QED
  BY <1>6, <1>7, <1>8, <1>9, <1>10, <1>11, <1>12

\* COMMIT: what one transaction wrote becomes the committed table.
LEMMA CommitStep ==
  ASSUME IInv, TypeOK', NEW t \in Requests, Commit(t)
  PROVE  IInv'
<1>. USE NobodyAssumption DEF IInv, TypeOK
<1>1. /\ dirty' = dirty
      /\ \A v \in Versions : rows'[v] = IF lock[v] = t THEN dirty[v] ELSE rows[v]
      /\ \A v \in Versions : lock'[v] = IF lock[v] = t THEN Nobody ELSE lock[v]
  BY DEF Commit
<1>2. /\ pc[t] = "written" /\ pc'[t] = "idle" /\ op'[t] = "create" /\ seen'[t] = 0
      /\ op[t] = "rotate" => target[t] = seen[t] + 1
      /\ \A u \in Requests \ {t} : pc'[u] = pc[u] /\ op'[u] = op[u] /\ target'[u] = target[u] /\ seen'[u] = seen[u]
  BY DEF Commit, Finish
<1>3. Quiet'
  BY <1>1 DEF Quiet
<1>4. Held'
  BY <1>1, <1>2 DEF Held
<1>5. Exclusive'
  BY <1>1 DEF Exclusive, Claims
<1>6. Marked' /\ NotUndone'
  BY <1>1 DEF Marked, NotUndone
<1>7. Sealed'
  <2>1. ASSUME NEW v \in Versions, lock[v] = t, Exists(dirty[v])
        PROVE  dirty[v].aad = v
    <3>1. CASE Exists(rows[v])
      BY <3>1 DEF Sealed
    <3>2. CASE ~Exists(rows[v])
      <4>1. op[t] \in {"create", "rotate"} /\ target[t] = v /\ dirty[v].aad = seen[t] + 1
        BY <2>1, <3>2 DEF Sealed
      <4>2. op[t] = "create" => target[t] = seen[t] + 1
        BY <1>2 DEF Creation
      <4>. QED
        BY <1>2, <4>1, <4>2
    <3>. QED
      BY <3>1, <3>2
  <2>2. ASSUME NEW v \in Versions, lock[v] # t, ~Exists(rows[v]), Exists(dirty[v])
        PROVE  /\ lock'[v] # Nobody
               /\ pc'[lock'[v]] = "written" /\ op'[lock'[v]] \in {"create", "rotate"}
               /\ target'[lock'[v]] = v /\ dirty'[v].aad = seen'[lock'[v]] + 1
    <3>1. /\ lock[v] # Nobody
          /\ pc[lock[v]] = "written" /\ op[lock[v]] \in {"create", "rotate"}
          /\ target[lock[v]] = v /\ dirty[v].aad = seen[lock[v]] + 1
      BY <2>2 DEF Sealed
    <3>. QED
      BY <1>1, <1>2, <2>2, <3>1
  <2>3. \A v \in Versions :
          Exists(rows[v]) => Exists(dirty[v]) /\ rows[v].aad = v /\ dirty[v].aad = v
    BY DEF Sealed
  <2>. QED
    BY <1>1, <2>1, <2>2, <2>3 DEF Sealed, Exists
<1>8. Creation' /\ Inserting'
  <2>1. Creation'
    BY ZenonT(30), <1>2 DEF Creation
  <2>2. Inserting'
    BY <1>2 DEF Inserting
  <2>. QED
    BY <2>1, <2>2
<1>9. Restoring'
  <2>. SUFFICES ASSUME NEW u \in Requests, pc'[u] = "index", op'[u] = "rollback"
                PROVE  /\ lock'[target'[u]] = u
                       /\ Exists(rows'[target'[u]]) /\ ~dirty'[target'[u]].revoked
    BY DEF Restoring, Exists
  <2>1. u # t /\ pc[u] = "index" /\ op[u] = "rollback" /\ target'[u] = target[u]
    BY <1>2
  <2>2. lock[target[u]] = u /\ Exists(rows[target[u]]) /\ ~dirty[target[u]].revoked
    BY <2>1 DEF Restoring
  <2>. QED
    BY <1>1, <2>1, <2>2
<1>. QED
  BY <1>3, <1>4, <1>5, <1>6, <1>7, <1>8, <1>9

LEMMA IInvNext == IInv /\ [Next]_vars => IInv'
<1>. SUFFICES ASSUME IInv, [Next]_vars PROVE IInv'
  OBVIOUS
<1>0. TypeOK /\ TypeOK'
  BY TypeNext DEF IInv
<1>1. CASE UNCHANGED vars \/ Tick
  <2>1. UNCHANGED <<rows, dirty, lock, pc, op, target, seen>>
    BY <1>1 DEF vars, Tick, database, request
  <2>. QED
    BY <1>0, <2>1 DEF IInv, Quiet, Held, Exclusive, Claims, Marked, NotUndone, Sealed, Exists,
                      Creation, Restoring, Inserting
<1>2. ASSUME NEW t \in Requests, NEW o \in Offered, NEW v \in Versions, Locate(t, o, v)
      PROVE  IInv'
  <2>1. pc[t] = "idle" /\ pc'[t] = "located" /\ op'[t] = o
    BY <1>0, <1>2 DEF Locate, TypeOK
  <2>2. o = "create" => seen'[t] = 0
    BY <1>0, <1>2 DEF Locate, TypeOK
  <2>3. /\ \A u \in Requests \ {t} : pc'[u] = pc[u] /\ op'[u] = op[u] /\ target'[u] = target[u] /\ seen'[u] = seen[u]
        /\ UNCHANGED database
    BY <1>0, <1>2 DEF Locate, TypeOK, database
  <2>. QED
    BY <1>0, <2>1, <2>2, <2>3, LocalStep DEF InTx
<1>3. ASSUME NEW t \in Requests, Stamp(t) \/ Authorize(t) PROVE IInv'
  <2>1. /\ pc[t] \in {"located", "stamped"} /\ pc'[t] \in {"stamped", "authorized"}
        /\ \A u \in Requests \ {t} : pc'[u] = pc[u]
        /\ UNCHANGED <<op, target, seen, database>>
    BY <1>0, <1>3 DEF Stamp, Authorize, Goto, TypeOK
  <2>2. op[t] = "create" => seen[t] = 0
    BY DEF IInv, Creation
  <2>. QED
    BY <1>0, <2>1, <2>2, LocalStep DEF InTx
<1>4. ASSUME NEW t \in Requests, Deny(t) \/ Release(t) \/ Withhold(t) PROVE IInv'
  <2>1. /\ pc[t] \in {"located", "stamped", "authorized"} /\ pc'[t] = "idle"
        /\ op'[t] = "create" /\ seen'[t] = 0
        /\ \A u \in Requests \ {t} : pc'[u] = pc[u] /\ op'[u] = op[u] /\ target'[u] = target[u] /\ seen'[u] = seen[u]
        /\ UNCHANGED database
    BY <1>0, <1>4 DEF Deny, Release, Withhold, Finish, TypeOK
  <2>. QED
    BY <1>0, <2>1, LocalStep DEF InTx
<1>5. ASSUME NEW t \in Requests, SupersedeStart(t) \/ TargetStart(t) PROVE IInv'
  <2>1. /\ pc[t] \in {"authorized", "supersede"} /\ pc'[t] \in {"supersede", "target"}
        /\ \A u \in Requests \ {t} : pc'[u] = pc[u]
        /\ UNCHANGED <<op, target, seen, database>> /\ op[t] # "create"
    BY <1>0, <1>5 DEF SupersedeStart, TargetStart, AtTargetStatement, Goto, TypeOK
  <2>. QED
    BY <1>0, <2>1, LocalStep DEF InTx
<1>6. ASSUME NEW t \in Requests, InsertStart(t) PROVE IInv'
  <2>1. /\ pc[t] \in {"authorized", "supersede"} /\ pc'[t] = "index"
        /\ op[t] \in {"create", "rotate"} /\ (op[t] = "create" => target'[t] = 1)
        /\ \A u \in Requests \ {t} : pc'[u] = pc[u] /\ target'[u] = target[u]
        /\ UNCHANGED <<op, seen, database>>
    BY <1>0, <1>6 DEF InsertStart, Goto, TypeOK
  <2>2. op[t] = "create" => seen[t] = 0
    BY DEF IInv, Creation
  <2>. QED
    BY <1>0, <2>1, <2>2, LocalStep DEF InTx
<1>7. ASSUME NEW t \in Requests, NEW v \in Versions, SupersedeRow(t, v) PROVE IInv'
  BY <1>0, <1>7, SupersedeStep
<1>8. ASSUME NEW t \in Requests, EnterIndex(t) PROVE IInv'
  BY <1>0, <1>8, EnterIndexStep
<1>9. ASSUME NEW t \in Requests, TargetRow(t) PROVE IInv'
  BY <1>0, <1>9, TargetRowStep
<1>10. ASSUME NEW t \in Requests, Commit(t) PROVE IInv'
  BY <1>0, <1>10, CommitStep
<1>11. ASSUME NEW t \in Requests,
              Conflict(t) \/ TargetMissing(t) \/ Refuse(t) \/ Abort(t) \/ DeadlockVictim(t)
       PROVE  IInv'
  BY <1>0, <1>11, RollbackStep DEF Conflict, TargetMissing, Refuse, Abort, DeadlockVictim
<1>. QED
  BY <1>1, <1>2, <1>3, <1>4, <1>5, <1>6, <1>7, <1>8, <1>9, <1>10, <1>11 DEF Next, Arrive, Progress

\* The rows, the locks and the progress of the transactions stay consistent.
THEOREM Inductive == Spec => []IInv
BY IInvInit, IInvNext, PTL DEF Spec

-----------------------------------------------------------------------------
(* What follows *)

\* store.CreateVersion and ActivateVersion: however writes overlap, a secret
\* never has two active versions.
THEOREM OneActiveAlways == Spec => []OneActive
<1>1. IInv => OneActive
  BY DEF IInv, Exclusive, Claims, OneActive, ActiveIn
<1>. QED
  BY <1>1, Inductive, PTL

\* Service.Rotate binds the ciphertext to a number computed before its
\* transaction: every committed version nevertheless carries its own number.
THEOREM MaterialOpensAlways == Spec => []MaterialOpens
<1>1. IInv => MaterialOpens
  BY DEF IInv, Sealed, MaterialOpens
<1>. QED
  BY <1>1, Inductive, PTL

\* store.RevokeVersion: no transaction's commit takes a revocation back.
THEOREM RevocationIsFinal == Spec => RevokedForGood
<1>1. IInv /\ IInv' /\ [Next]_vars =>
        [\A v \in Versions : rows[v].revoked => rows'[v].revoked /\ rows'[v].status = "REVOKED"]_vars
  <2>. SUFFICES ASSUME IInv, IInv', [Next]_vars, NEW v \in Versions, rows[v].revoked
                PROVE  rows'[v].revoked /\ rows'[v].status = "REVOKED"
    OBVIOUS
  <2>1. rows'[v].revoked
    <3>1. CASE \E t \in Requests : Commit(t)
      <4>1. PICK t \in Requests : Commit(t)
        BY <3>1
      <4>2. rows'[v] = IF lock[v] = t THEN dirty[v] ELSE rows[v]
        BY <4>1 DEF Commit
      <4>3. dirty[v].revoked
        BY DEF IInv, NotUndone
      <4>. QED
        BY <4>2, <4>3
    <3>2. CASE ~\E t \in Requests : Commit(t)
      <4>1. UNCHANGED rows
        BY <3>2 DEF Next, Arrive, Progress, vars, Tick, Locate, Stamp, Authorize, Deny, Release, Withhold,
                    SupersedeStart, SupersedeRow, InsertStart, EnterIndex, Conflict, TargetStart, TargetRow,
                    TargetMissing, Refuse, Abort, DeadlockVictim, Rollback, database
      <4>. QED
        BY <4>1
    <3>. QED
      BY <3>1, <3>2
  <2>2. rows'[v].revoked <=> (rows'[v].status = "REVOKED")
    BY DEF IInv, Marked
  <2>. QED
    BY <2>1, <2>2
<1>. QED
  BY <1>1, Inductive, PTL DEF Spec, RevokedForGood
=============================================================================
