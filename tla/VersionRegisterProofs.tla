------------------------ MODULE VersionRegisterProofs ------------------------
(***************************************************************************)
(* SecretVersions implements VersionRegister, for any number of requests   *)
(* and versions, and what the numbering and the readings of its requests   *)
(* are worth: no gap, no lost rotation, no barred plaintext.               *)
(***************************************************************************)
EXTENDS SecretVersionsProofs

-----------------------------------------------------------------------------
(* The invariant, on top of IInv *)

\* Versions are numbered without holes, also counting the uncommitted one.
Dense ==
  \A v \in Versions :
    /\ Exists(rows[v]) <=> v <= Issued
    /\ ~Exists(rows[v]) /\ Exists(dirty[v]) => v = Issued + 1

\* A transaction about to commit holds the row it was for, and has written it.
Written ==
  \A t \in Requests : pc[t] = "written" =>
    /\ lock[target[t]] = t
    /\ op[t] \in {"create", "rotate"} => ~Exists(rows[target[t]]) /\ Exists(dirty[target[t]])
    /\ op[t] \in {"create", "rotate", "rollback"} => dirty[target[t]].status = "ACTIVE"
    /\ op[t] = "rollback" => Exists(rows[target[t]])

\* How the tuple v of the transaction t differs from the committed row.
Change(v, t) ==
  /\ op[t] \in {"create", "revoke", "expire"} => pc[t] = "written" /\ v = target[t]
  /\ op[t] = "create" => ~Exists(rows[v])
  /\ op[t] # "revoke" => (dirty[v].revoked <=> rows[v].revoked)
  /\ op[t] = "revoke" => dirty[v].revoked /\ ~rows[v].revoked /\ Exists(rows[v])
  /\ op[t] = "expire" => dirty[v].status = rows[v].status

Changes == \A v \in Versions : lock[v] # Nobody => Change(v, lock[v])

\* Only certain operations get to each of the transaction's statements.
Placed(t) ==
  /\ pc[t] = "supersede" => op[t] \in {"rotate", "rollback"}
  /\ pc[t] = "target"    => op[t] \in {"revoke", "expire", "rollback"}
  /\ pc[t] = "written"   => op[t] \in Writes

\* The summary names a version that existed when it was read, and no version is
\* ever taken away; an INSERT under way has not numbered its version too high.
ReadBefore(t) ==
  /\ pc[t] # "idle" => seen[t] <= before[t].issued /\ before[t].issued <= Issued
  /\ pc[t] = "index" /\ op[t] = "rotate" => target[t] <= Issued + 1

\* What was barred when the summary was read is barred by the summary, at the
\* moment the request takes as its present.
Judged(t) ==
  pc[t] # "idle" /\ seen[t] \in before[t].barred =>
    \/ seenRow[t].revoked
    \/ /\ seenRow[t].expires <= now
       /\ op[t] \in Dated /\ pc[t] # "located" => seenRow[t].expires <= stamp[t]

Informed == \A t \in Requests : Placed(t) /\ ReadBefore(t) /\ Judged(t)

LInv == IInv /\ Dense /\ Written /\ Changes /\ Informed

-----------------------------------------------------------------------------
(* Counting *)

\* A table numbered without holes up to n holds n versions.
LEMMA CountIs ==
  ASSUME NEW table, NEW n \in 0 .. MaxVersion,
         \A v \in Versions : Exists(table[v]) <=> v <= n
  PROVE  IssuedIn(table) = n
<1>1. {v \in Versions : Exists(table[v])} = 1 .. n
  BY BoundsAssumption DEF Versions
<1>2. Cardinality(1 .. n) = n
  BY FS_Interval
<1>. QED
  BY <1>1, <1>2 DEF IssuedIn

\* A version more is issued only with the number that follows.
LEMMA IssuedBound == LInv => Issued \in 0 .. MaxVersion
<1>. SUFFICES ASSUME LInv PROVE Issued \in 0 .. MaxVersion
  OBVIOUS
<1>1. Issued \in Nat
  BY IssuedIsNat
<1>2. IsFiniteSet(Versions) /\ Cardinality(Versions) = MaxVersion
  BY BoundsAssumption, FS_Interval DEF Versions
<1>3. Issued <= MaxVersion
  BY <1>2, FS_Subset DEF Issued, IssuedIn
<1>. QED
  BY <1>1, <1>3, BoundsAssumption

\* The number an INSERT chooses is at most the one after the committed ones.
LEMMA NumberChosen ==
  ASSUME LInv, NEW t \in Requests, pc[t] = "supersede"
  PROVE  NextNumber(t) <= Issued + 1
<1>. DEFINE present == {v \in Versions : Exists(View(t)[v])}
            Fits(n) == (\A v \in present : v < n) /\ (n = 1 \/ n - 1 \in present)
<1>1. Issued \in 0 .. MaxVersion
  BY IssuedBound
<1>2. \A v \in Versions : Exists(View(t)[v]) <=> v <= Issued
  <2>. SUFFICES ASSUME NEW v \in Versions PROVE Exists(View(t)[v]) <=> v <= Issued
    OBVIOUS
  <2>1. Exists(rows[v]) <=> v <= Issued
    BY DEF LInv, Dense
  <2>2. View(t)[v] = IF lock[v] = t THEN dirty[v] ELSE rows[v]
    BY DEF View
  <2>3. lock[v] = t => (Exists(dirty[v]) <=> Exists(rows[v]))
    BY DEF LInv, IInv, Sealed
  <2>. QED
    BY <2>1, <2>2, <2>3
<1>3. present = {v \in Versions : v <= Issued}
  BY <1>2
<1>4. \E n \in 1 .. MaxVersion + 1 : Fits(n)
  <2>1. Issued + 1 \in 1 .. MaxVersion + 1 /\ Fits(Issued + 1)
    BY <1>1, <1>3, BoundsAssumption DEF Versions
  <2>. QED
    BY <2>1
<1>5. NextNumber(t) \in 1 .. MaxVersion + 1 /\ Fits(NextNumber(t))
  BY <1>4 DEF NextNumber
<1>. QED
  BY <1>1, <1>3, <1>5

LEMMA SameCount == UNCHANGED rows => Issued' = Issued
BY DEF Issued, IssuedIn

-----------------------------------------------------------------------------
(* What a step of one request leaves alone *)

\* A request that stands still stays informed: versions and time only grow.
LEMMA StaysInformed ==
  ASSUME LInv, Issued <= Issued', now <= now', Issued' \in Nat, now' \in Nat,
         TypeOK', NEW u \in Requests,
         /\ pc'[u] = pc[u] /\ op'[u] = op[u] /\ target'[u] = target[u] /\ seen'[u] = seen[u]
         /\ seenRow'[u] = seenRow[u] /\ stamp'[u] = stamp[u] /\ before'[u] = before[u]
  PROVE  Placed(u)' /\ ReadBefore(u)' /\ Judged(u)'
<1>1. Placed(u) /\ ReadBefore(u) /\ Judged(u)
  BY DEF LInv, Informed
<1>2. Issued \in Nat
  BY IssuedIsNat
<1>3. /\ seen[u] \in Nat /\ before[u].issued \in Nat /\ target[u] \in Nat
      /\ seenRow[u].expires \in Nat /\ now \in Nat
  <2>1. TypeOK
    BY DEF LInv, IInv
  <2>2. seenRow[u] \in Row /\ \A r \in Row : r.expires \in Nat
    BY <2>1, Types DEF TypeOK, Row
  <2>3. seen[u] \in Nat /\ before[u].issued \in Nat /\ target[u] \in Nat /\ now \in Nat
    BY <2>1 DEF TypeOK, Versions
  <2>. QED
    BY <2>2, <2>3
<1>4. Placed(u)'
  BY <1>1 DEF Placed
<1>5. ReadBefore(u)'
  BY <1>1, <1>2, <1>3 DEF ReadBefore
<1>6. Judged(u)'
  BY <1>1, <1>3 DEF Judged
<1>. QED
  BY <1>4, <1>5, <1>6

\* A request that moves on keeps what it has read.
LEMMA MovesOn ==
  ASSUME LInv, NEW t \in Requests, Issued <= Issued', Issued' \in Nat, now' = now,
         pc[t] # "idle", pc[t] = "located" => op[t] \notin Dated,
         /\ op'[t] = op[t] /\ seen'[t] = seen[t] /\ seenRow'[t] = seenRow[t]
         /\ stamp'[t] = stamp[t] /\ before'[t] = before[t]
  PROVE  /\ Judged(t)'
         /\ pc'[t] # "idle" => seen'[t] <= before'[t].issued /\ before'[t].issued <= Issued'
<1>1. ReadBefore(t) /\ Judged(t)
  BY DEF LInv, Informed
<1>2. Issued \in Nat
  BY IssuedIsNat
<1>3. seen[t] \in Nat /\ before[t].issued \in Nat
  BY DEF LInv, IInv, TypeOK
<1>4. Judged(t)'
  BY <1>1 DEF Judged
<1>. QED
  BY <1>1, <1>2, <1>3, <1>4 DEF ReadBefore

\* A request that is forgotten knows nothing.
LEMMA Forgotten ==
  ASSUME NEW t \in Requests, pc'[t] = "idle"
  PROVE  Placed(t)' /\ ReadBefore(t)' /\ Judged(t)'
BY DEF Placed, ReadBefore, Judged

\* A step that writes no row, of a request that is not "written".
LEMMA LocalChanges ==
  ASSUME LInv, NEW t \in Requests, UNCHANGED database,
         \A u \in Requests \ {t} : pc'[u] = pc[u] /\ op'[u] = op[u] /\ target'[u] = target[u],
         pc[t] # "written", pc'[t] # "written", pc[t] \in InTx => op'[t] = op[t]
  PROVE  Dense' /\ Written' /\ Changes'
<1>. USE DEF LInv, IInv, TypeOK, database
<1>1. Dense'
  BY SameCount DEF Dense
<1>2. Written'
  BY DEF Written
<1>3. Changes'
  <2>. SUFFICES ASSUME NEW v \in Versions, lock[v] # Nobody
                PROVE  Change(v, lock[v])'
    BY DEF Changes
  <2>1. Change(v, lock[v]) /\ lock[v] \in Requests /\ pc[lock[v]] \in InTx
    BY DEF Changes, Held
  <2>2. CASE lock[v] = t
    BY <2>1, <2>2 DEF Change
  <2>3. CASE lock[v] # t
    BY <2>1, <2>3 DEF Change
  <2>. QED
    BY <2>2, <2>3
<1>. QED
  BY <1>1, <1>2, <1>3

\* What the other requests are doing.
Others(t) ==
  \A u \in Requests \ {t} :
    /\ pc'[u] = pc[u] /\ op'[u] = op[u] /\ target'[u] = target[u] /\ seen'[u] = seen[u]
    /\ seenRow'[u] = seenRow[u] /\ stamp'[u] = stamp[u] /\ before'[u] = before[u]

LEMMA OthersInformed ==
  ASSUME LInv, TypeOK', NEW t \in Requests, Issued <= Issued', Issued' \in Nat, now' = now, Others(t),
         Placed(t)' /\ ReadBefore(t)' /\ Judged(t)'
  PROVE  Informed'
<1>. SUFFICES ASSUME NEW u \in Requests \ {t} PROVE Placed(u)' /\ ReadBefore(u)' /\ Judged(u)'
  BY DEF Informed
<1>1. now \in Nat
  BY BoundsAssumption DEF LInv, IInv, TypeOK
<1>. QED
  BY <1>1, StaysInformed DEF Others

\* Before its first write, and when it ends without one.
LEMMA LocalInformed ==
  ASSUME LInv, IInv', NEW t \in Requests, UNCHANGED <<database, now>>, Others(t),
         pc[t] # "written", pc'[t] # "written", pc[t] \in InTx => op'[t] = op[t],
         Placed(t)' /\ ReadBefore(t)' /\ Judged(t)'
  PROVE  LInv'
<1>1. Issued' = Issued /\ Issued \in Nat
  BY SameCount, IssuedIsNat DEF database
<1>2. Dense' /\ Written' /\ Changes'
  BY LocalChanges DEF Others
<1>3. Informed'
  BY <1>1, OthersInformed DEF IInv
<1>. QED
  BY <1>2, <1>3 DEF LInv

-----------------------------------------------------------------------------
(* The steps *)

LEMMA LocateKeeps ==
  ASSUME LInv, IInv', NEW t \in Requests, NEW o \in Offered, NEW v \in Versions, Locate(t, o, v)
  PROVE  LInv'
<1>. USE DEF LInv, IInv, TypeOK
<1>1. PICK s \in IF o = "create" \/ ActiveIn(rows) = {} THEN {0} ELSE ActiveIn(rows) :
        /\ seen' = [seen EXCEPT ![t] = s]
        /\ seenRow' = [seenRow EXCEPT ![t] = IF s = 0 THEN NoRow ELSE rows[s]]
  BY DEF Locate
<1>2. /\ pc[t] = "idle" /\ pc'[t] = "located" /\ seen'[t] = s
      /\ seenRow'[t] = IF s = 0 THEN NoRow ELSE rows[s]
      /\ before'[t] = [issued |-> Issued, barred |-> Undeliverable]
      /\ UNCHANGED <<database, now>> /\ Others(t)
  BY <1>1 DEF Locate, Others, database
<1>3. s = 0 \/ (s \in Versions /\ Exists(rows[s]))
  BY <1>1 DEF ActiveIn, Exists
<1>4. Issued \in Nat /\ Issued' = Issued
  BY <1>2, SameCount, IssuedIsNat DEF database
<1>5. s <= Issued
  BY <1>3, <1>4 DEF Dense
<1>6. Placed(t)' /\ ReadBefore(t)'
  BY <1>2, <1>4, <1>5 DEF Placed, ReadBefore
<1>7. Judged(t)'
  <2>. SUFFICES ASSUME s \in Undeliverable PROVE seenRow'[t].revoked \/ seenRow'[t].expires <= now
    BY <1>2 DEF Judged
  <2>1. s \in Versions /\ s # 0 /\ (rows[s].revoked \/ rows[s].expires <= now)
    BY DEF Undeliverable, Expired, Versions
  <2>. QED
    BY <1>2, <2>1
<1>. QED
  BY <1>2, <1>6, <1>7, LocalInformed DEF InTx

LEMMA WaysKeep ==
  ASSUME LInv, IInv', NEW t \in Requests, Stamp(t) \/ Authorize(t)
  PROVE  LInv'
<1>. USE DEF LInv, IInv, TypeOK
<1>1. /\ pc[t] \in {"located", "stamped"} /\ pc'[t] \in {"stamped", "authorized"}
      /\ UNCHANGED <<database, now, op, target, seen, seenRow, before>> /\ Others(t)
  BY DEF Stamp, Authorize, Goto, Others
<1>2. Issued' = Issued
  BY <1>1, SameCount DEF database
<1>3. Placed(t)' /\ ReadBefore(t)'
  BY <1>1, <1>2 DEF Placed, ReadBefore, Informed
<1>4. Judged(t)'
  <2>1. CASE Stamp(t)
    <3>1. stamp'[t] = now
      BY <2>1 DEF Stamp
    <3>. QED
      BY <1>1, <3>1 DEF Judged, Informed
  <2>2. CASE Authorize(t)
    <3>1. stamp'[t] = stamp[t] /\ (pc[t] = "located" => op[t] \notin Dated)
      BY <2>2 DEF Authorize
    <3>. QED
      BY <1>1, <3>1 DEF Judged, Informed
  <2>. QED
    BY <2>1, <2>2
<1>. QED
  BY <1>1, <1>3, <1>4, LocalInformed DEF InTx

LEMMA EndsKeep ==
  ASSUME LInv, IInv', NEW t \in Requests, Deny(t) \/ Release(t) \/ Withhold(t)
  PROVE  LInv'
<1>1. /\ pc[t] \in {"located", "stamped", "authorized"} /\ pc'[t] = "idle"
      /\ UNCHANGED <<database, now>> /\ Others(t)
  BY DEF Deny, Release, Withhold, Finish, Others, LInv, IInv, TypeOK
<1>. QED
  BY <1>1, Forgotten, LocalInformed DEF InTx

LEMMA StartsKeep ==
  ASSUME LInv, IInv', NEW t \in Requests, SupersedeStart(t) \/ TargetStart(t) \/ InsertStart(t)
  PROVE  LInv'
<1>. USE DEF LInv, IInv, TypeOK
<1>1. /\ pc[t] \in {"authorized", "supersede"} /\ pc'[t] \in {"supersede", "target", "index"}
      /\ UNCHANGED <<database, now, op, seen, seenRow, stamp, before>> /\ Others(t)
      /\ pc'[t] = "supersede" => op[t] \in {"rotate", "rollback"}
      /\ pc'[t] = "target" => op[t] \in {"revoke", "expire", "rollback"}
  BY DEF SupersedeStart, TargetStart, AtTargetStatement, InsertStart, Goto, Others
<1>2. Issued' = Issued /\ Issued \in Nat
  BY <1>1, SameCount, IssuedIsNat DEF database
<1>3. Placed(t)'
  BY <1>1 DEF Placed
<1>4. /\ Judged(t)'
      /\ pc'[t] # "idle" => seen'[t] <= before'[t].issued /\ before'[t].issued <= Issued'
  BY <1>1, <1>2, MovesOn
<1>5. pc'[t] = "index" /\ op[t] = "rotate" => target'[t] <= Issued + 1
  <2>. SUFFICES ASSUME pc'[t] = "index", op[t] = "rotate" PROVE target'[t] <= Issued + 1
    OBVIOUS
  <2>1. InsertStart(t)
    BY DEF SupersedeStart, TargetStart, Goto
  <2>2. pc[t] = "supersede" /\ target'[t] = NextNumber(t)
    BY <2>1 DEF InsertStart
  <2>. QED
    BY <2>2, NumberChosen
<1>6. ReadBefore(t)'
  BY <1>1, <1>2, <1>4, <1>5 DEF ReadBefore
<1>. QED
  BY <1>1, <1>3, <1>4, <1>6, LocalInformed DEF InTx
\* ROLLBACK: what is left is what was committed.
LEMMA RollbackKeeps ==
  ASSUME LInv, IInv', NEW t \in Requests, Rollback(t)
  PROVE  LInv'
<1>. USE NobodyAssumption DEF LInv, IInv, TypeOK
<1>1. /\ UNCHANGED <<rows, now>> /\ pc'[t] = "idle" /\ Others(t)
      /\ \A v \in Versions : dirty'[v] = IF lock[v] = t THEN rows[v] ELSE dirty[v]
      /\ \A v \in Versions : lock'[v] = IF lock[v] = t THEN Nobody ELSE lock[v]
  BY DEF Rollback, Finish, Others
<1>2. Issued' = Issued /\ Issued \in Nat
  BY <1>1, SameCount, IssuedIsNat
<1>3. Dense'
  BY <1>1, <1>2 DEF Dense
<1>4. Written'
  <2>. SUFFICES ASSUME NEW u \in Requests, pc'[u] = "written"
                PROVE  /\ lock'[target'[u]] = u
                       /\ op'[u] \in {"create", "rotate"} => ~Exists(rows'[target'[u]]) /\ Exists(dirty'[target'[u]])
                       /\ op'[u] \in {"create", "rotate", "rollback"} => dirty'[target'[u]].status = "ACTIVE"
                       /\ op'[u] = "rollback" => Exists(rows'[target'[u]])
    BY DEF Written
  <2>1. u # t /\ pc[u] = "written" /\ op'[u] = op[u] /\ target'[u] = target[u]
    BY <1>1 DEF Others
  <2>2. lock[target[u]] = u
    BY <2>1 DEF Written
  <2>3. lock'[target[u]] = u /\ dirty'[target[u]] = dirty[target[u]]
    BY <1>1, <2>1, <2>2
  <2>. QED
    BY <1>1, <2>1, <2>3 DEF Written
<1>5. Changes'
  <2>. SUFFICES ASSUME NEW v \in Versions, lock'[v] # Nobody
                PROVE  Change(v, lock[v])'
    BY DEF Changes
  <2>1. lock[v] # t /\ lock'[v] = lock[v] /\ dirty'[v] = dirty[v] /\ lock[v] \in Requests \ {t}
    BY <1>1
  <2>2. Change(v, lock[v])
    BY <2>1 DEF Changes
  <2>. QED
    BY <1>1, <2>1, <2>2 DEF Change, Others
<1>6. Informed'
  BY <1>1, <1>2, Forgotten, OthersInformed
<1>. QED
  BY <1>3, <1>4, <1>5, <1>6

\* A step that writes one row, existing or new, on behalf of t.
LEMMA OneRowChanges ==
  ASSUME LInv, NEW t \in Requests, NEW x \in Versions,
         lock[x] \in {Nobody, t}, lock'[x] = t, Change(x, t)',
         \A v \in Versions \ {x} : lock'[v] = lock[v] /\ dirty'[v] = dirty[v],
         UNCHANGED rows, Others(t), op'[t] = op[t], target'[t] = target[t],
         pc[t] # "written", pc[t] \in InTx
  PROVE  Changes'
<1>. USE NobodyAssumption DEF LInv, IInv, TypeOK
<1>. SUFFICES ASSUME NEW v \in Versions \ {x}, lock[v] # Nobody
              PROVE  Change(v, lock[v])'
  BY DEF Changes
<1>1. Change(v, lock[v]) /\ lock[v] \in Requests /\ dirty'[v] = dirty[v]
  BY DEF Changes
<1>2. CASE lock[v] = t
  BY <1>1, <1>2 DEF Change
<1>3. CASE lock[v] # t
  BY <1>1, <1>3 DEF Change, Others
<1>. QED
  BY <1>2, <1>3

\* ... leaves the rows of the other transactions as they were written.
LEMMA OneRowWritten ==
  ASSUME LInv, NEW t \in Requests, NEW x \in Versions, lock[x] \in {Nobody, t},
         \A v \in Versions \ {x} : lock'[v] = lock[v] /\ dirty'[v] = dirty[v],
         UNCHANGED rows, Others(t), NEW u \in Requests \ {t}, pc[u] = "written"
  PROVE  /\ lock'[target'[u]] = u
         /\ op'[u] \in {"create", "rotate"} => ~Exists(rows'[target'[u]]) /\ Exists(dirty'[target'[u]])
         /\ op'[u] \in {"create", "rotate", "rollback"} => dirty'[target'[u]].status = "ACTIVE"
         /\ op'[u] = "rollback" => Exists(rows'[target'[u]])
<1>. USE NobodyAssumption DEF LInv, IInv, TypeOK
<1>1. lock[target[u]] = u /\ target[u] \in Versions /\ op'[u] = op[u] /\ target'[u] = target[u]
  BY DEF Written, Others
<1>2. target[u] # x
  BY <1>1
<1>. QED
  BY <1>1, <1>2 DEF Written

LEMMA SupersedeKeeps ==
  ASSUME LInv, IInv', NEW t \in Requests, NEW x \in Versions, SupersedeRow(t, x)
  PROVE  LInv'
<1>. USE NobodyAssumption DEF LInv, IInv, TypeOK
<1>1. /\ UNCHANGED <<rows, now, pc, op, target, seen, seenRow, stamp, before>> /\ Others(t)
      /\ pc[t] = "supersede" /\ lock[x] = Nobody /\ dirty[x] = rows[x]
  BY DEF SupersedeRow, Others, Quiet
<1>2. op[t] \in {"rotate", "rollback"}
  BY <1>1 DEF Informed, Placed
<1>3. Issued' = Issued /\ Issued \in Nat
  BY <1>1, SameCount, IssuedIsNat
<1>4. Informed'
  <2>1. Placed(t)' /\ ReadBefore(t)' /\ Judged(t)'
    BY <1>1, <1>3 DEF Informed, Placed, ReadBefore, Judged
  <2>. QED
    BY <1>1, <1>3, <2>1, OthersInformed
<1>5. CASE dirty[x].status # "ACTIVE"
  <2>1. UNCHANGED <<dirty, lock>>
    BY <1>5 DEF SupersedeRow
  <2>2. Dense' /\ Written' /\ Changes'
    BY <1>1, <2>1, LocalChanges DEF Others, database
  <2>. QED
    BY <1>4, <2>2
<1>6. CASE dirty[x].status = "ACTIVE"
  <2>1. /\ dirty' = [dirty EXCEPT ![x] = WithStatus(dirty[x], "SUPERSEDED")]
        /\ lock' = [lock EXCEPT ![x] = t]
    BY <1>6 DEF SupersedeRow
  <2>2. /\ dirty'[x].status = "SUPERSEDED" /\ dirty'[x].revoked = dirty[x].revoked /\ lock'[x] = t
        /\ \A v \in Versions \ {x} : dirty'[v] = dirty[v] /\ lock'[v] = lock[v]
    BY <2>1 DEF WithStatus
  <2>3. Exists(rows[x])
    BY <1>1, <1>6 DEF Exists
  <2>4. Dense'
    BY <1>1, <1>3, <2>2, <2>3 DEF Dense
  <2>5. Change(x, t)'
    BY <1>1, <1>2, <2>2 DEF Change
  <2>6. Changes'
    BY <1>1, <2>2, <2>5, OneRowChanges DEF InTx
  <2>7. Written'
    <3>. SUFFICES ASSUME NEW u \in Requests, pc'[u] = "written"
                  PROVE  /\ lock'[target'[u]] = u
                         /\ op'[u] \in {"create", "rotate"} => ~Exists(rows'[target'[u]]) /\ Exists(dirty'[target'[u]])
                         /\ op'[u] \in {"create", "rotate", "rollback"} => dirty'[target'[u]].status = "ACTIVE"
                         /\ op'[u] = "rollback" => Exists(rows'[target'[u]])
      BY DEF Written
    <3>1. u # t /\ pc[u] = "written"
      BY <1>1
    <3>. QED
      BY <1>1, <2>2, <3>1, OneRowWritten
  <2>. QED
    BY <1>4, <2>4, <2>6, <2>7
<1>. QED
  BY <1>5, <1>6

LEMMA EnterIndexKeeps ==
  ASSUME LInv, IInv', NEW t \in Requests, EnterIndex(t)
  PROVE  LInv'
<1>. USE NobodyAssumption DEF LInv, IInv, TypeOK
<1>. DEFINE x == target[t]
<1>1. /\ UNCHANGED <<rows, now, op, target, seen, seenRow, stamp, before>> /\ Others(t)
      /\ x \in Versions /\ pc[t] = "index" /\ pc'[t] = "written"
      /\ op[t] \in {"create", "rotate", "rollback"}
      /\ IndexBlockers(t) = {} /\ ~IndexConflict(t)
      /\ lock'[x] = t /\ \A v \in Versions \ {x} : lock'[v] = lock[v]
  BY DEF EnterIndex, Goto, Others, Inserting
<1>2. /\ dirty'[x].status = "ACTIVE" /\ ~dirty'[x].revoked
      /\ \A v \in Versions \ {x} : dirty'[v] = dirty[v]
  <2>1. CASE op[t] = "rollback"
    <3>1. dirty' = [dirty EXCEPT ![x] = WithStatus(dirty[x], "ACTIVE")] /\ ~dirty[x].revoked
      BY <1>1, <2>1 DEF EnterIndex, Restoring
    <3>. QED
      BY <1>1, <3>1 DEF WithStatus
  <2>2. CASE op[t] # "rollback"
    <3>1. PICK e \in (stamp[t] + 1) .. Never : dirty' = [dirty EXCEPT ![x] = NewRow(e, seen[t] + 1)]
      BY <1>1, <2>2 DEF EnterIndex
    <3>. QED
      BY <1>1, <3>1 DEF NewRow
  <2>. QED
    BY <2>1, <2>2
<1>3. Issued' = Issued /\ Issued \in Nat
  BY <1>1, SameCount, IssuedIsNat
<1>4. op[t] # "rollback" => ~Exists(rows[x])
  <2>1. op[t] = "create" => ~Exists(rows[x])
    BY <1>1 DEF IndexConflict
  <2>2. op[t] = "rotate" => ~Exists(rows[x])
    BY <1>1 DEF IndexConflict, Sealed
  <2>. QED
    BY <1>1, <2>1, <2>2
<1>5. op[t] = "rollback" => lock[x] = t /\ Exists(rows[x])
  BY <1>1 DEF Restoring
<1>6. lock[x] \in {Nobody, t}
  <2>1. CASE op[t] = "rollback"
    BY <1>5, <2>1
  <2>2. CASE op[t] \in {"create", "rotate"}
    <3>1. lock[x] \notin Requests \ {t}
      BY <1>1, <1>4, <2>2 DEF IndexBlockers
    <3>. QED
      BY <1>1, <3>1
  <2>. QED
    BY <1>1, <2>1, <2>2
<1>7. ~Exists(rows[x]) => x = Issued + 1
  <2>. SUFFICES ASSUME ~Exists(rows[x]) PROVE x = Issued + 1
    OBVIOUS
  <2>1. ~(x <= Issued) /\ x \in Nat
    BY <1>1 DEF Dense, Versions
  <2>2. op[t] = "rotate" => x <= Issued + 1
    BY <1>1 DEF Informed, ReadBefore
  <2>3. op[t] = "create" => x = 1
    BY <1>1 DEF Creation
  <2>4. x = 1 \/ x <= Issued + 1
    BY <1>1, <1>5, <2>2, <2>3
  <2>. HIDE DEF x, LInv
  <2>. QED
    BY <1>3, <2>1, <2>4
<1>8. Dense'
  <2>1. Exists(dirty'[x])
    BY <1>2 DEF Exists
  <2>. QED
    BY <1>1, <1>2, <1>3, <1>7 DEF Dense
<1>9. Change(x, t)'
  <2>1. ~rows[x].revoked
    <3>1. CASE op[t] = "rollback"
      BY <1>1, <3>1 DEF Restoring, NotUndone
    <3>2. CASE op[t] # "rollback"
      BY <1>1, <1>4, <3>2 DEF Marked, Exists
    <3>. QED
      BY <3>1, <3>2
  <2>. QED
    BY <1>1, <1>2, <1>4, <2>1 DEF Change
<1>10. Changes'
  BY <1>1, <1>2, <1>6, <1>9, OneRowChanges DEF InTx
<1>11. Written'
  <2>. SUFFICES ASSUME NEW u \in Requests, pc'[u] = "written"
                PROVE  /\ lock'[target'[u]] = u
                       /\ op'[u] \in {"create", "rotate"} => ~Exists(rows'[target'[u]]) /\ Exists(dirty'[target'[u]])
                       /\ op'[u] \in {"create", "rotate", "rollback"} => dirty'[target'[u]].status = "ACTIVE"
                       /\ op'[u] = "rollback" => Exists(rows'[target'[u]])
    BY DEF Written
  <2>1. CASE u = t
    BY <1>1, <1>2, <1>4, <1>5, <2>1 DEF Exists
  <2>2. CASE u # t
    <3>1. pc[u] = "written"
      BY <1>1, <2>2 DEF Others
    <3>2. \A v \in Versions \ {x} : lock'[v] = lock[v] /\ dirty'[v] = dirty[v]
      BY <1>1, <1>2
    <3>. QED
      BY SMTT(30), <1>1, <1>6, <2>2, <3>1, <3>2, OneRowWritten
  <2>. QED
    BY <2>1, <2>2
<1>12. Informed'
  <2>1. Judged(t)' /\ seen'[t] <= before'[t].issued /\ before'[t].issued <= Issued'
    <3>1. Issued <= Issued' /\ Issued' \in Nat /\ pc[t] # "idle" /\ pc[t] # "located" /\ pc'[t] # "idle"
      BY <1>1, <1>3
    <3>2. /\ op'[t] = op[t] /\ seen'[t] = seen[t] /\ seenRow'[t] = seenRow[t]
          /\ stamp'[t] = stamp[t] /\ before'[t] = before[t] /\ now' = now
      BY <1>1
    <3>. HIDE DEF LInv
    <3>. QED
      BY <3>1, <3>2, MovesOn
  <2>2. Placed(t)' /\ ReadBefore(t)'
    BY <1>1, <2>1 DEF Placed, ReadBefore, Writes
  <2>. QED
    BY <1>1, <1>3, <2>1, <2>2, OthersInformed
<1>. QED
  BY <1>8, <1>10, <1>11, <1>12
LEMMA TargetRowKeeps ==
  ASSUME LInv, IInv', NEW t \in Requests, TargetRow(t)
  PROVE  LInv'
<1>. USE NobodyAssumption DEF LInv, IInv, TypeOK
<1>. DEFINE x == target[t]
<1>1. /\ UNCHANGED <<rows, now, op, target, seen, seenRow, stamp, before>> /\ Others(t)
      /\ x \in Versions /\ pc[t] = "target" /\ lock[x] \in {Nobody, t}
      /\ pc'[t] = IF op[t] = "rollback" THEN "index" ELSE "written"
      /\ op[t] \in {"revoke", "expire", "rollback"}
      /\ lock'[x] = t /\ \A v \in Versions \ {x} : lock'[v] = lock[v]
  BY DEF TargetRow, Goto, Others
<1>2. Exists(dirty[x]) /\ (op[t] = "revoke" => ~dirty[x].revoked)
  BY DEF TargetRow, TargetMatches
<1>3. Exists(rows[x])
  BY <1>1, <1>2 DEF Quiet, Sealed
<1>4. op[t] # "rollback" => dirty[x] = rows[x]
  <2>1. lock[x] = t => op[t] = "rollback"
    BY <1>1 DEF Changes, Change
  <2>. QED
    BY <1>1, <2>1 DEF Quiet
<1>5. /\ op[t] = "rollback" => dirty' = dirty
      /\ op[t] = "revoke" => dirty'[x].revoked /\ dirty'[x].status = "REVOKED"
      /\ op[t] = "expire" => dirty'[x].status = dirty[x].status /\ dirty'[x].revoked = dirty[x].revoked
      /\ \A v \in Versions \ {x} : dirty'[v] = dirty[v]
  <2>1. CASE op[t] = "revoke"
    <3>1. dirty' = [dirty EXCEPT ![x] = AsRevoked(dirty[x])]
      BY <2>1 DEF TargetRow
    <3>. QED
      BY <1>1, <2>1, <3>1 DEF AsRevoked
  <2>2. CASE op[t] = "expire"
    <3>1. PICK e \in (stamp[t] + 1) .. Never : dirty' = [dirty EXCEPT ![x] = WithExpiry(dirty[x], e)]
      BY <2>2 DEF TargetRow
    <3>. QED
      BY <1>1, <2>2, <3>1 DEF WithExpiry
  <2>3. CASE op[t] = "rollback"
    BY <1>1, <2>3 DEF TargetRow
  <2>. QED
    BY <1>1, <2>1, <2>2, <2>3
<1>6. Issued' = Issued /\ Issued \in Nat
  BY <1>1, SameCount, IssuedIsNat
<1>7. Dense'
  BY <1>1, <1>3, <1>5, <1>6 DEF Dense
<1>8. Change(x, t)'
  <2>1. CASE op[t] = "rollback"
    <3>1. dirty[x].revoked <=> rows[x].revoked
      BY <1>1, <2>1 DEF Quiet, Changes, Change
    <3>. QED
      BY <1>1, <1>5, <2>1, <3>1 DEF Change
  <2>2. CASE op[t] # "rollback"
    BY <1>1, <1>2, <1>3, <1>4, <1>5, <2>2 DEF Change
  <2>. QED
    BY <2>1, <2>2
<1>9. Changes'
  BY <1>1, <1>5, <1>8, OneRowChanges DEF InTx
<1>10. Written'
  <2>. SUFFICES ASSUME NEW u \in Requests, pc'[u] = "written"
                PROVE  /\ lock'[target'[u]] = u
                       /\ op'[u] \in {"create", "rotate"} => ~Exists(rows'[target'[u]]) /\ Exists(dirty'[target'[u]])
                       /\ op'[u] \in {"create", "rotate", "rollback"} => dirty'[target'[u]].status = "ACTIVE"
                       /\ op'[u] = "rollback" => Exists(rows'[target'[u]])
    BY DEF Written
  <2>1. CASE u = t
    BY <1>1, <2>1
  <2>2. CASE u # t
    <3>1. pc[u] = "written"
      BY <1>1, <2>2 DEF Others
    <3>2. \A v \in Versions \ {x} : lock'[v] = lock[v] /\ dirty'[v] = dirty[v]
      BY <1>1, <1>5
    <3>. QED
      BY <1>1, <2>2, <3>1, <3>2, OneRowWritten
  <2>. QED
    BY <2>1, <2>2
<1>11. Informed'
  <2>1. Judged(t)' /\ seen'[t] <= before'[t].issued /\ before'[t].issued <= Issued'
    <3>1. Issued <= Issued' /\ Issued' \in Nat /\ pc[t] # "idle" /\ pc[t] # "located" /\ pc'[t] # "idle"
      BY <1>1, <1>6
    <3>2. /\ op'[t] = op[t] /\ seen'[t] = seen[t] /\ seenRow'[t] = seenRow[t]
          /\ stamp'[t] = stamp[t] /\ before'[t] = before[t] /\ now' = now
      BY <1>1
    <3>. HIDE DEF LInv
    <3>. QED
      BY <3>1, <3>2, MovesOn
  <2>2. Placed(t)' /\ ReadBefore(t)'
    BY <1>1, <2>1 DEF Placed, ReadBefore, Writes
  <2>. QED
    BY <1>1, <1>6, <2>1, <2>2, OthersInformed
<1>. QED
  BY <1>7, <1>9, <1>10, <1>11

\* What a transaction publishes: at most one new version, the next one.
Publishes(t) ==
  /\ \A v \in Versions : Exists(rows'[v]) <=> Exists(rows[v]) \/ (v = target[t] /\ op[t] \in {"create", "rotate"})
  /\ op[t] \in {"create", "rotate"} => target[t] = Issued + 1 /\ Issued' = Issued + 1
  /\ op[t] \notin {"create", "rotate"} => Issued' = Issued

LEMMA CommitPublishes ==
  ASSUME LInv, NEW t \in Requests, Commit(t)
  PROVE  Publishes(t)
<1>. USE NobodyAssumption DEF LInv, IInv, TypeOK
<1>1. pc[t] = "written" /\ \A v \in Versions : rows'[v] = IF lock[v] = t THEN dirty[v] ELSE rows[v]
  BY DEF Commit
<1>2. Issued \in 0 .. MaxVersion
  BY IssuedBound
<1>3. target[t] \in Versions /\ lock[target[t]] = t
  BY <1>1 DEF Written
<1>4. CASE op[t] \in {"create", "rotate"}
  <2>1. ~Exists(rows[target[t]]) /\ Exists(dirty[target[t]]) /\ target[t] = Issued + 1
    BY <1>1, <1>3, <1>4 DEF Written, Dense
  <2>2. \A v \in Versions : Exists(rows'[v]) <=> v <= Issued + 1
    <3>. SUFFICES ASSUME NEW v \in Versions PROVE Exists(rows'[v]) <=> v <= Issued + 1
      OBVIOUS
    <3>1. (Exists(rows[v]) <=> v <= Issued) /\ v \in Nat
      BY DEF Dense, Versions
    <3>2. CASE v = target[t]
      BY <1>1, <1>2, <1>3, <2>1, <3>2
    <3>3. CASE v # target[t]
      <4>1. v <= Issued + 1 <=> v <= Issued
        BY <1>2, <2>1, <3>1, <3>3
      <4>2. Exists(rows[v]) => Exists(dirty[v])
        BY DEF Sealed
      <4>3. ~Exists(rows[v]) => ~Exists(dirty[v])
        BY <1>2, <2>1, <3>1, <3>3 DEF Dense
      <4>. QED
        BY <1>1, <3>1, <4>1, <4>2, <4>3
    <3>. QED
      BY <3>2, <3>3
  <2>3. Issued + 1 \in 0 .. MaxVersion
    BY <1>2, <1>3, <2>1, BoundsAssumption DEF Versions
  <2>4. Issued' = Issued + 1
    BY <2>2, <2>3, CountIs DEF Issued
  <2>5. \A v \in Versions : Exists(rows'[v]) <=> Exists(rows[v]) \/ v = target[t]
    <3>1. \A v \in Versions : (Exists(rows[v]) <=> v <= Issued) /\ v \in Nat
      BY DEF Dense, Versions
    <3>. QED
      BY <1>2, <2>1, <2>2, <3>1
  <2>. QED
    BY <1>4, <2>1, <2>4, <2>5 DEF Publishes
<1>5. CASE op[t] \notin {"create", "rotate"}
  <2>1. \A v \in Versions : lock[v] = t => (Exists(dirty[v]) <=> Exists(rows[v]))
    BY <1>5 DEF Sealed
  <2>2. \A v \in Versions : Exists(rows'[v]) <=> Exists(rows[v])
    BY <1>1, <2>1
  <2>3. Issued' = Issued
    <3>1. {v \in Versions : Exists(rows'[v])} = {v \in Versions : Exists(rows[v])}
      BY <2>2
    <3>. QED
      BY <3>1 DEF Issued, IssuedIn
  <2>. QED
    BY <1>5, <2>2, <2>3 DEF Publishes
<1>. QED
  BY <1>4, <1>5

LEMMA CommitKeeps ==
  ASSUME LInv, IInv', NEW t \in Requests, Commit(t)
  PROVE  LInv'
<1>. USE NobodyAssumption DEF LInv, IInv, TypeOK
<1>1. /\ UNCHANGED <<dirty, now>> /\ pc[t] = "written" /\ pc'[t] = "idle" /\ Others(t)
      /\ \A v \in Versions : rows'[v] = IF lock[v] = t THEN dirty[v] ELSE rows[v]
      /\ \A v \in Versions : lock'[v] = IF lock[v] = t THEN Nobody ELSE lock[v]
  BY DEF Commit, Finish, Others
<1>2. Publishes(t) /\ Issued \in Nat /\ target[t] \in Versions /\ lock[target[t]] = t
  BY <1>1, CommitPublishes, IssuedIsNat DEF Written
<1>3. Issued <= Issued' /\ Issued' \in Nat
  BY <1>2 DEF Publishes
<1>4. Dense'
  <2>. SUFFICES ASSUME NEW v \in Versions
                PROVE  /\ Exists(rows'[v]) <=> v <= Issued'
                       /\ ~Exists(rows'[v]) /\ Exists(dirty[v]) => v = Issued' + 1
    BY <1>1 DEF Dense
  <2>1. /\ v \in Nat /\ (Exists(rows[v]) <=> v <= Issued)
        /\ ~Exists(rows[v]) /\ Exists(dirty[v]) => v = Issued + 1
    BY DEF Dense, Versions
  <2>2. CASE op[t] \in {"create", "rotate"}
    BY <1>2, <2>1, <2>2 DEF Publishes
  <2>3. CASE op[t] \notin {"create", "rotate"}
    BY <1>2, <2>1, <2>3 DEF Publishes
  <2>. QED
    BY <2>2, <2>3
<1>5. Written'
  <2>. SUFFICES ASSUME NEW u \in Requests, pc'[u] = "written"
                PROVE  /\ lock'[target'[u]] = u
                       /\ op'[u] \in {"create", "rotate"} => ~Exists(rows'[target'[u]]) /\ Exists(dirty'[target'[u]])
                       /\ op'[u] \in {"create", "rotate", "rollback"} => dirty'[target'[u]].status = "ACTIVE"
                       /\ op'[u] = "rollback" => Exists(rows'[target'[u]])
    BY DEF Written
  <2>1. u # t /\ pc[u] = "written" /\ op'[u] = op[u] /\ target'[u] = target[u]
    BY <1>1 DEF Others
  <2>2. lock[target[u]] = u
    BY <2>1 DEF Written
  <2>3. lock'[target[u]] = u /\ rows'[target[u]] = rows[target[u]]
    BY <1>1, <2>1, <2>2
  <2>. QED
    BY <1>1, <2>1, <2>3 DEF Written
<1>6. Changes'
  <2>. SUFFICES ASSUME NEW v \in Versions, lock'[v] # Nobody
                PROVE  Change(v, lock[v])'
    BY <1>1 DEF Changes
  <2>1. lock[v] # t /\ lock'[v] = lock[v] /\ rows'[v] = rows[v] /\ lock[v] \in Requests \ {t}
    BY <1>1
  <2>2. Change(v, lock[v])
    BY <2>1 DEF Changes
  <2>. QED
    BY <1>1, <2>1, <2>2 DEF Change, Others
<1>7. Informed'
  BY <1>1, <1>3, Forgotten, OthersInformed
<1>. QED
  BY <1>4, <1>5, <1>6, <1>7

LEMMA InitKnows == Init => LInv
<1>. SUFFICES ASSUME Init PROVE LInv
  OBVIOUS
<1>1. IInv
  BY IInvInit
<1>2. /\ \A v \in Versions : ~Exists(rows[v]) /\ ~Exists(dirty[v]) /\ lock[v] = Nobody /\ ~(v <= 0)
      /\ \A t \in Requests : pc[t] = "idle"
  BY BoundsAssumption DEF Init, Exists, NoRow, Versions
<1>3. Issued = 0
  BY <1>2, CountIs, BoundsAssumption DEF Issued
<1>4. Dense /\ Written /\ Changes
  BY <1>2, <1>3 DEF Dense, Written, Changes
<1>5. Informed
  BY <1>2 DEF Informed, Placed, ReadBefore, Judged
<1>. QED
  BY <1>1, <1>4, <1>5 DEF LInv

\* The clock moves, or nothing does.
LEMMA TimeKeeps ==
  ASSUME LInv, IInv', now' \in {now, now + 1}, UNCHANGED <<database, request, before>>
  PROVE  LInv'
<1>1. Issued' = Issued /\ Issued \in Nat /\ now \in Nat
  BY SameCount, IssuedIsNat, BoundsAssumption DEF database, LInv, IInv, TypeOK
<1>2. Dense' /\ Written' /\ Changes'
  BY <1>1 DEF LInv, Dense, Written, Changes, Change, database, request
<1>3. now <= now' /\ now' \in Nat /\ TypeOK'
  BY <1>1 DEF IInv
<1>4. ASSUME NEW u \in Requests
      PROVE  /\ pc'[u] = pc[u] /\ op'[u] = op[u] /\ target'[u] = target[u] /\ seen'[u] = seen[u]
             /\ seenRow'[u] = seenRow[u] /\ stamp'[u] = stamp[u] /\ before'[u] = before[u]
  BY DEF request
<1>5. Informed'
  BY <1>1, <1>3, <1>4, StaysInformed DEF Informed
<1>. QED
  BY <1>2, <1>5 DEF LInv

LEMMA StepKeeps == LInv /\ [Next]_vars => LInv'
<1>. SUFFICES ASSUME LInv, [Next]_vars PROVE LInv'
  OBVIOUS
<1>1. IInv'
  BY IInvNext DEF LInv
<1>2. CASE UNCHANGED vars \/ Tick
  <2>1. now' \in {now, now + 1} /\ UNCHANGED <<database, request, before>>
    BY <1>2 DEF vars, Tick, database, request
  <2>. QED
    BY <1>1, <2>1, TimeKeeps
<1>3. ASSUME NEW t \in Requests, Arrive(t) PROVE LInv'
  BY <1>1, <1>3, LocateKeeps DEF Arrive
<1>4. ASSUME NEW t \in Requests, Stamp(t) \/ Authorize(t) PROVE LInv'
  BY <1>1, <1>4, WaysKeep
<1>5. ASSUME NEW t \in Requests, Deny(t) \/ Release(t) \/ Withhold(t) PROVE LInv'
  BY <1>1, <1>5, EndsKeep
<1>6. ASSUME NEW t \in Requests, SupersedeStart(t) \/ TargetStart(t) \/ InsertStart(t) PROVE LInv'
  BY <1>1, <1>6, StartsKeep
<1>7. ASSUME NEW t \in Requests, NEW v \in Versions, SupersedeRow(t, v) PROVE LInv'
  BY <1>1, <1>7, SupersedeKeeps
<1>8. ASSUME NEW t \in Requests, EnterIndex(t) PROVE LInv'
  BY <1>1, <1>8, EnterIndexKeeps
<1>9. ASSUME NEW t \in Requests, TargetRow(t) PROVE LInv'
  BY <1>1, <1>9, TargetRowKeeps
<1>10. ASSUME NEW t \in Requests, Commit(t) PROVE LInv'
  BY <1>1, <1>10, CommitKeeps
<1>11. ASSUME NEW t \in Requests,
              Conflict(t) \/ TargetMissing(t) \/ Refuse(t) \/ Abort(t) \/ DeadlockVictim(t)
       PROVE  LInv'
  <2>1. Rollback(t)
    BY <1>11 DEF Conflict, TargetMissing, Refuse, Abort, DeadlockVictim
  <2>. QED
    BY <1>1, <2>1, RollbackKeeps
<1>. QED
  BY <1>2, <1>3, <1>4, <1>5, <1>6, <1>7, <1>8, <1>9, <1>10, <1>11 DEF Next, Progress

\* The numbering of the versions, what each transaction has written and what
\* each request has read stay consistent, whatever overlaps.
THEOREM LedgerInductive == Spec => []LInv
BY InitKnows, StepKeeps, PTL DEF Spec

-----------------------------------------------------------------------------
(* What follows *)

\* Only a commit changes a committed row.
LEMMA OnlyCommits ==
  ASSUME [Next]_vars, ~UNCHANGED rows
  PROVE  \E t \in Requests : Commit(t)
BY DEF Next, Arrive, Progress, vars, Tick, Locate, Stamp, Authorize, Deny, Release, Withhold,
       SupersedeStart, SupersedeRow, InsertStart, EnterIndex, Conflict, TargetStart, TargetRow,
       TargetMissing, Refuse, Abort, DeadlockVictim, Rollback, database

\* What a commit does to the rows, by the operation it is for.
LEMMA CommittedRows ==
  ASSUME LInv, NEW t \in Requests, Commit(t)
  PROVE  /\ op[t] \in Writes /\ target[t] \in Versions
         /\ \A v \in Versions : lock[v] # t => rows'[v] = rows[v]
         /\ \A v \in Versions : lock[v] = t => rows'[v] = dirty[v] /\ Change(v, t)
         /\ rows'[target[t]] = dirty[target[t]]
<1>1. pc[t] = "written" /\ \A v \in Versions : rows'[v] = IF lock[v] = t THEN dirty[v] ELSE rows[v]
  BY DEF Commit
<1>2. op[t] \in Writes /\ target[t] \in Versions /\ lock[target[t]] = t
  BY <1>1 DEF LInv, IInv, TypeOK, Informed, Placed, Written
<1>3. \A v \in Versions : lock[v] = t => Change(v, t)
  BY NobodyAssumption DEF LInv, Changes
<1>. QED
  BY <1>1, <1>2, <1>3

\* secrets.Service.Deliver and Reveal: the summary a request judges still tells
\* what was withdrawn when it was read, at the time the request takes as now.
THEOREM NothingBarredIsReleased == Spec => NoBarredPlaintext
<1>1. LInv /\ [Next]_vars => [\A t \in Requests : Release(t) => seen[t] \notin before[t].barred]_vars
  <2>. SUFFICES ASSUME LInv, NEW t \in Requests, Release(t), seen[t] \in before[t].barred
                PROVE  FALSE
    OBVIOUS
  <2>1. pc[t] = "authorized" /\ op[t] \in Reads
        /\ Deliverable(seenRow[t], IF op[t] = "deliver" THEN stamp[t] ELSE now)
    BY DEF Release, Releasable
  <2>2. seenRow[t].expires \in Nat /\ now \in Nat /\ stamp[t] \in Nat
    <3>1. TypeOK /\ \A r \in Row : r.expires \in Nat
      BY Types DEF LInv, IInv, Row
    <3>. QED
      BY <3>1, BoundsAssumption DEF TypeOK
  <2>3. Judged(t)
    BY DEF LInv, Informed
  <2>. QED
    BY <2>1, <2>2, <2>3 DEF Judged, Deliverable, Expired, Reads, Dated
<1>. QED
  BY <1>1, LedgerInductive, PTL DEF Spec, NoBarredPlaintext

\* Service.Rotate and Rollback, in one transaction each: whatever row they take
\* out of use, they put another in its place by the time they commit.
THEOREM NeverAGap == Spec => NoGap
<1>1. LInv /\ [Next]_vars =>
        [\A v \in Versions : rows[v].status = "ACTIVE" /\ ~rows'[v].revoked => ActiveIn(rows') # {}]_vars
  <2>. SUFFICES ASSUME LInv, [Next]_vars, NEW v \in Versions,
                       rows[v].status = "ACTIVE", ~rows'[v].revoked
                PROVE  \E w \in Versions : rows'[w].status = "ACTIVE"
    BY DEF ActiveIn
  <2>1. CASE rows'[v] = rows[v]
    BY <2>1
  <2>2. CASE rows'[v] # rows[v]
    <3>1. PICK t \in Requests : Commit(t)
      BY <2>2, OnlyCommits
    <3>2. /\ op[t] \in Writes /\ target[t] \in Versions /\ rows'[v] = dirty[v] /\ Change(v, t)
          /\ rows'[target[t]] = dirty[target[t]]
      BY <2>2, <3>1, CommittedRows
    <3>3. op[t] \notin {"create", "revoke"}
      BY <3>2 DEF Change, Exists
    <3>4. CASE op[t] = "expire"
      BY <3>2, <3>4 DEF Change
    <3>5. CASE op[t] \in {"rotate", "rollback"}
      <4>1. dirty[target[t]].status = "ACTIVE"
        BY <3>1, <3>5 DEF Commit, LInv, Written
      <4>. QED
        BY <3>2, <4>1
    <3>. QED
      BY <3>2, <3>3, <3>4, <3>5 DEF Writes
  <2>. QED
    BY <2>1, <2>2
<1>. QED
  BY <1>1, LedgerInductive, PTL DEF Spec, NoGap

\* The check of Rotate, "concurrent rotation detected; retry": a rotation that
\* commits built on the newest version there is, so none is overwritten unseen.
THEOREM NoRotationIsLost == Spec => NoLostRotation
<1>1. LInv /\ [Next]_vars =>
        [\A t \in Requests : Commit(t) /\ op[t] = "rotate" => Issued = before[t].issued]_vars
  <2>. SUFFICES ASSUME LInv, NEW t \in Requests, Commit(t), op[t] = "rotate"
                PROVE  Issued = before[t].issued
    OBVIOUS
  <2>1. target[t] = Issued + 1 /\ target[t] = seen[t] + 1 /\ pc[t] = "written"
    BY CommitPublishes DEF Publishes, Commit
  <2>2. Issued \in Nat /\ seen[t] \in Nat /\ before[t].issued \in Nat
    BY IssuedIsNat DEF LInv, IInv, TypeOK
  <2>3. seen[t] <= before[t].issued /\ before[t].issued <= Issued
    BY <2>1 DEF LInv, Informed, ReadBefore
  <2>. QED
    BY <2>1, <2>2, <2>3
<1>. QED
  BY <1>1, LedgerInductive, PTL DEF Spec, NoLostRotation

-----------------------------------------------------------------------------
(* The refinement *)

\* The register's state, of a table of versions.
Known(table)   == {v \in Versions : Exists(table[v])}
Current(table) == IF ActiveIn(table) = {} THEN 0 ELSE CHOOSE v \in Versions : v \in ActiveIn(table)
Gone(table)    == {v \in Versions : table[v].revoked}

LEMMA CurrentIs ==
  ASSUME NEW table, NEW v \in Versions, table[v].status = "ACTIVE",
         \A w \in Versions : table[w].status = "ACTIVE" => w = v
  PROVE  Current(table) = v
BY DEF Current, ActiveIn

\* The same versions are active in two tables with the same statuses.
LEMMA CurrentSame ==
  ASSUME NEW table, NEW other,
         \A v \in Versions : table[v].status = "ACTIVE" <=> other[v].status = "ACTIVE"
  PROVE  Current(other) = Current(table)
<1>1. ActiveIn(other) = ActiveIn(table)
  BY DEF ActiveIn
<1>. QED
  BY <1>1 DEF Current

\* A creation or a rotation is the register's Issue.
LEMMA CommitIssues ==
  ASSUME LInv, IInv', NEW t \in Requests, Commit(t), op[t] \in {"create", "rotate"}
  PROVE  /\ target[t] \notin Known(rows) /\ \A w \in Known(rows) : w < target[t]
         /\ target[t] = 1 \/ target[t] - 1 \in Known(rows)
         /\ Known(rows') = Known(rows) \cup {target[t]}
         /\ Current(rows') = target[t] /\ Gone(rows') = Gone(rows)
<1>. DEFINE x == target[t]
<1>1. x \in Versions /\ x = Issued + 1
      /\ \A v \in Versions : Exists(rows'[v]) <=> Exists(rows[v]) \/ v = x
  BY CommitPublishes, CommittedRows DEF Publishes
<1>2. Issued \in Nat /\ \A v \in Versions : Exists(rows[v]) <=> v <= Issued
  BY IssuedIsNat DEF LInv, Dense
<1>3. x \notin Known(rows) /\ \A w \in Known(rows) : w < x
  BY <1>1, <1>2 DEF Known, Versions
<1>4. x = 1 \/ x - 1 \in Known(rows)
  BY <1>1, <1>2, BoundsAssumption DEF Known, Versions
<1>5. Known(rows') = Known(rows) \cup {x}
  BY <1>1 DEF Known
<1>6. Current(rows') = x
  <2>1. dirty[x].status = "ACTIVE" /\ rows'[x] = dirty[x]
    BY CommittedRows DEF Commit, LInv, Written
  <2>2. \A w \in Versions : rows'[w].status = "ACTIVE" => w = x
    BY <1>1, <2>1 DEF IInv, Exclusive, Claims
  <2>. QED
    BY <1>1, <2>1, <2>2, CurrentIs
<1>7. \A v \in Versions : rows'[v].revoked <=> rows[v].revoked
  BY CommittedRows DEF Change
<1>. QED
  BY <1>3, <1>4, <1>5, <1>6, <1>7 DEF Gone

\* A rollback is its Restore.
LEMMA CommitRestores ==
  ASSUME LInv, IInv', NEW t \in Requests, Commit(t), op[t] = "rollback"
  PROVE  /\ target[t] \in Known(rows) \ Gone(rows)
         /\ Current(rows') = target[t]
         /\ Known(rows') = Known(rows) /\ Gone(rows') = Gone(rows)
<1>. DEFINE x == target[t]
<1>1. /\ x \in Versions /\ rows'[x] = dirty[x] /\ dirty[x].status = "ACTIVE" /\ Exists(rows[x])
  BY CommittedRows DEF Commit, LInv, Written
<1>2. ~rows[x].revoked
  BY <1>1 DEF LInv, IInv, Marked, NotUndone
<1>3. Current(rows') = x
  <2>1. \A w \in Versions : rows'[w].status = "ACTIVE" => w = x
    BY <1>1 DEF IInv, Exclusive, Claims
  <2>. QED
    BY <1>1, <2>1, CurrentIs
<1>4. \A v \in Versions : Exists(rows'[v]) <=> Exists(rows[v])
  BY CommitPublishes DEF Publishes
<1>5. \A v \in Versions : rows'[v].revoked <=> rows[v].revoked
  BY CommittedRows DEF Change
<1>. QED
  BY <1>1, <1>2, <1>3, <1>4, <1>5 DEF Known, Gone

\* A revocation is its Withdraw.
LEMMA CommitWithdraws ==
  ASSUME LInv, IInv', NEW t \in Requests, Commit(t), op[t] = "revoke"
  PROVE  /\ target[t] \in Known(rows) \ Gone(rows)
         /\ Gone(rows') = Gone(rows) \cup {target[t]}
         /\ Current(rows') = IF Current(rows) = target[t] THEN 0 ELSE Current(rows)
         /\ Known(rows') = Known(rows)
<1>. DEFINE x == target[t]
<1>1. /\ x \in Versions /\ lock[x] = t /\ rows'[x] = dirty[x]
      /\ \A v \in Versions \ {x} : rows'[v] = rows[v]
  BY CommittedRows DEF Change, Commit, LInv, Written
<1>2. dirty[x].revoked /\ ~rows[x].revoked /\ Exists(rows[x])
  BY <1>1, CommittedRows DEF Change
<1>3. Gone(rows') = Gone(rows) \cup {x}
  BY <1>1, <1>2 DEF Gone
<1>4. rows'[x].status = "REVOKED"
  BY <1>1, <1>2 DEF LInv, IInv, Marked
<1>5. Current(rows') = IF Current(rows) = x THEN 0 ELSE Current(rows)
  <2>1. \A v, w \in Versions : rows[v].status = "ACTIVE" /\ rows[w].status = "ACTIVE" => v = w
    BY DEF LInv, IInv, Exclusive, Claims
  <2>2. CASE rows[x].status = "ACTIVE"
    <3>1. Current(rows) = x
      BY <1>1, <2>1, <2>2, CurrentIs
    <3>2. ActiveIn(rows') = {}
      BY <1>1, <1>4, <2>1, <2>2 DEF ActiveIn
    <3>. QED
      BY <3>1, <3>2 DEF Current
  <2>3. CASE rows[x].status # "ACTIVE"
    <3>1. \A v \in Versions : rows[v].status = "ACTIVE" <=> rows'[v].status = "ACTIVE"
      BY <1>1, <1>4, <2>3
    <3>2. Current(rows') = Current(rows)
      BY <3>1, CurrentSame
    <3>3. Current(rows) # x
      BY <1>1, <2>3 DEF Current, ActiveIn, Versions
    <3>. QED
      BY <3>2, <3>3
  <2>. QED
    BY <2>2, <2>3
<1>6. \A v \in Versions : Exists(rows'[v]) <=> Exists(rows[v])
  BY CommitPublishes DEF Publishes
<1>. QED
  BY <1>1, <1>2, <1>3, <1>5, <1>6 DEF Known, Gone

\* An expiry leaves the register as it is.
LEMMA CommitExpires ==
  ASSUME LInv, NEW t \in Requests, Commit(t), op[t] = "expire"
  PROVE  Known(rows') = Known(rows) /\ Current(rows') = Current(rows) /\ Gone(rows') = Gone(rows)
<1>1. \A v \in Versions : /\ rows'[v].status = rows[v].status
                          /\ rows'[v].revoked <=> rows[v].revoked
  BY CommittedRows DEF Change
<1>2. Current(rows') = Current(rows)
  BY <1>1, CurrentSame
<1>. QED
  BY <1>1, <1>2 DEF Known, Gone, Exists

\* The whole of secrets.Service over the store is the register: every commit is
\* one of its operations or none, and nothing else changes what it shows.
THEOREM SecretsAreARegister == Spec => ImplementsRegister
<1>1. Init => Register!Init
  <2>. SUFFICES ASSUME Init PROVE Register!Init
    OBVIOUS
  <2>1. \A v \in Versions : ~Exists(rows[v]) /\ rows[v].status # "ACTIVE" /\ ~rows[v].revoked
    BY DEF Init, NoRow, Exists
  <2>. QED
    BY <2>1 DEF Register!Init, ActiveIn
<1>2. LInv /\ LInv' /\ [Next]_vars => [Register!Next]_Register!registerVars
  <2>. SUFFICES ASSUME LInv, LInv', [Next]_vars
                PROVE  Register!Next \/ UNCHANGED Register!registerVars
    OBVIOUS
  <2>. USE DEF Register!registerVars
  <2>1. CASE UNCHANGED rows
    BY <2>1 DEF ActiveIn, Exists
  <2>2. ASSUME NEW t \in Requests, Commit(t) PROVE Register!Next \/ UNCHANGED Register!registerVars
    <3>1. PICK x \in Register!Versions : x = target[t] /\ op[t] \in Writes
      BY <2>2, CommittedRows DEF Versions, Register!Versions
    <3>2. CASE op[t] \in {"create", "rotate"}
      <4>1. Register!Issue(x)
        BY <2>2, <3>2, <3>1, CommitIssues DEF Register!Issue, LInv, Known, Current, Gone
      <4>. QED
        BY <4>1 DEF Register!Next
    <3>3. CASE op[t] = "rollback"
      <4>1. Register!Restore(x)
        BY <2>2, <3>3, <3>1, CommitRestores DEF Register!Restore, LInv, Known, Current, Gone
      <4>. QED
        BY <4>1 DEF Register!Next
    <3>4. CASE op[t] = "revoke"
      <4>1. /\ x \in Known(rows) \ Gone(rows)
            /\ Gone(rows') = Gone(rows) \cup {x}
            /\ Current(rows') = IF Current(rows) = x THEN 0 ELSE Current(rows)
            /\ Known(rows') = Known(rows)
        BY <2>2, <3>4, <3>1, CommitWithdraws DEF LInv
      <4>2. Register!Withdraw(x)
        BY <4>1 DEF Register!Withdraw, Known, Current, Gone
      <4>. QED
        BY <4>2 DEF Register!Next
    <3>5. CASE op[t] = "expire"
      BY <2>2, <3>5, CommitExpires DEF Known, Current, Gone
    <3>. QED
      BY <3>1, <3>2, <3>3, <3>4, <3>5 DEF Writes
  <2>. QED
    BY <2>1, <2>2, OnlyCommits
<1>. QED
  BY <1>1, <1>2, LedgerInductive, PTL DEF Spec, ImplementsRegister, Register!Spec
=============================================================================
