------------------------ MODULE AccessControlProofs ------------------------
(***************************************************************************)
(* Theorems of AccessControl and of AccessView, for every organization:    *)
(* any members, roles, projects, environments, requests, grant bodies and  *)
(* bounds.                                                                 *)
(***************************************************************************)
EXTENDS AccessControl, AccessView, TLAPS, SequenceTheorems, WellFoundedInduction

-----------------------------------------------------------------------------
(* The inductive invariant *)

\* A request about to write a grant passed the gate: its user administers the
\* organization or was delegated the project, by a grant that is still on
\* record although it may be over by now.
GatePassed ==
  \A r \in Requests :
    stage[r] = "allowed" /\ task[r].op = "grant" =>
      \/ Administers(who[r])
      \/ \E j \in DOMAIN grants : Delegates(grants[j], who[r], task[r].project)

\* A removal in progress knows whom it removes and counts existing grants.
MarksExist ==
  /\ \A r \in Requests : stage[r] = "removing" => task[r].op = "remove" /\ mark[r] <= Len(grants)
  /\ \A u \in left : cut[u] <= Len(grants)

\* A grant's subject type is the one its subject has.
WellKinded == \A i \in DOMAIN grants : grants[i].type = TypeOf(grants[i].subject)

IInv == TypeOK /\ GatePassed /\ MarksExist /\ WellKinded /\ Provenance /\ RemovalTakesGrants

-----------------------------------------------------------------------------
(* Lemmas about the policy engine *)

\* A capability that can release plaintext never comes from a role.
LEMMA RolesHoldNoSecrets ==
  ASSUME NEW p, NEW c \in SecretPlane
  PROVE  ~ByRole(p, c)
BY DEF ByRole

\* A grant that covers a whole project names no environment of it.
LEMMA WholeProject ==
  ASSUME NEW g \in Grant, NEW project \in Projects, grantCovers(g, Place(project, Nil, Nil, Nil))
  PROVE  g.project = project /\ g.environment = Nil /\ g.secret = Nil
<1>1. g.project \in Projects
  BY DEF Grant
<1>2. /\ LevelCovered(g.project, project)
      /\ LevelCovered(g.environment, Nil)
      /\ LevelCovered(g.secret, Nil)
  BY DEF grantCovers, Place
<1> QED
  BY <1>1, <1>2, NilAssumption DEF LevelCovered

\* Whoever passes the gate of handleGrantAccess administers the organization
\* or was delegated the project.
LEMMA GateGives ==
  ASSUME TypeOK, NEW u \in Users, NEW t \in Task, t.op = "grant", allow(u, t)
  PROVE  \/ Administers(u)
         \/ \E j \in DOMAIN grants : Delegates(grants[j], u, t.project)
<1> DEFINE P == Person(u)
           R == Place(t.project, Nil, Nil, Nil)
<1>1. t.project \in Projects
  BY DEF Task, GrantTask, RevokeTask, RemoveTask
<1>2. ByRole(P, "MANAGE_ACCESS") \/ ByGrant(P, "MANAGE_ACCESS", R, GrantRows, now)
  BY DEF allow, Authorize, CapabilityFor, TargetOf
<1>3. CASE ByRole(P, "MANAGE_ACCESS")
  <2>1. "MANAGE_ACCESS" \in CapabilitiesForRole(RoleOf[u])
    BY <1>3 DEF ByRole, Person
  <2>2. RoleOf[u] \in {"OWNER", "ADMIN"}
    BY <2>1, TreeAssumption DEF CapabilitiesForRole, Roles
  <2> QED
    BY <2>2 DEF Administers
<1>4. CASE ByGrant(P, "MANAGE_ACCESS", R, GrantRows, now)
  <2>1. PICK g \in HeldBy(P, GrantRows) : "MANAGE_ACCESS" \in g.capabilities /\ grantCovers(g, R)
    BY <1>4 DEF ByGrant
  <2>2. PICK j \in DOMAIN grants : g = grants[j]
    BY <2>1 DEF HeldBy, GrantRows
  <2>3. g.type = "USER" /\ g.subject = u
    BY <2>1 DEF HeldBy, Person
  <2>4. g \in Grant
    BY <2>2 DEF TypeOK
  <2>5. g.project = t.project /\ g.environment = Nil /\ g.secret = Nil
    BY <1>1, <2>1, <2>4, WholeProject
  <2> QED
    BY <2>1, <2>2, <2>3, <2>5 DEF Delegates
<1> QED
  BY <1>2, <1>3, <1>4
-----------------------------------------------------------------------------
(* What a step can do to the table of grants *)

\* Rows are appended and ended, never rewritten, reordered or deleted.
Extends ==
  /\ Len(grants) <= Len(grants')
  /\ \A i \in 1 .. Len(grants) : grants'[i] = grants[i] \/ grants'[i] = Ended(grants[i])

LEMMA EndedKeeps ==
  ASSUME NEW g \in Grant
  PROVE  /\ Ended(g) \in Grant
         /\ Ended(g).type = g.type /\ Ended(g).subject = g.subject
         /\ Ended(g).project = g.project /\ Ended(g).environment = g.environment
         /\ Ended(g).secret = g.secret /\ Ended(g).capabilities = g.capabilities
         /\ Ended(g).by = g.by /\ Ended(g).revoked
BY DEF Ended, Grant

LEMMA NewGrantTyped ==
  ASSUME TypeOK, NEW u \in Users, NEW t \in Task, t.op = "grant"
  PROVE  /\ NewGrant(u, t) \in Grant
         /\ NewGrant(u, t).by = u /\ NewGrant(u, t).project = t.project
         /\ NewGrant(u, t).type = TypeOf(NewGrant(u, t).subject)
<1>1. t.project \in Projects /\ t.offer \in Offers
  BY DEF Task, GrantTask, RevokeTask, RemoveTask
<1>2. t.offer \in Offer
  BY <1>1, BoundsAssumption
<1>3. t.offer.subject \in Subjects /\ TypeOf(t.offer.subject) \in {"USER", "MACHINE"}
  BY <1>2 DEF Offer, TypeOf
<1> QED
  BY <1>1, <1>2, <1>3 DEF NewGrant, Grant, Offer

LEMMA GrantsAfterAppend ==
  ASSUME TypeOK, NEW r \in Requests, WriteGrant(r)
  PROVE  /\ grants' \in Seq(Grant) /\ Len(grants') <= MaxGrants
         /\ Extends
         /\ Len(grants') = Len(grants) + 1
         /\ grants'[Len(grants')] = NewGrant(who[r], task[r])
<1>1. who[r] \in Users /\ task[r] \in Task /\ task[r].op = "grant"
  BY DEF TypeOK, WriteGrant
<1>2. NewGrant(who[r], task[r]) \in Grant
  BY <1>1, NewGrantTyped
<1>3. grants \in Seq(Grant) /\ Len(grants) \in Nat
  BY DEF TypeOK
<1>4. grants' = Append(grants, NewGrant(who[r], task[r])) /\ Len(grants) < MaxGrants
  BY DEF WriteGrant
<1>5. /\ grants' \in Seq(Grant) /\ Len(grants') = Len(grants) + 1
      /\ \A i \in 1 .. Len(grants) : grants'[i] = grants[i]
      /\ grants'[Len(grants) + 1] = NewGrant(who[r], task[r])
  BY <1>2, <1>3, <1>4, AppendProperties
<1> QED
  BY <1>3, <1>4, <1>5, BoundsAssumption DEF Extends

LEMMA GrantsAfterRevoke ==
  ASSUME TypeOK, NEW r \in Requests, WriteRevoke(r)
  PROVE  grants' \in Seq(Grant) /\ Len(grants') = Len(grants) /\ Extends
<1> DEFINE i == task[r].id
<1>1. grants \in Seq(Grant) /\ Len(grants) \in Nat /\ DOMAIN grants = 1 .. Len(grants)
  BY DEF TypeOK
<1>2. i \in 1 .. Len(grants) /\ grants' = [grants EXCEPT ![i] = Ended(grants[i])]
  BY <1>1 DEF WriteRevoke
<1>3. grants[i] \in Grant /\ Ended(grants[i]) \in Grant
  BY <1>1, <1>2, EndedKeeps
<1>4. /\ grants' \in Seq(Grant) /\ Len(grants') = Len(grants)
      /\ \A j \in 1 .. Len(grants) : grants'[j] = IF j = i THEN Ended(grants[i]) ELSE grants[j]
  BY <1>1, <1>2, <1>3, ExceptSeq
<1> QED
  BY <1>1, <1>4 DEF Extends

LEMMA GrantsAfterRemoval ==
  ASSUME TypeOK, NEW r \in Requests, CommitRemoval(r)
  PROVE  /\ grants' \in Seq(Grant) /\ Len(grants') = Len(grants) /\ Extends
         /\ \A i \in 1 .. Len(grants) :
              i <= mark[r] /\ EndsGrant(r, grants[i]) => grants'[i] = Ended(grants[i])
<1> DEFINE G(i) == IF i <= mark[r] /\ EndsGrant(r, grants[i]) THEN Ended(grants[i]) ELSE grants[i]
<1>1. grants \in Seq(Grant) /\ Len(grants) \in Nat /\ DOMAIN grants = 1 .. Len(grants)
  BY DEF TypeOK
<1>2. grants' = [i \in 1 .. Len(grants) |-> G(i)]
  BY <1>1 DEF CommitRemoval
<1>3. \A i \in 1 .. Len(grants) : G(i) \in Grant
  BY <1>1, EndedKeeps
<1>4. grants' \in [1 .. Len(grants) -> Grant]
  BY <1>2, <1>3
<1>5. grants' \in Seq(Grant) /\ Len(grants') = Len(grants)
  BY <1>1, <1>4, SeqDef
<1> QED
  BY <1>1, <1>2, <1>5 DEF Extends

LEMMA GrantsEvolve ==
  ASSUME TypeOK, Next
  PROVE  grants' \in Seq(Grant) /\ Len(grants') <= MaxGrants /\ Extends
<1>1. ASSUME UNCHANGED grants
      PROVE  grants' \in Seq(Grant) /\ Len(grants') <= MaxGrants /\ Extends
  BY <1>1 DEF TypeOK, Extends
<1>2. ASSUME NEW r \in Requests, NEW u \in Users, NEW t \in Task, Authenticate(r, u, t)
      PROVE  UNCHANGED grants
  BY <1>2 DEF Authenticate
<1>3. ASSUME NEW r \in Requests, Gate(r) \/ SweepGrants(r) \/ Refuse(r)
      PROVE  UNCHANGED grants
  BY <1>3 DEF Gate, SweepGrants, Refuse
<1>4. CASE Tick
  BY <1>1, <1>4 DEF Tick
<1>5. ASSUME NEW r \in Requests, WriteRevoke(r) \/ CommitRemoval(r)
      PROVE  grants' \in Seq(Grant) /\ Len(grants') <= MaxGrants /\ Extends
  BY <1>5, GrantsAfterRevoke, GrantsAfterRemoval DEF TypeOK
<1> QED
  BY <1>1, <1>2, <1>3, <1>4, <1>5, GrantsAfterAppend DEF Next
-----------------------------------------------------------------------------
(* Every conjunct is preserved *)

LEMMA InitIInv == Init => IInv
<1> SUFFICES ASSUME Init PROVE IInv
  OBVIOUS
<1>1. TypeOK
  BY BoundsAssumption, EmptySeq DEF Init, TypeOK
<1>2. DOMAIN grants = {}
  BY DEF Init
<1> QED
  BY <1>1, <1>2 DEF Init, IInv, GatePassed, MarksExist, WellKinded, Provenance, RemovalTakesGrants

LEMMA StepType == IInv /\ Next => TypeOK'
<1> SUFFICES ASSUME IInv, Next PROVE TypeOK'
  OBVIOUS
<1> USE DEF IInv
<1>1. grants' \in Seq(Grant) /\ Len(grants') <= MaxGrants
  BY GrantsEvolve
<1>2. ASSUME NEW r \in Requests, NEW u \in Users, NEW t \in Task, Authenticate(r, u, t)
      PROVE  TypeOK'
  BY <1>1, <1>2 DEF Authenticate, TypeOK
<1>3. ASSUME NEW r \in Requests, Gate(r)
      PROVE  TypeOK'
  BY <1>1, <1>3 DEF Gate, TypeOK
<1>4. ASSUME NEW r \in Requests, Done(r), UNCHANGED <<left, now, cut>>
      PROVE  TypeOK'
  BY <1>1, <1>4, BoundsAssumption DEF Done, TypeOK
<1>5. ASSUME NEW r \in Requests, SweepGrants(r)
      PROVE  TypeOK'
  <2>1. Len(grants) \in 0 .. MaxGrants
    BY BoundsAssumption DEF TypeOK
  <2> QED
    BY <1>1, <1>5, <2>1 DEF SweepGrants, TypeOK
<1>6. ASSUME NEW r \in Requests, CommitRemoval(r)
      PROVE  TypeOK'
  <2>1. task[r] \in Task /\ task[r].op = "remove"
    BY <1>6 DEF CommitRemoval, TypeOK, MarksExist
  <2>2. task[r].user \in Users
    BY <2>1 DEF Task, GrantTask, RevokeTask, RemoveTask
  <2> QED
    BY <1>1, <1>6, <2>2, BoundsAssumption DEF CommitRemoval, Done, TypeOK
<1>7. CASE Tick
  BY <1>1, <1>7, BoundsAssumption DEF Tick, requests, TypeOK
<1> QED
  BY <1>2, <1>3, <1>4, <1>5, <1>6, <1>7 DEF Next, WriteGrant, WriteRevoke, Refuse

LEMMA Delegated ==
  ASSUME TypeOK, Extends, NEW i \in 1 .. Len(grants), NEW u, NEW p, Delegates(grants[i], u, p)
  PROVE  Delegates(grants'[i], u, p)
<1>1. grants[i] \in Grant
  BY DEF TypeOK
<1> QED
  BY <1>1, EndedKeeps DEF Delegates, Extends

LEMMA StepGatePassed == IInv /\ Next => GatePassed'
<1> SUFFICES ASSUME IInv, Next, NEW r \in Requests, (stage[r] = "allowed" /\ task[r].op = "grant")'
             PROVE  (\/ Administers(who[r])
                     \/ \E j \in DOMAIN grants : Delegates(grants[j], who[r], task[r].project))'
  BY DEF GatePassed
<1> USE DEF IInv
<1>1. /\ DOMAIN grants = 1 .. Len(grants) /\ DOMAIN grants' = 1 .. Len(grants')
      /\ Len(grants) \in Nat /\ Len(grants') \in Nat /\ Extends
  BY GrantsEvolve DEF TypeOK
<1>2. ASSUME stage[r] = "allowed", UNCHANGED <<who[r], task[r]>>
      PROVE  (\/ Administers(who[r])
              \/ \E j \in DOMAIN grants : Delegates(grants[j], who[r], task[r].project))'
  <2>1. \/ Administers(who[r])
        \/ \E j \in DOMAIN grants : Delegates(grants[j], who[r], task[r].project)
    BY <1>2 DEF GatePassed
  <2>2. CASE Administers(who[r])
    BY <1>2, <2>2 DEF Administers
  <2>3. ASSUME NEW j \in DOMAIN grants, Delegates(grants[j], who[r], task[r].project)
        PROVE  \E k \in DOMAIN grants' : Delegates(grants'[k], who[r]', task[r]'.project)
    <3>1. j \in DOMAIN grants' /\ Delegates(grants'[j], who[r], task[r].project)
      BY <1>1, <2>3, Delegated DEF Extends
    <3> QED
      BY <1>2, <3>1
  <2> QED
    BY <2>1, <2>2, <2>3 DEF Delegates
<1>3. CASE Gate(r)
  <2>1. /\ who[r] \in Users /\ task[r] \in Task /\ allow(who[r], task[r])
        /\ UNCHANGED <<grants, who, task>>
    BY <1>3 DEF Gate, TypeOK
  <2>2. \/ Administers(who[r])
        \/ \E j \in DOMAIN grants : Delegates(grants[j], who[r], task[r].project)
    BY <2>1, GateGives
  <2> QED
    BY <2>1, <2>2 DEF Administers, Delegates
<1>4. ASSUME NEW q \in Requests, Done(q)
      PROVE  stage[r] = "allowed" /\ UNCHANGED <<who[r], task[r]>>
  BY <1>4 DEF Done, TypeOK
<1>5. ASSUME NEW q \in Requests, NEW u \in Users, NEW t \in Task, Authenticate(q, u, t)
      PROVE  stage[r] = "allowed" /\ UNCHANGED <<who[r], task[r]>>
  BY <1>5 DEF Authenticate, TypeOK
<1>6. ASSUME NEW q \in Requests, Gate(q) \/ SweepGrants(q), ~Gate(r)
      PROVE  stage[r] = "allowed" /\ UNCHANGED <<who[r], task[r]>>
  BY <1>6 DEF Gate, SweepGrants, TypeOK
<1>7. CASE Tick
  BY <1>2, <1>7 DEF Tick, requests
<1> QED
  BY <1>2, <1>3, <1>4, <1>5, <1>6, <1>7 DEF Next, WriteGrant, WriteRevoke, CommitRemoval, Refuse

LEMMA StepMarks == IInv /\ Next => MarksExist'
<1> SUFFICES ASSUME IInv, Next PROVE MarksExist'
  OBVIOUS
<1> USE DEF IInv
<1>1. Len(grants) \in Nat /\ Len(grants') \in Nat /\ Len(grants) <= Len(grants')
  BY GrantsEvolve DEF TypeOK, Extends
<1>2. ASSUME NEW r \in Requests, (stage[r] = "removing")'
      PROVE  task[r]'.op = "remove" /\ mark[r]' <= Len(grants')
  <2>1. ASSUME stage[r] = "removing", UNCHANGED <<task[r], mark[r]>>
        PROVE  task[r]'.op = "remove" /\ mark[r]' <= Len(grants')
    BY <1>1, <2>1 DEF MarksExist, TypeOK
  <2>2. CASE SweepGrants(r)
    BY <1>1, <2>2 DEF SweepGrants, TypeOK
  <2>3. ASSUME NEW q \in Requests, Done(q)
        PROVE  stage[r] = "removing" /\ UNCHANGED <<task[r], mark[r]>>
    BY <1>2, <2>3 DEF Done, TypeOK
  <2>4. ASSUME NEW q \in Requests, NEW u \in Users, NEW t \in Task, Authenticate(q, u, t)
        PROVE  stage[r] = "removing" /\ UNCHANGED <<task[r], mark[r]>>
    BY <1>2, <2>4 DEF Authenticate, TypeOK
  <2>5. ASSUME NEW q \in Requests, Gate(q) \/ SweepGrants(q), ~SweepGrants(r)
        PROVE  stage[r] = "removing" /\ UNCHANGED <<task[r], mark[r]>>
    BY <1>2, <2>5 DEF Gate, SweepGrants, TypeOK
  <2>6. CASE Tick
    BY <1>2, <2>1, <2>6 DEF Tick, requests
  <2> QED
    BY <2>1, <2>2, <2>3, <2>4, <2>5, <2>6 DEF Next, WriteGrant, WriteRevoke, CommitRemoval, Refuse
<1>3. ASSUME NEW u \in left'
      PROVE  cut[u]' <= Len(grants')
  <2>1. ASSUME u \in left, UNCHANGED cut[u]
        PROVE  cut[u]' <= Len(grants')
    BY <1>1, <2>1 DEF MarksExist, TypeOK
  <2>2. ASSUME NEW r \in Requests, CommitRemoval(r)
        PROVE  cut[u]' <= Len(grants')
    <3>1. task[r].op = "remove" /\ task[r] \in Task /\ mark[r] <= Len(grants)
      BY <2>2 DEF CommitRemoval, MarksExist, TypeOK
    <3>2. task[r].user \in Users
      BY <3>1 DEF Task, GrantTask, RevokeTask, RemoveTask
    <3>3. mark[r] \in Nat /\ Len(grants) <= Len(grants')
      BY <1>1 DEF TypeOK
    <3>4. CASE u = task[r].user
      <4>1. cut[u]' = mark[r]
        BY <2>2, <3>2, <3>4 DEF CommitRemoval, TypeOK
      <4> QED
        BY <1>1, <3>1, <3>3, <4>1
    <3>5. CASE u # task[r].user
      <4>1. u \in left /\ cut[u]' = cut[u]
        BY <1>3, <2>2, <3>5 DEF CommitRemoval, TypeOK
      <4> QED
        BY <2>1, <4>1
    <3> QED
      BY <3>4, <3>5
  <2>3. ASSUME NEW r \in Requests,
               Gate(r) \/ WriteGrant(r) \/ WriteRevoke(r) \/ SweepGrants(r) \/ Refuse(r)
        PROVE  UNCHANGED <<left, cut>>
    BY <2>3 DEF Gate, WriteGrant, WriteRevoke, SweepGrants, Refuse
  <2>4. ASSUME NEW r \in Requests, NEW v \in Users, NEW t \in Task, Authenticate(r, v, t)
        PROVE  UNCHANGED <<left, cut>>
    BY <2>4 DEF Authenticate
  <2> QED
    BY <1>3, <2>1, <2>2, <2>3, <2>4 DEF Next, Tick
<1> QED
  BY <1>2, <1>3 DEF MarksExist

\* Only WriteGrant adds a row.
LEMMA OldOrNew ==
  ASSUME IInv, Next
  PROVE  \/ Len(grants') = Len(grants)
         \/ /\ Len(grants') = Len(grants) + 1
            /\ \E r \in Requests : WriteGrant(r)
<1> USE DEF IInv
<1>1. ASSUME NEW r \in Requests, Gate(r) \/ SweepGrants(r) \/ Refuse(r)
      PROVE  Len(grants') = Len(grants)
  BY <1>1 DEF Gate, SweepGrants, Refuse
<1>2. ASSUME NEW r \in Requests, NEW u \in Users, NEW t \in Task, Authenticate(r, u, t)
      PROVE  Len(grants') = Len(grants)
  BY <1>2 DEF Authenticate
<1>3. CASE Tick
  BY <1>3 DEF Tick
<1> QED
  BY <1>1, <1>2, <1>3, GrantsAfterAppend, GrantsAfterRevoke, GrantsAfterRemoval DEF Next

LEMMA StepWellKinded == IInv /\ Next => WellKinded'
<1> SUFFICES ASSUME IInv, Next, NEW i \in DOMAIN grants'
             PROVE  grants'[i].type = TypeOf(grants'[i].subject)
  BY DEF WellKinded, TypeOf
<1> USE DEF IInv
<1>1. /\ DOMAIN grants = 1 .. Len(grants) /\ DOMAIN grants' = 1 .. Len(grants')
      /\ Len(grants) \in Nat /\ Len(grants') \in Nat /\ Extends
  BY GrantsEvolve DEF TypeOK
<1>2. CASE i \in DOMAIN grants
  <2>1. grants[i] \in Grant /\ grants[i].type = TypeOf(grants[i].subject)
    BY <1>2 DEF WellKinded, TypeOK
  <2> QED
    BY <1>1, <1>2, <2>1, EndedKeeps DEF Extends
<1>3. CASE i \notin DOMAIN grants
  <2>1. PICK r \in Requests : WriteGrant(r) /\ i = Len(grants')
    <3>1. Len(grants') # Len(grants)
      BY <1>1, <1>3
    <3>2. Len(grants') = Len(grants) + 1 /\ \E r \in Requests : WriteGrant(r)
      BY <3>1, OldOrNew
    <3>3. i = Len(grants')
      BY <1>1, <1>3, <3>2
    <3> QED
      BY <3>2, <3>3
  <2>2. who[r] \in Users /\ task[r] \in Task /\ task[r].op = "grant"
    BY <2>1 DEF WriteGrant, TypeOK
  <2> QED
    BY <2>1, <2>2, GrantsAfterAppend, NewGrantTyped
<1> QED
  BY <1>2, <1>3

LEMMA StepProvenance == IInv /\ Next => Provenance'
<1> SUFFICES ASSUME IInv, Next, NEW i \in DOMAIN grants'
             PROVE  \/ Administers(grants'[i].by)
                    \/ \E j \in 1 .. i - 1 : Delegates(grants'[j], grants'[i].by, grants'[i].project)
  BY DEF Provenance, Administers, Delegates
<1> USE DEF IInv
<1>1. /\ DOMAIN grants = 1 .. Len(grants) /\ DOMAIN grants' = 1 .. Len(grants')
      /\ Len(grants) \in Nat /\ Len(grants') \in Nat /\ Extends
  BY GrantsEvolve DEF TypeOK
<1>2. CASE i \in DOMAIN grants
  <2>1. grants'[i].by = grants[i].by /\ grants'[i].project = grants[i].project
    <3>1. grants[i] \in Grant
      BY <1>2 DEF TypeOK
    <3> QED
      BY <1>1, <1>2, <3>1, EndedKeeps DEF Extends
  <2>2. \/ Administers(grants[i].by)
        \/ \E j \in 1 .. i - 1 : Delegates(grants[j], grants[i].by, grants[i].project)
    BY <1>2 DEF Provenance
  <2>3. ASSUME NEW j \in 1 .. i - 1, Delegates(grants[j], grants[i].by, grants[i].project)
        PROVE  Delegates(grants'[j], grants'[i].by, grants'[i].project)
    <3>1. j \in 1 .. Len(grants)
      BY <1>1, <1>2
    <3>2. Delegates(grants'[j], grants[i].by, grants[i].project)
      BY <1>1, <2>3, <3>1, Delegated
    <3> QED
      BY <2>1, <3>2
  <2> QED
    BY <2>1, <2>2, <2>3
<1>3. CASE i \notin DOMAIN grants
  <2>1. PICK r \in Requests : WriteGrant(r) /\ i = Len(grants')
    <3>1. Len(grants') # Len(grants)
      BY <1>1, <1>3
    <3>2. Len(grants') = Len(grants) + 1 /\ \E r \in Requests : WriteGrant(r)
      BY <3>1, OldOrNew
    <3>3. i = Len(grants')
      BY <1>1, <1>3, <3>2
    <3> QED
      BY <3>2, <3>3
  <2>2. i = Len(grants) + 1 /\ grants'[i] = NewGrant(who[r], task[r])
    BY <2>1, GrantsAfterAppend
  <2>3. who[r] \in Users /\ task[r] \in Task /\ task[r].op = "grant" /\ stage[r] = "allowed"
    BY <2>1 DEF WriteGrant, TypeOK
  <2>4. grants'[i].by = who[r] /\ grants'[i].project = task[r].project
    BY <2>2, <2>3, NewGrantTyped
  <2>5. \/ Administers(who[r])
        \/ \E j \in DOMAIN grants : Delegates(grants[j], who[r], task[r].project)
    BY <2>3 DEF GatePassed
  <2>6. ASSUME NEW j \in DOMAIN grants, Delegates(grants[j], who[r], task[r].project)
        PROVE  j \in 1 .. i - 1 /\ Delegates(grants'[j], who[r], task[r].project)
    BY <1>1, <2>2, <2>6, Delegated
  <2> QED
    BY <2>4, <2>5, <2>6
<1> QED
  BY <1>2, <1>3

LEMMA StepRemoval == IInv /\ Next => RemovalTakesGrants'
<1> SUFFICES ASSUME IInv, Next, NEW u \in left', NEW i \in 1 .. cut'[u], grants'[i].subject = u
             PROVE  grants'[i].revoked
  BY DEF RemovalTakesGrants
<1> USE DEF IInv
<1>1. /\ DOMAIN grants = 1 .. Len(grants) /\ Len(grants) \in Nat /\ Extends
      /\ u \in Users /\ cut'[u] \in Nat
  BY GrantsEvolve, StepType DEF TypeOK
<1>2. ASSUME u \in left, UNCHANGED cut[u]
      PROVE  grants'[i].revoked
  <2>1. i \in 1 .. Len(grants) /\ grants[i] \in Grant
    BY <1>1, <1>2 DEF MarksExist, TypeOK
  <2>2. grants'[i].subject = grants[i].subject /\ (grants[i].revoked => grants'[i].revoked)
    BY <1>1, <2>1, EndedKeeps DEF Extends
  <2> QED
    BY <1>2, <2>2 DEF RemovalTakesGrants
<1>3. ASSUME NEW r \in Requests, CommitRemoval(r)
      PROVE  grants'[i].revoked
  <2>1. task[r] \in Task /\ task[r].op = "remove" /\ mark[r] <= Len(grants)
    BY <1>3 DEF CommitRemoval, MarksExist, TypeOK
  <2>2. task[r].user \in Users
    BY <2>1 DEF Task, GrantTask, RevokeTask, RemoveTask
  <2>3. CASE u # task[r].user
    <3>1. u \in left /\ cut'[u] = cut[u]
      BY <1>3, <2>3 DEF CommitRemoval, TypeOK
    <3> QED
      BY <1>2, <3>1
  <2>4. CASE u = task[r].user
    <3>1. cut'[u] = mark[r] /\ mark[r] \in Nat
      BY <1>3, <2>2, <2>4 DEF CommitRemoval, TypeOK
    <3>2. i \in 1 .. Len(grants) /\ i <= mark[r]
      BY <1>1, <2>1, <3>1
    <3>3. grants[i] \in Grant
      BY <3>2 DEF TypeOK
    <3>4. grants[i].subject = u
      BY <1>1, <3>2, <3>3, EndedKeeps DEF Extends
    <3>5. grants[i].type = "USER"
      BY <1>1, <3>2, <3>4 DEF WellKinded, TypeOf
    <3>6. EndsGrant(r, grants[i])
      BY <2>4, <3>4, <3>5 DEF EndsGrant
    <3> QED
      BY <1>3, <3>2, <3>3, <3>6, GrantsAfterRemoval, EndedKeeps
  <2> QED
    BY <2>3, <2>4
<1>4. ASSUME NEW r \in Requests,
             Gate(r) \/ WriteGrant(r) \/ WriteRevoke(r) \/ SweepGrants(r) \/ Refuse(r)
      PROVE  UNCHANGED <<left, cut>>
  BY <1>4 DEF Gate, WriteGrant, WriteRevoke, SweepGrants, Refuse
<1>5. ASSUME NEW r \in Requests, NEW v \in Users, NEW t \in Task, Authenticate(r, v, t)
      PROVE  UNCHANGED <<left, cut>>
  BY <1>5 DEF Authenticate
<1> QED
  BY <1>2, <1>3, <1>4, <1>5 DEF Next, Tick

-----------------------------------------------------------------------------
(* The theorems *)

LEMMA Stutter == IInv /\ UNCHANGED vars => IInv'
BY DEF vars, requests, IInv, TypeOK, GatePassed, MarksExist, WellKinded, Provenance, RemovalTakesGrants,
       Administers, Delegates, TypeOf

\* The conjunction IInv holds in every reachable state of AccessControl.
THEOREM Inductive == Spec => []IInv
<1>1. IInv /\ [Next]_vars => IInv'
  BY Stutter, StepType, StepGatePassed, StepMarks, StepWellKinded, StepProvenance, StepRemoval DEF IInv
<1> QED
  BY InitIInv, <1>1, PTL DEF Spec

\* However gates, writes, revocations, removals and expiries interleave, every
\* grant on record was made by an administrator or by the holder of an earlier
\* grant of MANAGE_ACCESS over the same whole project.
THEOREM AuthorityHasProvenance == Spec => []Provenance
BY Inductive, PTL DEF IInv

\* What a removal saw of a member's grants is revoked for good.
THEOREM RemovalIsThorough == Spec => []RemovalTakesGrants
BY Inductive, PTL DEF IInv

\* A scoped credential never opens more than its subject could open without
\* it, and nothing outside the environment it names: in every state, for every
\* table of grants.
THEOREM CeilingHolds == Spec => []CeilingOnlyNarrows
<1>1. CeilingOnlyNarrows
  <2> SUFFICES ASSUME NEW s \in Subjects, NEW scope \in Scopes, NEW c \in SecretPlane, NEW x \in Secrets,
                      MayUse(Scoped(s, scope), c, x)
               PROVE  MayUse(Scoped(s, Nil), c, x) /\ EnvironmentOf[x] = scope.environment
    BY DEF CeilingOnlyNarrows
  <2> DEFINE R == Whereabouts(x)
             P == Scoped(s, scope)
             Q == Scoped(s, Nil)
  <2>1. scope # Nil
    <3>1. scope \in Ceiling
      BY TreeAssumption DEF Scopes, Ceiling, SecretPlane, AllCapabilities
    <3> QED
      BY <3>1, NilAssumption
  <2>2. P.scope = scope /\ Q.scope = Nil /\ P.type = Q.type /\ P.id = Q.id
        /\ P.organization = Q.organization /\ P.role = Q.role
    BY DEF Scoped
  <2>3. /\ c \in AllCapabilities /\ Organization # Nil /\ P.id # Nil /\ P.organization = Organization
        /\ checkScope(P, c, R)
        /\ ByRole(P, c) \/ ByGrant(P, c, R, GrantRows, now)
    BY DEF MayUse, Authorize
  <2>4. EnvironmentOf[x] = scope.environment
    BY <2>1, <2>2, <2>3 DEF checkScope, Whereabouts, Place
  <2>5. checkScope(Q, c, R)
    BY <2>2 DEF checkScope
  <2>6. ByGrant(Q, c, R, GrantRows, now)
    BY <2>2, <2>3, RolesHoldNoSecrets DEF ByGrant, HeldBy
  <2> QED
    BY <2>2, <2>3, <2>4, <2>5, <2>6 DEF MayUse, Authorize
<1> QED
  BY <1>1, PTL

-----------------------------------------------------------------------------
(* Chains of delegations *)

\* A set of natural numbers has a first element.
LEMMA Least ==
  ASSUME NEW S, S \subseteq Nat, S # {}
  PROVE  \E m \in S : \A n \in S : m <= n
<1>. DEFINE R == OpToRel(<, Nat)
<1>1. \E m \in S : \A n \in S : ~(<<n, m>> \in R)
  BY NatLessThanWellFounded, WFMin
<1>2. \A m, n \in Nat : <<n, m>> \in R <=> n < m
  BY DEF OpToRel
<1>. HIDE DEF R
<1>3. PICK m \in S : \A n \in S : ~(<<n, m>> \in R)
  BY <1>1
<1>4. ASSUME NEW n \in S PROVE m <= n
  <2>1. m \in Nat /\ n \in Nat /\ ~(<<n, m>> \in R)
    BY <1>3
  <2>. QED
    BY <1>2, <2>1
<1>. QED
  BY <1>4

\* f tells of every grant whether a chain that starts with a role leads to it.
TellsRoots(f) ==
  f = [i \in DOMAIN grants |->
         \/ Administers(grants[i].by)
         \/ \E j \in 1 .. i - 1 : f[j] /\ Delegates(grants[j], grants[i].by, grants[i].project)]

\* Every grant on record is at the end of such a chain: the first that was not
\* would have been made on the authority of an earlier one that is.
LEMMA AllRooted ==
  ASSUME IInv
  PROVE  Rooted = DOMAIN grants
<1>. DEFINE root == CHOOSE f : TellsRoots(f)
<1>1. Rooted = {i \in DOMAIN grants : root[i]}
  BY DEF Rooted, TellsRoots
<1>2. DOMAIN grants = 1 .. Len(grants) /\ Len(grants) \in Nat
  BY DEF IInv, TypeOK
<1>3. TellsRoots([i \in DOMAIN grants |-> TRUE])
  <2>. DEFINE all == [i \in DOMAIN grants |-> TRUE]
  <2>1. ASSUME NEW i \in DOMAIN grants
        PROVE  \/ Administers(grants[i].by)
               \/ \E j \in 1 .. i - 1 : all[j] /\ Delegates(grants[j], grants[i].by, grants[i].project)
    <3>1. \A j \in 1 .. i - 1 : all[j]
      BY <1>2
    <3>. QED
      BY <3>1 DEF IInv, Provenance
  <2>. QED
    BY <2>1 DEF TellsRoots
<1>4. TellsRoots(root)
  BY <1>3
<1>. HIDE DEF root
<1>5. \A i \in DOMAIN grants : root[i] <=>
        \/ Administers(grants[i].by)
        \/ \E j \in 1 .. i - 1 : root[j] /\ Delegates(grants[j], grants[i].by, grants[i].project)
  BY <1>4 DEF TellsRoots
<1>6. \A i \in DOMAIN grants : root[i]
  <2>. DEFINE S == {i \in DOMAIN grants : ~root[i]}
  <2>. SUFFICES ASSUME S # {} PROVE FALSE
    OBVIOUS
  <2>0. S \subseteq Nat
    BY <1>2
  <2>. HIDE DEF S
  <2>1. PICK m \in S : \A n \in S : m <= n
    BY <2>0, Least
  <2>. USE DEF S
  <2>2. \A j \in 1 .. m - 1 : root[j]
    BY <1>2, <2>1
  <2>. QED
    BY <1>5, <2>1, <2>2 DEF IInv, Provenance
<1>. QED
  BY <1>1, <1>6

\* The engine lets a person use a value only by an active grant over its project.
LEMMA UsedByGrant ==
  ASSUME IInv, NEW u \in Users, NEW c \in SecretPlane, NEW x \in Secrets, MayUse(Person(u), c, x)
  PROVE  \E i \in DOMAIN grants : /\ grants[i].subject = u /\ c \in grants[i].capabilities
                                  /\ grants[i].project = ProjectOf[EnvironmentOf[x]]
                                  /\ Active(grants[i], now)
<1>1. ByGrant(Person(u), c, Whereabouts(x), GrantRows, now)
  BY RolesHoldNoSecrets DEF MayUse, Authorize
<1>2. PICK g \in HeldBy(Person(u), GrantRows) :
        Active(g, now) /\ c \in g.capabilities /\ grantCovers(g, Whereabouts(x))
  BY <1>1 DEF ByGrant
<1>3. PICK i \in DOMAIN grants : g = grants[i]
  BY <1>2 DEF HeldBy, GrantRows
<1>4. g.subject = u
  BY <1>2 DEF HeldBy, Person
<1>5. g.project # Nil
  <2>1. g \in Grant
    BY <1>3 DEF IInv, TypeOK
  <2>. QED
    BY <2>1, NilAssumption DEF Grant
<1>6. g.project = ProjectOf[EnvironmentOf[x]]
  BY <1>2, <1>5 DEF grantCovers, LevelCovered, Whereabouts, Place
<1>. QED
  BY <1>2, <1>3, <1>4, <1>6

\* authz.Engine over the table that handleGrantAccess fills: no value is opened
\* for anybody but at the end of a chain of grants that an administrator began.
THEOREM ValuesAreTraced == Spec => []SecretsTraced
<1>1. IInv => SecretsTraced
  BY AllRooted, UsedByGrant DEF SecretsTraced
<1>. QED
  BY <1>1, Inductive, PTL

-----------------------------------------------------------------------------
(* The access page: its grid and the policy engine agree *)

\* What the table holds are grants.
LEMMA RowsAreGrants ==
  ASSUME IInv
  PROVE  \A g \in GrantRows : g \in Grant
BY DEF GrantRows, IInv, TypeOK

\* A question about one value reaches the grant exactly at the levels the grid
\* looks at.
LEMMA CoversOneValue ==
  ASSUME IInv, NEW x \in Secrets, NEW g \in GrantRows
  PROVE  grantCovers(g, Whereabouts(x)) <=>
           /\ g.project = ProjectOf[EnvironmentOf[x]]
           /\ Applicable(g, EnvironmentOf[x]) /\ g.secret \in {Nil, x}
<1>1. g \in Grant
  BY RowsAreGrants
<1>2. /\ EnvironmentOf[x] \in Environments /\ ProjectOf[EnvironmentOf[x]] \in Projects
      /\ EnvironmentOf[x] # Nil /\ ProjectOf[EnvironmentOf[x]] # Nil /\ x # Nil
  BY TreeAssumption, NilAssumption
<1>3. g.project # Nil
  BY <1>1, NilAssumption DEF Grant
<1> QED
  BY <1>2, <1>3 DEF grantCovers, LevelCovered, Whereabouts, Place, Applicable

\* A person without a ceiling may use a value if, and only if, an active grant
\* of theirs covers it.
LEMMA AllowedByGrant ==
  ASSUME IInv, NEW s \in Subjects, NEW x \in Secrets, NEW c \in SecretPlane
  PROVE  MayUse(Scoped(s, Nil), c, x) <=>
           \E g \in GrantRows : /\ g.subject = s /\ Active(g, now) /\ c \in g.capabilities
                                /\ grantCovers(g, Whereabouts(x))
<1> DEFINE P == Scoped(s, Nil)
<1>1. /\ P.type = TypeOf(s) /\ P.id = s /\ P.organization = Organization /\ P.scope = Nil
  BY DEF Scoped
<1>2. c \in AllCapabilities /\ Organization # Nil /\ s # Nil
  BY NilAssumption DEF SecretPlane, AllCapabilities
<1>3. checkScope(P, c, Whereabouts(x))
  BY <1>1 DEF checkScope
<1>4. ~ByRole(P, c)
  BY RolesHoldNoSecrets
<1>5. MayUse(P, c, x) <=> ByGrant(P, c, Whereabouts(x), GrantRows, now)
  BY <1>1, <1>2, <1>3, <1>4 DEF MayUse, Authorize
<1>6. \A g \in GrantRows : g.type = TypeOf(g.subject)
  BY DEF GrantRows, IInv, WellKinded
<1> QED
  BY <1>1, <1>5, <1>6 DEF ByGrant, HeldBy

\* The grid reads the same rows.
LEMMA ShownByGrant ==
  ASSUME IInv, NEW s \in Subjects, NEW x \in Secrets, NEW c \in SecretPlane
  PROVE  c \in Reaches(EnvironmentOf[x], s, x) <=>
           \E g \in ListForProject(ProjectOf[EnvironmentOf[x]]) :
              g.subject = s /\ c \in g.capabilities /\ grantCovers(g, Whereabouts(x))
<1> DEFINE e == EnvironmentOf[x]
           Rows == {g \in ListForProject(ProjectOf[e]) : Applicable(g, e) /\ g.subject = s /\ g.secret \in {Nil, x}}
<1>1. c \in Reaches(e, s, x) <=> \E g \in Rows : c \in g.capabilities
  BY DEF Reaches
<1>2. \A g \in ListForProject(ProjectOf[e]) : g \in GrantRows /\ g.project = ProjectOf[e]
  <2> SUFFICES ASSUME NEW g \in ListForProject(ProjectOf[e])
               PROVE  g \in GrantRows /\ g.project = ProjectOf[e]
    OBVIOUS
  <2>1. g \in GrantRows /\ g.project \in {ProjectOf[e], Nil}
    BY DEF ListForProject
  <2>2. g.project # Nil
    BY <2>1, RowsAreGrants, NilAssumption DEF Grant
  <2> QED
    BY <2>1, <2>2
<1> QED
  BY <1>1, <1>2, CoversOneValue

\* However grants are given, revoked and run out: what the core allows, the grid
\* shows and the page lists, and what the grid shows beyond it has lapsed.
THEOREM GridAgrees == Spec => []GridShowsEveryReach
<1>1. IInv => GridShowsEveryReach
  <2> SUFFICES ASSUME IInv, NEW s \in Subjects, NEW x \in Secrets, NEW c \in SecretPlane
               PROVE  LET e       == EnvironmentOf[x]
                          allowed == MayUse(Scoped(s, Nil), c, x)
                          covers  == {g \in ListForProject(ProjectOf[e]) :
                                        g.subject = s /\ c \in g.capabilities /\ grantCovers(g, Whereabouts(x))}
                      IN
                      /\ allowed => c \in Reaches(e, s, x) /\ \E g \in covers : GroupOf(g) \in Groups(ProjectOf[e])
                      /\ c \in Reaches(e, s, x) /\ ~allowed => \A g \in covers : Lapsed(g)
                      /\ c \in Reaches(e, s, x) => covers # {}
    BY DEF GridShowsEveryReach
  <2> DEFINE e       == EnvironmentOf[x]
             allowed == MayUse(Scoped(s, Nil), c, x)
             covers  == {g \in ListForProject(ProjectOf[e]) :
                           g.subject = s /\ c \in g.capabilities /\ grantCovers(g, Whereabouts(x))}
  <2>1. c \in Reaches(e, s, x) <=> covers # {}
    BY ShownByGrant
  <2>2. \A g \in covers : g \in GrantRows /\ ~g.revoked
    BY DEF ListForProject
  <2>3. ASSUME NEW g \in GrantRows, g.subject = s, Active(g, now), c \in g.capabilities,
               grantCovers(g, Whereabouts(x))
        PROVE  g \in covers /\ GroupOf(g) \in Groups(ProjectOf[e])
    <3>1. g.project = ProjectOf[e] /\ Applicable(g, e)
      BY <2>3, CoversOneValue
    <3>2. g \in covers
      BY <2>3, <3>1 DEF ListForProject, Active
    <3>3. e \in Environments
      BY TreeAssumption
    <3> QED
      BY <3>1, <3>2, <3>3 DEF GroupOf, Groups, Applicable
  <2>4. allowed => \E g \in covers : GroupOf(g) \in Groups(ProjectOf[e])
    BY <2>3, AllowedByGrant
  <2>5. ASSUME ~allowed, NEW g \in covers
        PROVE  Lapsed(g)
    <3>1. ~Active(g, now)
      BY <2>2, <2>5, AllowedByGrant
    <3>2. g.expires \in Int /\ now \in Int
      BY <2>2, RowsAreGrants, BoundsAssumption DEF IInv, TypeOK, Grant, Never
    <3> QED
      BY <2>2, <3>1, <3>2 DEF Active, Lapsed
  <2> QED
    BY <2>1, <2>4, <2>5
<1> QED
  BY <1>1, Inductive, PTL
=============================================================================
