-------------------------- MODULE RuntimeAccessProofs --------------------------
(***************************************************************************)
(* Theorems of RuntimeAccess, for any tokens, sessions, environments,      *)
(* grants and concurrent requests.                                         *)
(***************************************************************************)
EXTENDS RuntimeAccess, TLAPS

-----------------------------------------------------------------------------
(* The inductive invariant *)

\* What a request or a session says of itself is what its credential says.
Derives(row, c) ==
  /\ c \in Tokens => row.subject = Machine /\ row.environment = TokenEnvironment[c]
  /\ c = CLI => row.subject = Person
  /\ c \in Slots => c \in Rows /\ row.subject = session[c].subject
                               /\ row.environment = session[c].environment

CallersDerive == \A r \in Requests : stage[r] # "idle" => Derives(caller[r], caller[r].credential)
SessionsDerive == \A s \in Rows : Derives(session[s], session[s].source)

\* A request whose subject holds the grant held it since it arrived.
HoldersAreFair ==
  \A r \in Requests :
    stage[r] # "idle" /\ <<caller[r].subject, caller[r].environment>> \in granted => r \in fair

\* A revocation under way has found what there was; what it did not find was
\* minted by a request that overlaps it.
SweepFinds ==
  \A x \in Targets : found[x] # Nil =>
    /\ \A s \in Live : session[s].source \in DerivedFrom(x) => s \in found[x] \cup late
    /\ \A r \in Requests : stage[r] # "idle" /\ caller[r].credential \in DerivedFrom(x) => r \in crossing

\* It found rows.
FoundAreRows == \A x \in Targets : found[x] # Nil => found[x] \subseteq Rows

\* A request that outlives what it presented overlaps the revocation.
OutlivesCrossing ==
  \A r \in Requests :
    /\ stage[r] # "idle" /\ caller[r].credential \in Tokens
    /\ token[caller[r].credential] = "revoked" \/ identity = "disabled"
    => r \in crossing

IInv ==
  /\ TypeOK /\ CallersDerive /\ SessionsDerive /\ HoldersAreFair /\ DeliveryIsGranted
  /\ SweepFinds /\ FoundAreRows /\ OutlivesCrossing /\ OnlyRacersSurvive

-----------------------------------------------------------------------------
(* Lemmas *)

LEMMA SessionFields ==
  ASSUME TypeOK, NEW s \in Rows
  PROVE  /\ s \in Slots /\ session[s] \in Session /\ session[s] # Nil
         /\ session[s].source \in Credentials /\ session[s].subject \in Subjects
         /\ session[s].environment \in Environments
BY DEF TypeOK, Rows, Session

LEMMA CallerFields ==
  ASSUME TypeOK, NEW r \in Requests, stage[r] # "idle"
  PROVE  /\ caller[r] \in Caller /\ caller[r].credential \in Credentials
         /\ caller[r].subject \in Subjects /\ caller[r].environment \in Environments
BY DEF TypeOK, Caller

\* A usable credential belongs to somebody.
LEMMA UsableHasSubject ==
  ASSUME TypeOK, NEW c \in Credentials, Usable(c)
  PROVE  /\ SubjectOf(c) \in Subjects
         /\ c \in Slots => c \in Live
BY SessionFields, CredentialAssumption DEF Usable, SubjectOf, Live, Subjects, Credentials

\* The policy engine allows a delivery only on a grant that is live.
LEMMA UseNeedsGrant ==
  ASSUME TypeOK, NEW who \in Caller, MayUse(who)
  PROVE  <<who.subject, who.environment>> \in granted
<1> DEFINE P == PrincipalOf(who)
           R == [project |-> Project, environment |-> who.environment, secret |-> "secret", key |-> "key"]
<1>1. ~ByRole(P, "USE_SECRET")
  BY DEF ByRole, SecretPlane
<1>2. PICK g \in HeldBy(P, GrantRows) : grantCovers(g, R)
  BY <1>1 DEF MayUse, Authorize, ByGrant
<1>3. PICK h \in granted :
        g = [type |-> TypeOf(h[1]), subject |-> h[1], project |-> Project, environment |-> h[2], secret |-> Nil,
             capabilities |-> {"USE_SECRET"}, expires |-> 1, revoked |-> FALSE]
  BY <1>2 DEF HeldBy, GrantRows
<1>4. h \in Subjects \X Environments
  BY DEF TypeOK
<1>5. h[1] = who.subject
  BY <1>2, <1>3 DEF HeldBy, PrincipalOf
<1>6. h[2] # Nil
  BY <1>4, CredentialAssumption
<1>7. h[2] = who.environment
  BY <1>2, <1>3, <1>6 DEF grantCovers, LevelCovered
<1>8. h = <<h[1], h[2]>>
  BY <1>4
<1> QED
  BY <1>5, <1>7, <1>8

-----------------------------------------------------------------------------
(* What a step does to the table of runtime sessions *)

\* A row stays, whatever becomes of its state; and what is dead stays dead.
SameRow(s) ==
  /\ session'[s] \in Session /\ session'[s] # Nil
  /\ session'[s].source = session[s].source /\ session'[s].subject = session[s].subject
  /\ session'[s].environment = session[s].environment
  /\ session'[s].state = "live" => session[s].state = "live"

LEMMA MintedRow ==
  ASSUME TypeOK, NEW r \in Requests, stage[r] # "idle"
  PROVE  /\ Minted(caller[r]) \in Session
         /\ Minted(caller[r]).source = caller[r].credential
         /\ Minted(caller[r]).subject = caller[r].subject
         /\ Minted(caller[r]).environment = caller[r].environment
         /\ Minted(caller[r]).state = "live"
BY CallerFields DEF Minted, Session

Ends(row, new) ==
  /\ new \in Session /\ new # Nil /\ new.state # "live"
  /\ new.source = row.source /\ new.subject = row.subject /\ new.environment = row.environment

LEMMA UpdatedRow ==
  ASSUME NEW row \in Session
  PROVE  /\ Ends(row, [row EXCEPT !.state = "revoked"])
         /\ Ends(row, [row EXCEPT !.state = "expired"])
BY NilAssumption DEF Session, Ends

LEMMA RowsAfterCommit ==
  ASSUME TypeOK, NEW x \in Targets, CommitSweep(x), NEW s \in Rows
  PROVE  /\ SameRow(s)
         /\ s \in found[x] => session'[s].state # "live"
<1>1. session[s] \in Session /\ s \in Slots /\ session[s] # Nil
  BY SessionFields
<1>2. session'[s] = IF s \in found[x] THEN [session[s] EXCEPT !.state = "revoked"] ELSE session[s]
  BY <1>1 DEF CommitSweep
<1>3. CASE s \in found[x]
  BY <1>1, <1>2, <1>3, UpdatedRow DEF SameRow, Ends
<1>4. CASE s \notin found[x]
  BY <1>1, <1>2, <1>4 DEF SameRow
<1> QED
  BY <1>3, <1>4

LEMMA RowsAfterLapse ==
  ASSUME TypeOK, Lapse, NEW s \in Rows
  PROVE  SameRow(s)
<1>1. session[s] \in Session /\ s \in Slots /\ session[s] # Nil
  BY SessionFields
<1>2. CASE UNCHANGED session
  BY <1>1, <1>2 DEF SameRow
<1>3. ASSUME NEW q \in Live, session' = [session EXCEPT ![q].state = "expired"]
      PROVE  SameRow(s)
  <2>1. session'[s] = IF s = q THEN [session[s] EXCEPT !.state = "expired"] ELSE session[s]
    BY <1>1, <1>3 DEF TypeOK
  <2> QED
    BY <1>1, <2>1, UpdatedRow DEF SameRow, Ends
<1> QED
  BY <1>2, <1>3 DEF Lapse

LEMMA RowsAfterExchange ==
  ASSUME TypeOK, NEW r \in Requests, Exchange(r)
  PROVE  \E q \in Slots \ Rows :
           /\ session' = [session EXCEPT ![q] = Minted(caller[r])]
           /\ session'[q] = Minted(caller[r])
           /\ Rows' = Rows \cup {q}
           /\ \A s \in Rows : session'[s] = session[s]
           /\ late' = IF r \in crossing THEN late \cup {q} ELSE late
<1>1. stage[r] # "idle"
  BY DEF Exchange
<1>2. PICK q \in Slots \ Rows :
        /\ session' = [session EXCEPT ![q] = Minted(caller[r])]
        /\ late' = IF r \in crossing THEN late \cup {q} ELSE late
  BY DEF Exchange
<1>3. Minted(caller[r]) # Nil
  BY <1>1, MintedRow, NilAssumption
<1> QED
  BY ZenonT(30), <1>2, <1>3 DEF TypeOK, Rows

\* Every row stays, and only Exchange adds one.
LEMMA RowsStay ==
  ASSUME TypeOK, FoundAreRows, Next
  PROVE  /\ \A s \in Rows : SameRow(s)
         /\ Rows \subseteq Rows'
         /\ (\A r \in Requests : ~Exchange(r)) => Rows' = Rows
<1> DEFINE Goal == /\ \A s \in Rows : SameRow(s)
                   /\ Rows \subseteq Rows'
                   /\ (\A r \in Requests : ~Exchange(r)) => Rows' = Rows
<1>1. CASE UNCHANGED session
  <2>1. Rows' = Rows
    BY <1>1 DEF Rows
  <2>2. \A s \in Rows : SameRow(s)
    BY <1>1, SessionFields DEF SameRow
  <2> QED
    BY <2>1, <2>2
<1>2. ASSUME NEW r \in Requests, Exchange(r) PROVE Goal
  <2>1. Rows \subseteq Rows' /\ \A s \in Rows : session'[s] = session[s]
    BY <1>2, RowsAfterExchange
  <2> QED
    BY <1>2, <2>1, SessionFields DEF SameRow
<1>3. ASSUME NEW x \in Targets, CommitSweep(x) PROVE Goal
  <2>1. \A s \in Rows : SameRow(s)
    BY <1>3, RowsAfterCommit
  <2>2. \A s \in Slots \ Rows : session'[s] = Nil
    <3> SUFFICES ASSUME NEW s \in Slots \ Rows PROVE session'[s] = Nil
      OBVIOUS
    <3>1. session[s] = Nil /\ s \notin found[x]
      BY <1>3 DEF Rows, FoundAreRows, CommitSweep
    <3>2. session'[s] = IF s \in found[x] THEN [session[s] EXCEPT !.state = "revoked"] ELSE session[s]
      BY <1>3 DEF CommitSweep
    <3> QED
      BY <3>1, <3>2
  <2> QED
    BY <2>1, <2>2 DEF Rows, SameRow
<1>4. ASSUME Lapse PROVE Goal
  <2>1. \A s \in Rows : SameRow(s)
    BY <1>4, RowsAfterLapse
  <2>2. \A s \in Slots \ Rows : session'[s] = Nil
    BY <1>4 DEF Lapse, Rows, Live, TypeOK
  <2> QED
    BY <2>1, <2>2 DEF Rows, SameRow
<1> QED
  BY <1>1, <1>2, <1>3, <1>4
     DEF Next, tables, Arrive, Decide, Release, End, CreateToken, Sweep, AbandonSweep, GrantAccess,
         RevokeAccess, RemoveMember

-----------------------------------------------------------------------------
(* Initially *)

LEMMA InitIInv == Init => IInv
<1> SUFFICES ASSUME Init PROVE IInv
  OBVIOUS
<1>1. TypeOK
  BY DEF Init, TypeOK
<1>2. Rows = {} /\ Live = {}
  BY DEF Init, Rows, Live
<1>3. \A r \in Requests : stage[r] = "idle"
  BY DEF Init
<1>4. \A x \in Targets : found[x] = Nil
  BY DEF Init
<1> QED
  BY <1>1, <1>2, <1>3, <1>4
     DEF IInv, CallersDerive, SessionsDerive, HoldersAreFair, DeliveryIsGranted, SweepFinds,
         FoundAreRows, OutlivesCrossing, OnlyRacersSurvive

-----------------------------------------------------------------------------
(* Types *)

LEMMA ArriveType ==
  ASSUME TypeOK, NEW r \in Requests, NEW c \in Credentials, NEW e \in Environments,
         NEW w \in {"exchange", "deliver"}, Arrive(r, c, e, w)
  PROVE  TypeOK'
<1>1. SubjectOf(c) \in Subjects
  BY UsableHasSubject DEF Arrive
<1> DEFINE new == [credential |-> c, subject |-> SubjectOf(c), environment |-> e, wants |-> w]
<1>2. new \in Caller /\ new # Nil
  BY <1>1, NilAssumption DEF Caller
<1> HIDE DEF new
<1>3. caller' = [caller EXCEPT ![r] = new]
  BY DEF Arrive, new
<1>4. caller' \in [Requests -> Caller \cup {Nil}]
  BY <1>2, <1>3 DEF TypeOK
<1>5. stage' \in [Requests -> {"idle", "known", "answered", "decided", "delivered"}]
  BY DEF TypeOK, Arrive
<1>6. ASSUME NEW q \in Requests, stage'[q] # "idle" PROVE caller'[q] # Nil
  BY <1>2, <1>3, <1>6 DEF TypeOK, Arrive
<1>7. fair' \subseteq Requests /\ crossing' \subseteq Requests
  BY DEF TypeOK, Arrive
<1> QED
  BY <1>4, <1>5, <1>6, <1>7 DEF TypeOK, Arrive, tables

LEMMA ExchangeType ==
  ASSUME TypeOK, NEW r \in Requests, Exchange(r)
  PROVE  TypeOK'
<1>1. stage[r] # "idle"
  BY DEF Exchange
<1>2. session' \in [Slots -> Session \cup {Nil}] /\ late' \subseteq Slots
  BY <1>1, RowsAfterExchange, MintedRow DEF TypeOK
<1>3. stage' \in [Requests -> {"idle", "known", "answered", "decided", "delivered"}]
      /\ \A q \in Requests : stage'[q] # "idle" => stage[q] # "idle"
  BY <1>1 DEF TypeOK, Exchange
<1> QED
  BY <1>2, <1>3 DEF TypeOK, Exchange

LEMMA RequestType ==
  ASSUME TypeOK, NEW r \in Requests, Decide(r) \/ Release(r) \/ End(r)
  PROVE  TypeOK'
<1>1. stage' \in [Requests -> {"idle", "known", "answered", "decided", "delivered"}]
      /\ caller' \in [Requests -> Caller \cup {Nil}]
      /\ fair' \subseteq Requests /\ crossing' \subseteq Requests /\ late' = late
  BY DEF TypeOK, Decide, Release, End, history
<1>2. \A q \in Requests : stage'[q] # "idle" => caller'[q] # Nil
  BY DEF TypeOK, Decide, Release, End
<1> QED
  BY <1>1, <1>2 DEF TypeOK, Decide, Release, End, tables

LEMMA SweepType ==
  ASSUME TypeOK, FoundAreRows, NEW x \in Targets, Sweep(x) \/ CommitSweep(x) \/ AbandonSweep(x)
  PROVE  TypeOK'
<1>1. CASE Sweep(x)
  <2>1. FoundBy(x) \in SUBSET Slots
    BY DEF FoundBy, Live, Rows
  <2>2. found' \in [Targets -> (SUBSET Slots) \cup {Nil}] /\ crossing' \subseteq Requests
    BY <1>1, <2>1 DEF TypeOK, Sweep
  <2> QED
    BY <1>1, <2>2 DEF TypeOK, Sweep, tables
<1>2. CASE CommitSweep(x)
  <2>1. session' \in [Slots -> Session \cup {Nil}]
    <3>1. \A s \in Slots : session'[s] \in Session \cup {Nil}
      <4> SUFFICES ASSUME NEW s \in Slots PROVE session'[s] \in Session \cup {Nil}
        OBVIOUS
      <4>1. CASE s \in Rows
        BY <1>2, <4>1, RowsAfterCommit DEF SameRow
      <4>2. CASE s \notin Rows
        BY <1>2, <4>2 DEF CommitSweep, FoundAreRows, TypeOK
      <4> QED
        BY <4>1, <4>2
    <3>2. session' = [s \in Slots |-> session'[s]]
      BY <1>2 DEF CommitSweep
    <3> QED
      BY <3>1, <3>2
  <2>2. token' \in [Tokens -> {"none", "live", "expired", "revoked"}]
        /\ identity' \in {"active", "expired", "disabled"}
    BY <1>2 DEF TypeOK, CommitSweep
  <2>3. found' \in [Targets -> (SUBSET Slots) \cup {Nil}]
    BY <1>2 DEF TypeOK, CommitSweep
  <2> QED
    BY <1>2, <2>1, <2>2, <2>3 DEF TypeOK, CommitSweep, history
<1>3. CASE AbandonSweep(x)
  BY <1>3 DEF TypeOK, AbandonSweep, tables, history
<1> QED
  BY <1>1, <1>2, <1>3

LEMMA LapseType ==
  ASSUME TypeOK, Lapse
  PROVE  TypeOK'
<1>1. session' \in [Slots -> Session \cup {Nil}]
  <2>1. CASE UNCHANGED session
    BY <2>1 DEF TypeOK
  <2>2. ASSUME NEW q \in Live, session' = [session EXCEPT ![q].state = "expired"]
        PROVE  session' \in [Slots -> Session \cup {Nil}]
    <3>1. q \in Slots /\ [session[q] EXCEPT !.state = "expired"] \in Session
      BY SessionFields, UpdatedRow DEF Live, Ends
    <3> QED
      BY <2>2, <3>1 DEF TypeOK
  <2> QED
    BY <2>1, <2>2 DEF Lapse
<1>2. /\ token' \in [Tokens -> {"none", "live", "expired", "revoked"}]
      /\ identity' \in {"active", "expired", "disabled"}
      /\ member' \in {"active", "expired", "removed"} /\ cli' \in {"live", "revoked"}
  BY DEF TypeOK, Lapse
<1> QED
  BY <1>1, <1>2 DEF TypeOK, Lapse, history

LEMMA StepType == IInv /\ Next => TypeOK'
<1> SUFFICES ASSUME IInv, Next PROVE TypeOK'
  OBVIOUS
<1> USE DEF IInv
<1>1. ASSUME NEW t \in Tokens, CreateToken(t) PROVE TypeOK'
  BY <1>1 DEF TypeOK, CreateToken, history
<1>2. ASSUME NEW s \in Subjects, NEW e \in Environments, GrantAccess(s, e) \/ RevokeAccess(s, e) PROVE TypeOK'
  BY <1>2 DEF TypeOK, GrantAccess, RevokeAccess, history
<1>3. CASE RemoveMember
  BY <1>3 DEF TypeOK, RemoveMember, history
<1> QED
  BY <1>1, <1>2, <1>3, ArriveType, ExchangeType, RequestType, SweepType, LapseType DEF Next

-----------------------------------------------------------------------------
(* What a session and a request say of themselves *)

\* What derives from a credential still does after a step that keeps the rows.
LEMMA DerivesStays ==
  ASSUME TypeOK, NEW row, NEW c, Derives(row, c),
         \A s \in Rows : SameRow(s), Rows \subseteq Rows'
  PROVE  Derives(row, c)'
BY DEF Derives, SameRow

\* Of a request, everything but its stage is settled when it arrives.
RequestStays(r) == stage'[r] # "idle" => stage[r] # "idle" /\ caller'[r] = caller[r]

LEMMA RequestsStay ==
  ASSUME TypeOK, Next, NEW r \in Requests,
         \A c \in Credentials, e \in Environments, w \in {"exchange", "deliver"} : ~Arrive(r, c, e, w)
  PROVE  RequestStays(r)
<1>1. ASSUME NEW q \in Requests, NEW c \in Credentials, NEW e \in Environments,
             NEW w \in {"exchange", "deliver"}, Arrive(q, c, e, w)
      PROVE  RequestStays(r)
  <2>1. q # r
    BY <1>1
  <2> QED
    BY <1>1, <2>1 DEF RequestStays, Arrive, TypeOK
<1>2. ASSUME NEW q \in Requests, Exchange(q) \/ Decide(q) \/ Release(q)
      PROVE  RequestStays(r)
  BY <1>2 DEF RequestStays, TypeOK, Exchange, Decide, Release
<1>3. ASSUME NEW q \in Requests, End(q)
      PROVE  RequestStays(r)
  BY <1>3 DEF RequestStays, TypeOK, End
<1>4. CASE UNCHANGED <<stage, caller>>
  BY <1>4 DEF RequestStays
<1> QED
  BY <1>1, <1>2, <1>3, <1>4
     DEF Next, CreateToken, Sweep, CommitSweep, AbandonSweep, GrantAccess, RevokeAccess, RemoveMember, Lapse

LEMMA Arrived ==
  ASSUME TypeOK, NEW r \in Requests, NEW c \in Credentials, NEW e \in Environments,
         NEW w \in {"exchange", "deliver"}, Arrive(r, c, e, w)
  PROVE  /\ caller'[r].credential = c /\ caller'[r].subject = SubjectOf(c)
         /\ caller'[r].environment = e
         /\ stage'[r] = "known"
         /\ \A q \in Requests \ {r} : stage'[q] = stage[q] /\ caller'[q] = caller[q]
BY DEF Arrive, TypeOK

LEMMA StepCallers == IInv /\ Next => CallersDerive'
<1> SUFFICES ASSUME IInv, Next, NEW r \in Requests, stage'[r] # "idle"
             PROVE  Derives(caller[r], caller[r].credential)'
  BY DEF CallersDerive
<1> USE DEF IInv
<1>1. CASE RequestStays(r)
  <2>1. Derives(caller[r], caller[r].credential) /\ caller'[r] = caller[r]
    BY <1>1 DEF RequestStays, CallersDerive
  <2> QED
    BY <2>1, RowsStay DEF Derives, SameRow
<1>2. ASSUME NEW c \in Credentials, NEW e \in Environments, NEW w \in {"exchange", "deliver"},
             Arrive(r, c, e, w)
      PROVE  Derives(caller[r], caller[r].credential)'
  <2>1. /\ caller'[r].credential = c /\ caller'[r].subject = SubjectOf(c) /\ caller'[r].environment = e
    BY <1>2, Arrived
  <2>2. c \in Slots => c \in Live
    BY <1>2, UsableHasSubject DEF Arrive
  <2>3. session' = session /\ (c # CLI => e = EnvironmentOf(c))
    BY <1>2 DEF Arrive, ScopeResolves, tables
  <2>4. c \in Slots => c \in Rows'
    BY <2>2, <2>3 DEF Live, Rows
  <2> QED
    BY <2>1, <2>3, <2>4, CredentialAssumption DEF Derives, SubjectOf, EnvironmentOf
<1> QED
  BY <1>1, <1>2, RequestsStay

LEMMA StepSessions == IInv /\ Next => SessionsDerive'
<1> SUFFICES ASSUME IInv, Next, NEW s \in Rows' PROVE Derives(session[s], session[s].source)'
  BY DEF SessionsDerive
<1> USE DEF IInv
<1>1. CASE s \in Rows
  <2>1. Derives(session[s], session[s].source) /\ SameRow(s)
    BY <1>1, RowsStay DEF SessionsDerive
  <2> QED
    BY <2>1, RowsStay DEF Derives, SameRow
<1>2. CASE s \notin Rows
  <2>1. PICK r \in Requests : Exchange(r)
    BY <1>2, RowsStay
  <2>2. stage[r] # "idle"
    BY <2>1 DEF Exchange
  <2>3. session'[s] = Minted(caller[r])
    BY <1>2, <2>1, RowsAfterExchange
  <2>4. Derives(caller[r], caller[r].credential)
    BY <2>2 DEF CallersDerive
  <2>5. /\ session'[s].source = caller[r].credential /\ session'[s].subject = caller[r].subject
        /\ session'[s].environment = caller[r].environment
    BY <2>2, <2>3, MintedRow
  <2> QED
    BY <2>4, <2>5, RowsStay DEF Derives, SameRow
<1> QED
  BY <1>1, <1>2

-----------------------------------------------------------------------------
(* Grants *)

LEMMA StepFair == IInv /\ Next => HoldersAreFair'
<1> SUFFICES ASSUME IInv, Next, NEW r \in Requests, stage'[r] # "idle",
                    <<caller'[r].subject, caller'[r].environment>> \in granted'
             PROVE  r \in fair'
  BY DEF HoldersAreFair
<1> USE DEF IInv
<1>1. ASSUME NEW c \in Credentials, NEW e \in Environments, NEW w \in {"exchange", "deliver"},
             Arrive(r, c, e, w)
      PROVE  r \in fair'
  <2>1. caller'[r].subject = SubjectOf(c) /\ caller'[r].environment = e
    BY <1>1, Arrived
  <2>2. granted' = granted
    BY <1>1 DEF Arrive, tables
  <2>3. <<SubjectOf(c), e>> \in granted
    BY <2>1, <2>2
  <2> QED
    BY <1>1, <2>3 DEF Arrive
<1>2. CASE RequestStays(r)
  <2>1. stage[r] # "idle" /\ caller'[r] = caller[r]
    BY <1>2 DEF RequestStays
  <2>2. ASSUME NEW s \in Subjects, NEW e \in Environments, GrantAccess(s, e)
        PROVE  r \in fair'
    <3>1. CASE <<caller[r].subject, caller[r].environment>> \in granted
      BY <2>1, <2>2, <3>1 DEF HoldersAreFair, GrantAccess
    <3>2. CASE caller[r].subject = s /\ caller[r].environment = e
      BY <2>1, <2>2, <3>2 DEF GrantAccess
    <3> QED
      BY <2>1, <2>2, <3>1, <3>2 DEF GrantAccess
  <2>3. ASSUME granted' \subseteq granted, fair \subseteq fair'
        PROVE  r \in fair'
    BY <2>1, <2>3 DEF HoldersAreFair
  <2>4. ASSUME NEW q \in Requests, End(q)
        PROVE  r \in fair'
    <3>1. q # r
      BY <2>4 DEF End, TypeOK
    <3> QED
      BY <2>1, <2>4, <3>1 DEF HoldersAreFair, End, tables
  <2>5. ASSUME NEW q \in Requests, \/ \E c \in Credentials, e \in Environments, w \in {"exchange", "deliver"} :
                                        Arrive(q, c, e, w)
                                   \/ Exchange(q) \/ Decide(q) \/ Release(q)
        PROVE  r \in fair'
    BY <2>3, <2>5 DEF tables, history, Arrive, Exchange, Decide, Release
  <2>6. ASSUME NEW x \in Targets, Sweep(x) \/ CommitSweep(x) \/ AbandonSweep(x)
        PROVE  r \in fair'
    BY <2>3, <2>6 DEF tables, history, Sweep, CommitSweep, AbandonSweep
  <2>7. ASSUME \/ \E t \in Tokens : CreateToken(t)
               \/ \E s \in Subjects, e \in Environments : RevokeAccess(s, e)
               \/ RemoveMember \/ Lapse
        PROVE  r \in fair'
    BY <2>3, <2>7 DEF history, CreateToken, RevokeAccess, RemoveMember, Lapse
  <2> QED
    BY <2>2, <2>4, <2>5, <2>6, <2>7 DEF Next
<1> QED
  BY <1>1, <1>2, RequestsStay

LEMMA StepDelivery == IInv /\ Next => DeliveryIsGranted'
<1> SUFFICES ASSUME IInv, Next, NEW r \in Requests, stage'[r] \in {"decided", "delivered"}
             PROVE  r \in fair'
  BY DEF DeliveryIsGranted
<1> USE DEF IInv
<1>1. CASE Decide(r)
  <2>1. stage[r] # "idle" /\ MayUse(caller[r]) /\ fair' = fair
    BY <1>1 DEF Decide, history
  <2>2. <<caller[r].subject, caller[r].environment>> \in granted
    BY <2>1, CallerFields, UseNeedsGrant
  <2> QED
    BY <2>1, <2>2 DEF HoldersAreFair
<1>2. CASE ~Decide(r)
  <2>1. stage[r] \in {"decided", "delivered"}
    BY ZenonT(30), <1>2 DEF Next, TypeOK, Arrive, Exchange, Decide, Release, End, CreateToken, Sweep, CommitSweep,
                AbandonSweep, GrantAccess, RevokeAccess, RemoveMember, Lapse
  <2>2. r \in fair
    BY <2>1 DEF DeliveryIsGranted
  <2>3. ASSUME NEW q \in Requests, End(q)
        PROVE  r \in fair'
    BY <2>2, <2>3 DEF End, TypeOK
  <2> QED
    BY <2>2, <2>3
       DEF Next, tables, history, Arrive, Exchange, Decide, Release, CreateToken, Sweep,
           CommitSweep, AbandonSweep, GrantAccess, RevokeAccess, RemoveMember, Lapse
<1> QED
  BY <1>1, <1>2

-----------------------------------------------------------------------------
(* Revocation *)

LEMMA StepFoundRows == IInv /\ Next => FoundAreRows'
<1> SUFFICES ASSUME IInv, Next, NEW x \in Targets, found'[x] # Nil
             PROVE  found'[x] \subseteq Rows'
  BY DEF FoundAreRows
<1> USE DEF IInv
<1>1. found'[x] = found[x] \/ found'[x] = FoundBy(x)
  <2>1. ASSUME NEW y \in Targets, Sweep(y) \/ CommitSweep(y) \/ AbandonSweep(y)
        PROVE  found'[x] = found[x] \/ found'[x] = FoundBy(x)
    <3>1. found[y]' \in {Nil, FoundBy(y)} /\ (x # y => found'[x] = found[x])
      BY <2>1 DEF TypeOK, Sweep, CommitSweep, AbandonSweep
    <3> QED
      BY <3>1
  <2> QED
    BY <2>1 DEF Next, Arrive, Exchange, Decide, Release, End, CreateToken, GrantAccess, RevokeAccess,
                RemoveMember, Lapse
<1>2. FoundBy(x) \subseteq Rows
  BY DEF FoundBy, Live
<1> QED
  BY <1>1, <1>2, RowsStay DEF FoundAreRows

\* A session that is alive after a step was alive before, or was just minted.
LEMMA LiveBefore ==
  ASSUME IInv, Next, NEW s \in Live'
  PROVE  \/ s \in Live /\ session'[s].source = session[s].source
         \/ \E r \in Requests : Exchange(r) /\ session'[s].source = caller[r].credential
                                /\ (r \in crossing => s \in late')
<1> USE DEF IInv
<1>1. s \in Rows' /\ session'[s].state = "live"
  BY DEF Live
<1>2. CASE s \in Rows
  BY <1>1, <1>2, RowsStay DEF SameRow, Live
<1>3. CASE s \notin Rows
  <2>1. PICK r \in Requests : Exchange(r)
    BY <1>1, <1>3, RowsStay
  <2>2. PICK q \in Slots \ Rows :
           /\ session'[q] = Minted(caller[r])
           /\ Rows' = Rows \cup {q}
           /\ late' = IF r \in crossing THEN late \cup {q} ELSE late
    BY <2>1, RowsAfterExchange
  <2>3. s = q
    BY <1>1, <1>3, <2>2
  <2>4. Minted(caller[r]).source = caller[r].credential
    BY <2>1, MintedRow DEF Exchange
  <2> QED
    BY <2>1, <2>2, <2>3, <2>4
<1> QED
  BY <1>2, <1>3

\* What is late stays late, and a request under way that overlaps a revocation
\* goes on overlapping it.
LEMMA HistoryGrows ==
  ASSUME IInv, Next
  PROVE  /\ late \subseteq late'
         /\ \A r \in Requests : stage'[r] # "idle" /\ r \in crossing => r \in crossing'
<1> USE DEF IInv
<1>1. ASSUME NEW q \in Requests, End(q)
      PROVE  /\ late \subseteq late'
             /\ \A r \in Requests : stage'[r] # "idle" /\ r \in crossing => r \in crossing'
  BY <1>1 DEF End, TypeOK
<1>2. ASSUME NEW q \in Requests, \/ \E c \in Credentials, e \in Environments, w \in {"exchange", "deliver"} :
                                      Arrive(q, c, e, w)
                                 \/ Exchange(q) \/ Decide(q) \/ Release(q)
      PROVE  late \subseteq late' /\ crossing \subseteq crossing'
  BY <1>2 DEF history, Arrive, Exchange, Decide, Release
<1>3. ASSUME NEW x \in Targets, Sweep(x) \/ CommitSweep(x) \/ AbandonSweep(x)
      PROVE  late \subseteq late' /\ crossing \subseteq crossing'
  BY <1>3 DEF history, Sweep, CommitSweep, AbandonSweep
<1>4. ASSUME \/ \E t \in Tokens : CreateToken(t)
             \/ \E s \in Subjects, e \in Environments : GrantAccess(s, e) \/ RevokeAccess(s, e)
             \/ RemoveMember \/ Lapse
      PROVE  late \subseteq late' /\ crossing \subseteq crossing'
  BY <1>4 DEF history, CreateToken, GrantAccess, RevokeAccess, RemoveMember, Lapse
<1> QED
  BY <1>1, <1>2, <1>3, <1>4 DEF Next

\* The revocations under way after a step were under way before, but for the one
\* that a Sweep begins.
LEMMA FoundBefore ==
  ASSUME IInv, Next, NEW x \in Targets, found'[x] # Nil
  PROVE  Sweep(x) \/ found'[x] = found[x]
<1> USE DEF IInv
<1>1. ASSUME NEW y \in Targets, Sweep(y) \/ CommitSweep(y) \/ AbandonSweep(y)
      PROVE  Sweep(x) \/ found'[x] = found[x]
  BY <1>1 DEF TypeOK, Sweep, CommitSweep, AbandonSweep
<1> QED
  BY <1>1 DEF Next, Arrive, Exchange, Decide, Release, End, CreateToken, GrantAccess, RevokeAccess,
              RemoveMember, Lapse

LEMMA StepSweep == IInv /\ Next => SweepFinds'
<1> SUFFICES ASSUME IInv, Next, NEW x \in Targets, found'[x] # Nil
             PROVE  /\ \A s \in Live' : session'[s].source \in DerivedFrom(x) => s \in found'[x] \cup late'
                    /\ \A r \in Requests : stage'[r] # "idle" /\ caller'[r].credential \in DerivedFrom(x)
                                             => r \in crossing'
  BY DEF SweepFinds, DerivedFrom
<1> USE DEF IInv
<1>1. CASE Sweep(x)
  <2>1. session' = session /\ Live' = Live /\ stage' = stage /\ caller' = caller
    BY <1>1 DEF Sweep, tables, Live, Rows
  <2>2. found'[x] = FoundBy(x)
    BY <1>1 DEF Sweep, TypeOK
  <2>3. \A s \in Live : session[s].source \in DerivedFrom(x) => s \in FoundBy(x)
    BY DEF FoundBy
  <2>4. \A r \in Requests : stage[r] # "idle" /\ caller[r].credential \in DerivedFrom(x) => r \in crossing'
    BY <1>1 DEF Sweep
  <2> QED
    BY <2>1, <2>2, <2>3, <2>4
<1>2. CASE found'[x] = found[x]
  <2>1. ASSUME NEW s \in Live', session'[s].source \in DerivedFrom(x)
        PROVE  s \in found'[x] \cup late'
    <3>1. CASE s \in Live /\ session'[s].source = session[s].source
      BY <1>2, <2>1, <3>1, HistoryGrows DEF SweepFinds
    <3>2. ASSUME NEW r \in Requests, Exchange(r), session'[s].source = caller[r].credential,
                 r \in crossing => s \in late'
          PROVE  s \in late'
      BY <1>2, <2>1, <3>2 DEF SweepFinds, Exchange
    <3> QED
      BY <2>1, <3>1, <3>2, LiveBefore
  <2>2. ASSUME NEW r \in Requests, stage'[r] # "idle", caller'[r].credential \in DerivedFrom(x)
        PROVE  r \in crossing'
    <3>1. CASE RequestStays(r)
      BY <1>2, <2>2, <3>1, HistoryGrows DEF RequestStays, SweepFinds
    <3>2. ASSUME NEW c \in Credentials, NEW e \in Environments, NEW w \in {"exchange", "deliver"},
                 Arrive(r, c, e, w)
          PROVE  r \in crossing'
      BY ZenonT(30), <1>2, <2>2, <3>2, Arrived DEF Arrive
    <3> QED
      BY <3>1, <3>2, RequestsStay
  <2> QED
    BY <2>1, <2>2
<1> QED
  BY <1>1, <1>2, FoundBefore

\* A token or the identity ends for good, and only where a sweep commits.
LEMMA EndsByCommit ==
  ASSUME IInv, Next, NEW t \in Tokens, token'[t] = "revoked" \/ identity' = "disabled"
  PROVE  \/ token[t] = "revoked" \/ identity = "disabled"
         \/ \E x \in Targets : CommitSweep(x) /\ found[x] # Nil /\ t \in DerivedFrom(x)
<1> USE DEF IInv
<1>1. ASSUME NEW x \in Targets, CommitSweep(x)
      PROVE  token[t] = "revoked" \/ identity = "disabled" \/ (found[x] # Nil /\ t \in DerivedFrom(x))
  BY <1>1 DEF CommitSweep, DerivedFrom, TypeOK, Targets
<1>2. CASE Lapse
  BY <1>2 DEF Lapse, TypeOK
<1>3. ASSUME NEW u \in Tokens, CreateToken(u)
      PROVE  token[t] = "revoked" \/ identity = "disabled"
  BY <1>3 DEF CreateToken, TypeOK
<1> QED
  BY <1>1, <1>2, <1>3
     DEF Next, tables, Arrive, Exchange, Decide, Release, End, Sweep, AbandonSweep, GrantAccess, RevokeAccess,
         RemoveMember

LEMMA StepOutlives == IInv /\ Next => OutlivesCrossing'
<1> SUFFICES ASSUME IInv, Next, NEW r \in Requests, stage'[r] # "idle", caller'[r].credential \in Tokens,
                    token'[caller'[r].credential] = "revoked" \/ identity' = "disabled"
             PROVE  r \in crossing'
  BY DEF OutlivesCrossing
<1> USE DEF IInv
<1>1. CASE RequestStays(r)
  <2>1. stage[r] # "idle" /\ caller'[r] = caller[r]
    BY <1>1 DEF RequestStays
  <2>2. r \in crossing
    BY <2>1, EndsByCommit DEF OutlivesCrossing, SweepFinds
  <2> QED
    BY <2>2, HistoryGrows
<1>2. ASSUME NEW c \in Credentials, NEW e \in Environments, NEW w \in {"exchange", "deliver"},
             Arrive(r, c, e, w)
      PROVE  FALSE
  <2>1. caller'[r].credential = c /\ token' = token /\ identity' = identity
    BY <1>2, Arrived DEF Arrive, tables
  <2>2. c \in Tokens /\ Usable(c)
    BY <1>2, <2>1 DEF Arrive
  <2> QED
    BY <2>1, <2>2, CredentialAssumption DEF Usable, Live, Rows
<1> QED
  BY <1>1, <1>2, RequestsStay

LEMMA StepSurvivors == IInv /\ Next => OnlyRacersSurvive'
<1> SUFFICES ASSUME IInv, Next, NEW s \in Live', session'[s].source \in Tokens,
                    token'[session'[s].source] = "revoked" \/ identity' = "disabled"
             PROVE  s \in late'
  BY DEF OnlyRacersSurvive
<1> USE DEF IInv
<1> DEFINE t == session'[s].source
<1>1. CASE s \in Live /\ session'[s].source = session[s].source
  <2>1. CASE token[t] = "revoked" \/ identity = "disabled"
    BY <1>1, <2>1, HistoryGrows DEF OnlyRacersSurvive
  <2>2. ASSUME NEW x \in Targets, CommitSweep(x), found[x] # Nil, t \in DerivedFrom(x)
        PROVE  s \in late'
    <3>1. s \in found[x] \cup late
      BY <1>1, <2>2 DEF SweepFinds
    <3>2. s \notin found[x]
      BY <1>1, <2>2, RowsAfterCommit DEF Live
    <3> QED
      BY <3>1, <3>2, HistoryGrows
  <2> QED
    BY <2>1, <2>2, EndsByCommit
<1>2. ASSUME NEW r \in Requests, Exchange(r), session'[s].source = caller[r].credential,
             r \in crossing => s \in late'
      PROVE  s \in late'
  BY <1>2 DEF Exchange, OutlivesCrossing
<1> QED
  BY <1>1, <1>2, LiveBefore

-----------------------------------------------------------------------------
(* The theorems *)

LEMMA Stutter == IInv /\ UNCHANGED vars => IInv'
<1> SUFFICES ASSUME IInv, UNCHANGED vars PROVE IInv'
  OBVIOUS
<1>1. /\ UNCHANGED <<token, identity, member, cli, session, granted>>
      /\ UNCHANGED <<stage, caller, found, fair, crossing, late>>
  BY DEF vars, tables, history
<1>2. TypeOK' /\ FoundAreRows'
  BY <1>1 DEF IInv, TypeOK, FoundAreRows, Rows
<1>3. CallersDerive' /\ SessionsDerive'
  BY <1>1 DEF IInv, CallersDerive, SessionsDerive, Derives, Rows
<1>4. HoldersAreFair' /\ DeliveryIsGranted' /\ OutlivesCrossing'
  BY <1>1 DEF IInv, HoldersAreFair, DeliveryIsGranted, OutlivesCrossing
<1>5. SweepFinds' /\ OnlyRacersSurvive'
  BY <1>1 DEF IInv, SweepFinds, OnlyRacersSurvive, DerivedFrom, Live, Rows
<1> QED
  BY <1>2, <1>3, <1>4, <1>5 DEF IInv

\* The conjunction IInv holds in every reachable state of the runtime API.
THEOREM Inductive == Spec => []IInv
<1>1. IInv /\ [Next]_vars => IInv'
  BY Stutter, StepType, StepCallers, StepSessions, StepFair, StepDelivery, StepSweep, StepFoundRows,
     StepOutlives, StepSurvivors DEF IInv
<1> QED
  BY InitIInv, <1>1, PTL DEF Spec

\* Tokens, logins, runtime sessions, grants and the requests under way have
\* their types; a request that has been authenticated has a caller, at every
\* stage of it (httpapi/runtime.go).
THEOREM TypeCorrect == Spec => []TypeOK
BY Inductive, PTL DEF IInv

\* Through any chain of exchanges, subject and environment stay what the token
\* or the login at its beginning says.
THEOREM NothingGainedByExchange == Spec => []CeilingInherited
<1>1. IInv => CeilingInherited
  <2> SUFFICES ASSUME IInv, NEW s \in Rows PROVE
        LET row == session[s] IN
        /\ row.source \in Tokens => row.subject = Machine /\ row.environment = TokenEnvironment[row.source]
        /\ row.source = CLI => row.subject = Person
        /\ row.source \in Slots =>
             row.source \in Rows /\ row.subject = SubjectOf(row.source)
                                 /\ row.environment = EnvironmentOf(row.source)
    BY DEF CeilingInherited
  <2>1. Derives(session[s], session[s].source)
    BY DEF IInv, SessionsDerive
  <2>2. \A q \in Slots : SubjectOf(q) = session[q].subject /\ EnvironmentOf(q) = session[q].environment
    BY CredentialAssumption DEF SubjectOf, EnvironmentOf
  <2> QED
    BY <2>1, <2>2 DEF Derives
<1> QED
  BY <1>1, Inductive, PTL

\* A value is delivered only to a subject that held the grant at some moment
\* since the request arrived, whatever is granted and revoked meanwhile.
THEOREM DeliveriesAreGranted == Spec => []DeliveryIsGranted
BY Inductive, PTL DEF IInv

\* However sweeps, exchanges and lapses interleave, a session minted from a
\* token outlives the token or its identity only if the request that minted it
\* overlapped the revocation.
THEOREM SurvivorsRaced == Spec => []OnlyRacersSurvive
BY Inductive, PTL DEF IInv
=============================================================================
