--------------------------- MODULE RuntimeAccess ---------------------------
(***************************************************************************)
(* The runtime API (internal/httpapi/runtime.go): machine tokens, CLI      *)
(* sessions and the runtime sessions exchanged for them, and what ends     *)
(* them (internal/store/machines.go).  One organization and project, one   *)
(* machine identity, one member; expiry is an event that may fall at any   *)
(* moment.                                                                 *)
(*                                                                         *)
(* A request authenticates first and acts later.  RevokeToken and          *)
(* DisableIdentity are transactions: the sessions they end are those their *)
(* second statement finds, and they end when the transaction commits.      *)
(***************************************************************************)
EXTENDS Authz, FiniteSets

CONSTANTS
  Organization, Project,
  Machine, Person,     \* the identity and the member
  Tokens,              \* bound: machine tokens the identity may ever have
  TokenEnvironment,    \* the environment each of them names
  CLI,                 \* the member's CLI session
  Slots,               \* bound: rows of runtime_sessions
  Environments,
  Grantable,           \* bound: the grants administrators give
  Requests             \* concurrent requests to the runtime API

Subjects    == {Machine, Person}
Credentials == Tokens \cup Slots \cup {CLI}
Targets     == Tokens \cup {Machine}   \* what RevokeToken and DisableIdentity end

ASSUME CredentialAssumption ==
  /\ Tokens \cap Slots = {} /\ CLI \notin Tokens \cup Slots
  /\ Machine # Person /\ Machine \notin Tokens
  /\ Nil \notin Credentials \cup Subjects \cup Environments \cup {Organization, Project}
  /\ TokenEnvironment \in [Tokens -> Environments]
  /\ Grantable \subseteq Subjects \X Environments

Session == [state : {"live", "revoked", "expired"}, source : Credentials,
            subject : Subjects, environment : Environments]

\* A request: what it presented, for whom, capped to where, and what it wants.
Caller == [credential : Credentials, subject : Subjects, environment : Environments,
           wants : {"exchange", "deliver"}]

ASSUME NilAssumption ==
  Nil \notin Session /\ Nil \notin Caller /\ \A S \in SUBSET Slots : Nil # S

VARIABLES
  token,       \* machine_tokens
  identity,    \* machine_identities, the one row
  member,      \* memberships, the one row
  cli,         \* the row of user_sessions
  session,     \* runtime_sessions; Nil where no row is yet
  granted,     \* live grants of USE_SECRET, as <<subject, environment>>
  stage, caller,   \* per request
  found,       \* per running RevokeToken or DisableIdentity: the sessions it found
  \* history
  fair,        \* requests whose subject held the grant since they arrived
  crossing,    \* requests that overlap a revocation of what they presented
  late         \* sessions minted by such requests

tables   == <<token, identity, member, cli, session, granted>>
history  == <<fair, crossing, late>>
vars     == <<tables, stage, caller, found, history>>

-----------------------------------------------------------------------------
(* Credentials *)

Rows == {s \in Slots : session[s] # Nil}
Live == {s \in Rows : session[s].state = "live"}

\* The providers of the runtime listener: a token needs its identity, a CLI
\* session its membership, a runtime session only its own row.
Usable(c) ==
  \/ c \in Tokens /\ token[c] = "live" /\ identity = "active"
  \/ c = CLI /\ cli = "live" /\ member = "active"
  \/ c \in Live

SubjectOf(c) == IF c \in Tokens THEN Machine ELSE IF c = CLI THEN Person ELSE session[c].subject

EnvironmentOf(c) == IF c \in Tokens THEN TokenEnvironment[c] ELSE session[c].environment

\* Mutant: the environment the request names is taken as it is.
AsRequested(c, e) == TRUE

\* resolveRuntimeScope: a scoped credential runs where it is scoped, a person
\* where they ask.
ScopeResolves(c, e) == c # CLI => e = EnvironmentOf(c)

Minted(who) ==
  [state |-> "live", source |-> who.credential, subject |-> who.subject, environment |-> who.environment]

-----------------------------------------------------------------------------
(* The decision at delivery *)

TypeOf(s) == IF s = Person THEN "USER" ELSE "MACHINE"

GrantRows ==
  {[type |-> TypeOf(g[1]), subject |-> g[1], project |-> Project, environment |-> g[2], secret |-> Nil,
    capabilities |-> {"USE_SECRET"}, expires |-> 1, revoked |-> FALSE] : g \in granted}

PrincipalOf(who) ==
  [type |-> TypeOf(who.subject), id |-> who.subject, organization |-> Organization, role |-> Nil,
   scope |-> [project |-> Project, environment |-> who.environment,
              capabilities |-> {"USE_SECRET"}, keys |-> {}]]

\* Mutant: a runtime session was authorized when it was minted.
AuthorizedOnce(who) ==
  \/ who.credential \in Slots
  \/ <<who.subject, who.environment>> \in granted

MayUse(who) ==
  Authorize(PrincipalOf(who), "USE_SECRET", Organization,
            [project |-> Project, environment |-> who.environment, secret |-> "secret", key |-> "key"],
            GrantRows, 0)

-----------------------------------------------------------------------------
(* Requests *)

Init ==
  /\ token = [t \in Tokens |-> "none"]
  /\ identity = "active" /\ member = "active" /\ cli = "live"
  /\ session = [s \in Slots |-> Nil]
  /\ granted = {}
  /\ stage = [r \in Requests |-> "idle"]
  /\ caller = [r \in Requests |-> Nil]
  /\ found = [x \in Targets |-> Nil]
  /\ fair = {} /\ crossing = {} /\ late = {}

\* What a revocation of x ends, besides x.
DerivedFrom(x) == IF x = Machine THEN Tokens ELSE {x}

\* withAuthentication, then the scope of the request.
Arrive(r, c, e, wants) ==
  /\ stage[r] = "idle" /\ Usable(c)
  /\ ScopeResolves(c, e)
  /\ wants = "deliver" => c # CLI
  /\ stage'  = [stage EXCEPT ![r] = "known"]
  /\ caller' = [caller EXCEPT ![r] = [credential |-> c, subject |-> SubjectOf(c),
                                      environment |-> e, wants |-> wants]]
  /\ fair' = IF <<SubjectOf(c), e>> \in granted THEN fair \cup {r} ELSE fair
  /\ crossing' = IF \E x \in Targets : found[x] # Nil /\ c \in DerivedFrom(x)
                 THEN crossing \cup {r} ELSE crossing
  /\ UNCHANGED <<tables, found, late>>

\* CreateRuntimeSession, for a caller that may be revoked by now.
Exchange(r) ==
  /\ stage[r] = "known" /\ caller[r].wants = "exchange"
  /\ \E s \in Slots \ Rows :
       /\ session' = [session EXCEPT ![s] = Minted(caller[r])]
       /\ late' = IF r \in crossing THEN late \cup {s} ELSE late
  /\ stage' = [stage EXCEPT ![r] = "answered"]
  /\ UNCHANGED <<token, identity, member, cli, granted, caller, found, fair, crossing>>

\* Deliver: the grants are read for every request.
Decide(r) ==
  /\ stage[r] = "known" /\ caller[r].wants = "deliver"
  /\ MayUse(caller[r])
  /\ stage' = [stage EXCEPT ![r] = "decided"]
  /\ UNCHANGED <<tables, caller, found, history>>

Release(r) ==
  /\ stage[r] = "decided"
  /\ stage' = [stage EXCEPT ![r] = "delivered"]
  /\ UNCHANGED <<tables, caller, found, history>>

\* The response is out, or the request is refused or lost.
End(r) ==
  /\ stage[r] # "idle"
  /\ stage'    = [stage EXCEPT ![r] = "idle"]
  /\ caller'   = [caller EXCEPT ![r] = Nil]
  /\ fair'     = fair \ {r}
  /\ crossing' = crossing \ {r}
  /\ UNCHANGED <<tables, found, late>>

-----------------------------------------------------------------------------
(* Administration *)

\* handleCreateToken looks the identity up and does not ask whether it is
\* disabled.
CreateToken(t) ==
  /\ token[t] = "none"
  /\ token' = [token EXCEPT ![t] = "live"]
  /\ UNCHANGED <<identity, member, cli, session, granted, stage, caller, found, history>>

\* Mutant: the cascade looks for the subject's sessions of a user.
FoundBySubject(x) == {s \in Live : session[s].subject = Person}

FoundBy(x) == {s \in Live : session[s].source \in DerivedFrom(x)}

\* Both statements of the transaction; what they wrote is not visible yet.
Sweep(x) ==
  /\ found[x] = Nil
  /\ x \in Tokens => token[x] \in {"live", "expired"}
  /\ x = Machine  => identity \in {"active", "expired"}
  /\ found' = [found EXCEPT ![x] = FoundBy(x)]
  /\ crossing' = crossing \cup {r \in Requests : stage[r] # "idle" /\ caller[r].credential \in DerivedFrom(x)}
  /\ UNCHANGED <<tables, stage, caller, fair, late>>

CommitSweep(x) ==
  /\ found[x] # Nil
  /\ IF x = Machine
     THEN identity' = "disabled" /\ UNCHANGED token
     ELSE token' = [token EXCEPT ![x] = "revoked"] /\ UNCHANGED identity
  /\ session' = [s \in Slots |-> IF s \in found[x] THEN [session[s] EXCEPT !.state = "revoked"] ELSE session[s]]
  /\ found' = [found EXCEPT ![x] = Nil]
  /\ UNCHANGED <<member, cli, granted, stage, caller, history>>

\* The transaction is rolled back.
AbandonSweep(x) ==
  /\ found[x] # Nil
  /\ found' = [found EXCEPT ![x] = Nil]
  /\ UNCHANGED <<tables, stage, caller, history>>

\* handleGrantAccess, whose subject may be a member who has left.
GrantAccess(s, e) ==
  /\ <<s, e>> \in Grantable \ granted
  /\ granted' = granted \cup {<<s, e>>}
  /\ fair' = fair \cup {r \in Requests : stage[r] # "idle" /\ caller[r].subject = s /\ caller[r].environment = e}
  /\ UNCHANGED <<token, identity, member, cli, session, stage, caller, found, crossing, late>>

RevokeAccess(s, e) ==
  /\ <<s, e>> \in granted
  /\ granted' = granted \ {<<s, e>>}
  /\ UNCHANGED <<token, identity, member, cli, session, stage, caller, found, history>>

\* RevokeMembership: the membership, the grants, the user_sessions.
RemoveMember ==
  /\ member # "removed"
  /\ member'  = "removed"
  /\ cli'     = "revoked"
  /\ granted' = {g \in granted : g[1] # Person}
  /\ UNCHANGED <<token, identity, session, stage, caller, found, history>>

\* What time ends: a token, the identity, the membership, a runtime session,
\* and what its holder ends, the CLI session.
Lapse ==
  /\ \/ /\ \E t \in Tokens : token[t] = "live" /\ token' = [token EXCEPT ![t] = "expired"]
        /\ UNCHANGED <<identity, member, cli, session>>
     \/ /\ identity = "active" /\ identity' = "expired"
        /\ UNCHANGED <<token, member, cli, session>>
     \/ /\ member = "active" /\ member' = "expired"
        /\ UNCHANGED <<token, identity, cli, session>>
     \/ /\ cli = "live" /\ cli' = "revoked"
        /\ UNCHANGED <<token, identity, member, session>>
     \/ /\ \E s \in Live : session' = [session EXCEPT ![s].state = "expired"]
        /\ UNCHANGED <<token, identity, member, cli>>
  /\ UNCHANGED <<granted, stage, caller, found, history>>

Next ==
  \/ \E r \in Requests :
       \/ \E c \in Credentials, e \in Environments, w \in {"exchange", "deliver"} : Arrive(r, c, e, w)
       \/ Exchange(r) \/ Decide(r) \/ Release(r) \/ End(r)
  \/ \E t \in Tokens : CreateToken(t)
  \/ \E x \in Targets : Sweep(x) \/ CommitSweep(x) \/ AbandonSweep(x)
  \/ \E s \in Subjects, e \in Environments : GrantAccess(s, e) \/ RevokeAccess(s, e)
  \/ RemoveMember
  \/ Lapse

Spec == Init /\ [][Next]_vars

-----------------------------------------------------------------------------
(* Properties *)

TypeOK ==
  /\ token \in [Tokens -> {"none", "live", "expired", "revoked"}]
  /\ identity \in {"active", "expired", "disabled"}
  /\ member \in {"active", "expired", "removed"}
  /\ cli \in {"live", "revoked"}
  /\ session \in [Slots -> Session \cup {Nil}]
  /\ granted \subseteq Subjects \X Environments
  /\ stage \in [Requests -> {"idle", "known", "answered", "decided", "delivered"}]
  /\ caller \in [Requests -> Caller \cup {Nil}]
  /\ \A r \in Requests : stage[r] # "idle" => caller[r] # Nil
  /\ found \in [Targets -> (SUBSET Slots) \cup {Nil}]
  /\ fair \subseteq Requests /\ crossing \subseteq Requests
  /\ late \subseteq Slots

\* However often a session is exchanged for another, the subject and the
\* environment stay those of the token or of the login at the beginning
\* (runtime.go: an exchange is never a way to acquire more than was presented).
CeilingInherited ==
  \A s \in Rows :
    LET row == session[s] IN
    /\ row.source \in Tokens => row.subject = Machine /\ row.environment = TokenEnvironment[row.source]
    /\ row.source = CLI => row.subject = Person
    /\ row.source \in Slots =>
         row.source \in Rows /\ row.subject = SubjectOf(row.source)
                             /\ row.environment = EnvironmentOf(row.source)

\* A value is only ever delivered to a subject that held the grant at some
\* moment since the request arrived: ending a grant stops the next request,
\* with whatever session it comes (handleRevokeAccess).
DeliveryIsGranted == \A r \in Requests : stage[r] \in {"decided", "delivered"} => r \in fair

\* The first generation of sessions dies with the token or its identity; the
\* only survivors were minted by requests that overlapped the revocation.
OnlyRacersSurvive ==
  \A s \in Live :
    session[s].source \in Tokens /\ (token[session[s].source] = "revoked" \/ identity = "disabled") => s \in late

\* The credential a person or a machine holds at the beginning of a session.
Origin ==
  LET origin[s \in Rows] == IF session[s].source \in Slots THEN origin[session[s].source] ELSE session[s].source
  IN  origin

\* README.md:32 and the comment on RevokeToken: revoking a token ends the
\* sessions derived from it.  Refuted: a session exchanged for a session
\* records the session, not the token, and no cascade finds it.
RevocationReachesRenewals ==
  \A s \in Live : session[s].source \in Slots /\ Origin[s] \in Tokens => token[Origin[s]] # "revoked"
=============================================================================
