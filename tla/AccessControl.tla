--------------------------- MODULE AccessControl ---------------------------
(***************************************************************************)
(* Who may be given access by whom: the access handlers of the admin API   *)
(* (internal/httpapi/handlers_access.go, handlers_auth.go) over the tables *)
(* access_grants and memberships of one organization, decided by Authz.    *)
(*                                                                         *)
(* A request authenticates, passes the gate `allow', and only then writes: *)
(* three moments between which other requests, expiries and failures fall. *)
(* Removing a member is a transaction of several statements; the grants it *)
(* ends are those its second statement sees.                               *)
(***************************************************************************)
EXTENDS Authz, Sequences

CONSTANTS
  Organization,
  Users, Machines,   \* subjects; only users reach the admin API
  RoleOf,            \* the role of each user's membership
  MembershipEnds,    \* memberships.expires_at of each user
  Projects, Environments, Secrets,
  ProjectOf,         \* the project of each environment
  EnvironmentOf,     \* the environment of each secret
  Requests,          \* concurrent HTTP requests
  Offers,            \* bound: the bodies of POST /projects/{id}/access
  MaxGrants,         \* bound: grants the organization may ever issue
  Horizon            \* bound: the clock stops here

Roles    == {"OWNER", "ADMIN", "DEVELOPER", "VIEWER"}
Subjects == Users \cup Machines
Ids      == 1 .. MaxGrants
Never    == Horizon + 1

Offer == [subject : Subjects, environment : Environments \cup {Nil}, secret : Secrets \cup {Nil},
          capabilities : SUBSET AllCapabilities, expires : 0 .. Never]

Ceiling == [project : Projects, environment : Environments,
            capabilities : SUBSET AllCapabilities, keys : SUBSET Secrets]

ASSUME NilAssumption ==
  /\ Nil \notin Subjects \cup Projects \cup Environments \cup Secrets \cup {Organization}
  /\ Nil \notin Ceiling
  /\ Users \cap Machines = {}
ASSUME TreeAssumption ==
  /\ RoleOf \in [Users -> Roles]
  /\ MembershipEnds \in [Users -> Nat]
  /\ ProjectOf \in [Environments -> Projects]
  /\ EnvironmentOf \in [Secrets -> Environments]
ASSUME BoundsAssumption == MaxGrants \in Nat /\ Horizon \in Nat /\ Offers \subseteq Offer

Grant == [type : {"USER", "MACHINE"}, subject : Subjects, project : Projects,
          environment : Environments \cup {Nil}, secret : Secrets \cup {Nil},
          capabilities : SUBSET AllCapabilities, expires : 0 .. Never, revoked : BOOLEAN, by : Users]

\* What a request asks for.
GrantTask  == [op : {"grant"}, project : Projects, offer : Offers]
RevokeTask == [op : {"revoke"}, project : Projects, id : Ids]
RemoveTask == [op : {"remove"}, user : Users]
Task       == GrantTask \cup RevokeTask \cup RemoveTask

VARIABLES
  grants,   \* access_grants, in the order of insertion
  left,     \* users whose membership is revoked
  now,      \* clock
  stage,    \* per request: where it is
  who,      \* the user it authenticated as
  task,     \* what it asks for
  mark,     \* how many grants its UPDATE of access_grants saw
  cut       \* history: `mark' of the removal that ended each membership

requests == <<stage, who, task, mark>>
vars     == <<grants, left, now, requests, cut>>

-----------------------------------------------------------------------------
(* Questions *)

GrantRows == {grants[i] : i \in DOMAIN grants}

TypeOf(s) == IF s \in Users THEN "USER" ELSE "MACHINE"

\* The principal of a browser session: a role, and no ceiling.
Person(u) == [type |-> "USER", id |-> u, organization |-> Organization, role |-> RoleOf[u], scope |-> Nil]

\* The principal of a machine token or a runtime session: a ceiling, no role.
Scoped(s, scope) == [type |-> TypeOf(s), id |-> s, organization |-> Organization, role |-> Nil, scope |-> scope]

Place(p, e, s, k) == [project |-> p, environment |-> e, secret |-> s, key |-> k]

CapabilityFor(t) == IF t.op = "remove" THEN "MANAGE_ORGANIZATION" ELSE "MANAGE_ACCESS"
TargetOf(t)      == Place(IF t.op = "remove" THEN Nil ELSE t.project, Nil, Nil, Nil)

allow(u, t) == Authorize(Person(u), CapabilityFor(t), Organization, TargetOf(t), GrantRows, now)

\* What handleGrantAccess checks of the body.  (Its subject is looked up among
\* the machine identities or the members, removed ones included, and found.)
ValidOffer(t, time) ==
  /\ t.offer.capabilities # {}
  /\ time < t.offer.expires
  /\ t.offer.environment # Nil => ProjectOf[t.offer.environment] = t.project
  /\ t.offer.environment = Nil => t.offer.secret = Nil

\* Mutant: the grant is stored for the whole organization.
OrganizationWide(u, t) ==
  [type |-> TypeOf(t.offer.subject), subject |-> t.offer.subject, project |-> Nil,
   environment |-> t.offer.environment, secret |-> t.offer.secret,
   capabilities |-> t.offer.capabilities, expires |-> t.offer.expires, revoked |-> FALSE, by |-> u]

NewGrant(u, t) ==
  [type |-> TypeOf(t.offer.subject), subject |-> t.offer.subject, project |-> t.project,
   environment |-> t.offer.environment, secret |-> t.offer.secret,
   capabilities |-> t.offer.capabilities, expires |-> t.offer.expires, revoked |-> FALSE, by |-> u]

Ended(g) == [g EXCEPT !.revoked = TRUE]

MemberActive(u) == u \notin left /\ now < MembershipEnds[u]

-----------------------------------------------------------------------------
(* Actions *)

Init ==
  /\ grants = <<>> /\ left = {} /\ now = 0
  /\ stage = [r \in Requests |-> "idle"]
  /\ who   = [r \in Requests |-> Nil]
  /\ task  = [r \in Requests |-> Nil]
  /\ mark  = [r \in Requests |-> 0]
  /\ cut   = [u \in Users |-> 0]

\* withAuthentication: the membership is read afresh for every request.
Authenticate(r, u, t) ==
  /\ stage[r] = "idle" /\ MemberActive(u)
  /\ stage' = [stage EXCEPT ![r] = "known"]
  /\ who'   = [who EXCEPT ![r] = u]
  /\ task'  = [task EXCEPT ![r] = t]
  /\ UNCHANGED <<grants, left, now, mark, cut>>

Done(r) ==
  /\ stage' = [stage EXCEPT ![r] = "idle"]
  /\ who'   = [who EXCEPT ![r] = Nil]
  /\ task'  = [task EXCEPT ![r] = Nil]
  /\ mark'  = [mark EXCEPT ![r] = 0]

\* The gate and, for a grant, the validation of the body.
Gate(r) ==
  /\ stage[r] = "known"
  /\ allow(who[r], task[r])
  /\ task[r].op = "grant" => ValidOffer(task[r], now)
  /\ stage' = [stage EXCEPT ![r] = "allowed"]
  /\ UNCHANGED <<grants, left, now, who, task, mark, cut>>

\* The INSERT of handleGrantAccess and its audit entry, one transaction.
WriteGrant(r) ==
  /\ stage[r] = "allowed" /\ task[r].op = "grant"
  /\ Len(grants) < MaxGrants
  /\ grants' = Append(grants, NewGrant(who[r], task[r]))
  /\ Done(r)
  /\ UNCHANGED <<left, now, cut>>

\* Rows that a removal in progress has updated are locked until it ends.
Swept(r, i) == stage[r] = "removing" /\ i <= mark[r] /\ grants[i].subject = task[r].user

\* The UPDATE of handleRevokeAccess finds any live grant of the organization.
WriteRevoke(r) ==
  /\ stage[r] = "allowed" /\ task[r].op = "revoke"
  /\ task[r].id \in DOMAIN grants
  /\ ~grants[task[r].id].revoked
  /\ \A q \in Requests : ~Swept(q, task[r].id)
  /\ grants' = [grants EXCEPT ![task[r].id] = Ended(@)]
  /\ Done(r)
  /\ UNCHANGED <<left, now, cut>>

\* RevokeMembership up to its second statement: the membership row is locked,
\* the user's grants committed so far are found.
SweepGrants(r) ==
  /\ stage[r] = "allowed" /\ task[r].op = "remove"
  /\ task[r].user \notin left
  /\ \A q \in Requests : ~(stage[q] = "removing" /\ task[q].user = task[r].user)
  /\ stage' = [stage EXCEPT ![r] = "removing"]
  /\ mark'  = [mark EXCEPT ![r] = Len(grants)]
  /\ UNCHANGED <<grants, left, now, who, task, cut>>

\* Mutant: the removal ends the grants of the remover.
EndsGrantOfCaller(r, g) == g.type = "USER" /\ g.subject = who[r]

EndsGrant(r, g) == g.type = "USER" /\ g.subject = task[r].user

\* The commit: membership, grants (and sessions) end together.
CommitRemoval(r) ==
  /\ stage[r] = "removing"
  /\ left'   = left \cup {task[r].user}
  /\ grants' = [i \in DOMAIN grants |->
                  IF i <= mark[r] /\ EndsGrant(r, grants[i]) THEN Ended(grants[i]) ELSE grants[i]]
  /\ cut'    = [cut EXCEPT ![task[r].user] = mark[r]]
  /\ Done(r)
  /\ UNCHANGED now

\* A denial, a failed validation, a row that is not found, a lost connection:
\* the transaction, if one is open, is rolled back.
Refuse(r) ==
  /\ stage[r] # "idle"
  /\ Done(r)
  /\ UNCHANGED <<grants, left, now, cut>>

Tick ==
  /\ now < Horizon
  /\ now' = now + 1
  /\ UNCHANGED <<grants, left, requests, cut>>

Next ==
  \/ \E r \in Requests, u \in Users, t \in Task : Authenticate(r, u, t)
  \/ \E r \in Requests :
       Gate(r) \/ WriteGrant(r) \/ WriteRevoke(r) \/ SweepGrants(r) \/ CommitRemoval(r) \/ Refuse(r)
  \/ Tick

Spec == Init /\ [][Next]_vars

-----------------------------------------------------------------------------
(* Properties *)

TypeOK ==
  /\ grants \in Seq(Grant) /\ Len(grants) <= MaxGrants
  /\ left \subseteq Users
  /\ now \in 0 .. Horizon
  /\ stage \in [Requests -> {"idle", "known", "allowed", "removing"}]
  /\ who \in [Requests -> Users \cup {Nil}]
  /\ task \in [Requests -> Task \cup {Nil}]
  /\ mark \in [Requests -> 0 .. MaxGrants]
  /\ cut \in [Users -> 0 .. MaxGrants]
  /\ \A r \in Requests : stage[r] # "idle" => who[r] \in Users /\ task[r] \in Task

Administers(u) == RoleOf[u] \in {"OWNER", "ADMIN"}

\* g makes its holder a manager of the access to the whole project.
Delegates(g, u, project) ==
  /\ g.type = "USER" /\ g.subject = u /\ "MANAGE_ACCESS" \in g.capabilities
  /\ g.project = project /\ g.environment = Nil /\ g.secret = Nil

\* Authority to give access comes from a role or from an earlier grant over the
\* same whole project, whatever was revoked or expired between the gate and the
\* INSERT: a grant on one environment never lets its holder open the others.
Provenance ==
  \A i \in DOMAIN grants :
    \/ Administers(grants[i].by)
    \/ \E j \in 1 .. i - 1 : Delegates(grants[j], grants[i].by, grants[i].project)

\* Grants at the end of a chain of delegations that starts with a role.
Rooted ==
  LET root[i \in DOMAIN grants] ==
        \/ Administers(grants[i].by)
        \/ \E j \in 1 .. i - 1 : root[j] /\ Delegates(grants[j], grants[i].by, grants[i].project)
  IN  {i \in DOMAIN grants : root[i]}

Whereabouts(x) == Place(ProjectOf[EnvironmentOf[x]], EnvironmentOf[x], x, x)

MayUse(p, c, x) == Authorize(p, c, Organization, Whereabouts(x), GrantRows, now)

\* Nobody, an owner included, can have a value decrypted unless a chain of
\* grants that starts with an administrator, and never leaves the secret's
\* project, ends in a live one of theirs (domain/capability.go: the secret plane
\* is ambient to no role).
SecretsTraced ==
  \A u \in Users, c \in SecretPlane, x \in Secrets :
    MayUse(Person(u), c, x) =>
      \E i \in Rooted : /\ grants[i].subject = u /\ c \in grants[i].capabilities
                        /\ grants[i].project = ProjectOf[EnvironmentOf[x]]
                        /\ Active(grants[i], now)

\* The ceilings handleCreateToken and handleRuntimeAuth give out.
Scopes == {[project |-> ProjectOf[e], environment |-> e, capabilities |-> c, keys |-> k] :
             e \in Environments, c \in {SecretPlane, {"USE_SECRET"}}, k \in {{}} \cup {{x} : x \in Secrets}}

\* A credential with a ceiling opens nothing outside its environment, and
\* nothing its subject could not open without it, whatever was granted.
CeilingOnlyNarrows ==
  \A s \in Subjects, scope \in Scopes, c \in SecretPlane, x \in Secrets :
    MayUse(Scoped(s, scope), c, x) =>
      /\ MayUse(Scoped(s, Nil), c, x)
      /\ EnvironmentOf[x] = scope.environment

\* Of what a member held when their removal looked, nothing is live once the
\* membership is revoked, and nothing of it comes back.
RemovalTakesGrants ==
  \A u \in left : \A i \in 1 .. cut[u] : grants[i].subject = u => grants[i].revoked
=============================================================================
