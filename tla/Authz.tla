------------------------------- MODULE Authz -------------------------------
(***************************************************************************)
(* The policy engine: internal/authz/engine.go over the vocabulary of      *)
(* internal/domain.  A question names a principal, a capability and a      *)
(* resource; a resource is a record with one field per level of the secret *)
(* tree, Nil where the question is asked at a broader level.               *)
(***************************************************************************)
EXTENDS Naturals

CONSTANT Nil   \* uuid.Nil, a NULL column, a principal without a scope

AllCapabilities ==
  {"READ_METADATA", "USE_SECRET", "READ_SECRET", "CREATE_SECRET", "ROTATE_SECRET", "REVOKE_SECRET",
   "MANAGE_ACCESS", "READ_AUDIT", "MANAGE_PROJECT", "MANAGE_ORGANIZATION"}

\* Capabilities that let a plaintext leave the system.
SecretPlane == {"USE_SECRET", "READ_SECRET"}

CapabilitiesForRole(role) ==
  IF role = "OWNER" THEN AllCapabilities \ SecretPlane
  ELSE IF role = "ADMIN" THEN AllCapabilities \ (SecretPlane \cup {"MANAGE_ORGANIZATION"})
  ELSE IF role \in {"DEVELOPER", "VIEWER"} THEN {"READ_METADATA"}
  ELSE {}

-----------------------------------------------------------------------------
(* Grants *)

Active(g, time) == ~g.revoked /\ time < g.expires

\* A level the grant leaves open covers every resource, one that it names only
\* a resource that names the same.
LevelCovered(level, asked) == level = Nil \/ (asked # Nil /\ asked = level)

\* Mutant: a question asked at a broader level matches a narrower grant.
LooselyCovers(g, resource) ==
  /\ g.project \in {Nil, resource.project}
  /\ resource.environment = Nil \/ g.environment \in {Nil, resource.environment}
  /\ resource.secret = Nil \/ g.secret \in {Nil, resource.secret}

grantCovers(g, resource) ==
  /\ LevelCovered(g.project, resource.project)
  /\ LevelCovered(g.environment, resource.environment)
  /\ LevelCovered(g.secret, resource.secret)

-----------------------------------------------------------------------------
(* The ceiling of the presented credential *)

AllowsKey(scope, key) == scope.keys = {} \/ key \in scope.keys

\* Mutant: the ceiling compares environments only when the grant names one.
CapabilityCeiling(p, capability, resource) ==
  p.scope # Nil => capability \in p.scope.capabilities /\ resource.project = p.scope.project

checkScope(p, capability, resource) ==
  p.scope # Nil =>
    /\ capability \in p.scope.capabilities
    /\ resource.project # Nil /\ resource.project = p.scope.project
    /\ resource.environment # Nil /\ resource.environment = p.scope.environment
    /\ resource.key # Nil => AllowsKey(p.scope, resource.key)

-----------------------------------------------------------------------------
(* The decision *)

\* Mutant: an administrator may do everything.
RoleAlone(p, capability) == p.type = "USER" /\ p.role \in {"OWNER", "ADMIN"}

ByRole(p, capability) ==
  p.type = "USER" /\ capability \notin SecretPlane /\ capability \in CapabilitiesForRole(p.role)

\* The grants GrantsForSubject returns for the principal.
HeldBy(p, grants) == {g \in grants : g.type = p.type /\ g.subject = p.id}

ByGrant(p, capability, resource, grants, time) ==
  \E g \in HeldBy(p, grants) :
    Active(g, time) /\ capability \in g.capabilities /\ grantCovers(g, resource)

\* `grants' are those of the organization the question is about.
Authorize(p, capability, organization, resource, grants, time) ==
  /\ capability \in AllCapabilities
  /\ organization # Nil /\ p.id # Nil
  /\ p.organization = organization
  /\ checkScope(p, capability, resource)
  /\ ByRole(p, capability) \/ ByGrant(p, capability, resource, grants, time)
=============================================================================
