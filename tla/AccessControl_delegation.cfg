SPECIFICATION Spec
SYMMETRY Symmetry
CHECK_DEADLOCK FALSE
CONSTANTS
  Nil = Nil
  Organization = org
  owner = owner
  lead = lead
  dev = dev
  bot = bot
  p = p
  q = q
  prod = prod
  stag = stag
  other = other
  s1 = s1
  s2 = s2
  s3 = s3
  Users = {owner, lead, dev}
  Machines = {bot}
  Projects = {p, q}
  Environments = {prod, stag, other}
  Secrets = {s1, s2, s3}
  RoleOf <- RoleMap
  MembershipEnds <- EndMap
  ProjectOf <- EnvMap
  EnvironmentOf <- HomeMap
  Requests = {r1, r2}
  Offers <- Delegations
  MaxGrants = 2
  Horizon = 1
INVARIANTS Provenance RemovalTakesGrants
