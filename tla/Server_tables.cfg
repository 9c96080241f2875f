\* Each part of the server on its own.
SPECIFICATION ServerSpec
SYMMETRY ServerSymmetry
CHECK_DEADLOCK FALSE
CONSTANTS
  Nil = Nil
  Organization = org
  owner = owner
  lead = lead
  dev = dev
  bot = bot
  p = p
  q = q
  prod = prod
  stag = stag
  other = other
  s1 = s1
  s2 = s2
  s3 = s3
  Users = {owner, lead, dev}
  Machines = {bot}
  Projects = {p, q}
  Environments = {prod, stag, other}
  Secrets = {s1, s2, s3}
  RoleOf <- RoleMap
  MembershipEnds <- EndMap
  ProjectOf <- EnvMap
  EnvironmentOf <- HomeMap
  Requests = {r1}
  Offers <- Workload
  MaxGrants = 2
  Horizon = 1
  None = None
  Callers = {k1, k2}
  Burst = 2
  Cost = 2
  Second = 3
  IdleTimes <- IdleMap
  MaxTime = 5
  released = released
  ahead = ahead
  edited = edited
  branch = branch
  first = first
  second = second
  third = third
  reworked = reworked
  Processes = {p1, p2}
  Bodies = {first, second, third, reworked}
  Builds = {released, ahead, edited, branch}
  Files <- FilesMap
  Nobody = Nobody
INVARIANTS SecretsTraced CeilingOnlyNarrows GridShowsEveryReach InAnyWindow
PROPERTIES ImplementsAllowance EachFileOnItsBase
