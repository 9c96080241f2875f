SPECIFICATION Spec
SYMMETRY Symmetry
CONSTANTS
  Nil = Nil
  Organization = org
  Project = project
  Machine = bot
  Person = dev
  CLI = cli
  prod = prod
  stag = stag
  TokenEnvironment <- EnvironmentMap
  Tokens = {t1}
  Slots = {s1, s2}
  Requests = {r1}
  Environments = {prod}
  Grantable <- EveryGrant
INVARIANT RevocationReachesRenewals
