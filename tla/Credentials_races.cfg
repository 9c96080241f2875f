SPECIFICATION CredentialsSpec
CHECK_DEADLOCK FALSE
SYMMETRY Symmetry
CONSTANTS
  Nil = Nil
  Organization = org
  Project = project
  Machine = bot
  Person = dev
  CLI = cli
  prod = prod
  stag = stag
  TokenEnvironment <- EnvironmentMap
  Tokens = {t1}
  Slots = {s1, s2}
  Requests = {r1}
  Environments = {prod, stag}
  Grantable <- TwoGrants
  MaxRequests = 4
  MaxAccountSessions = 2
  MaxPasskeys = 1
  MaxSets = 2
  MaxChallenges = 2
  MaxLinks = 1
INVARIANTS
  AccountsTypeOK CeilingInherited DeliveryIsGranted OnlyRacersSurvive
  NoKeySkipped CutOffByChange OnlyAnUpgradeOverwrites
PROPERTIES
  ProofsAreSingleUse
