\* The redirects of one tab whose jar holds a session that has ended.
SPECIFICATION FairDashboardSpec
CHECK_DEADLOCK FALSE
CONSTANTS
  Parts = {"sessions"}
  o1 = o1
  e1 = e1
  e2 = e2
  MaxVisits = 2
  MaxPosts = 2
  Kinds <- Forms
  Orgs = {o1, o2}
  Nobody = nobody
  MaxSessions = 2
  MaxCalls = 1
  Routes <- FewRoutes
  MaxTries = 3
  Entrances <- EntryScreens
  Environments = {e1, e2}
  Secrets = {1, 2}
  HomeOf <- HomeMap
  Nowhere = Nowhere
  RevealSeconds = 2
  MaxVersions = 2
  MaxReveals = 2
  Keys = {"A", "B"}
  NoKey = ""
  MaxLines = 3
  MaxMore = 1
  MaxRowIds = 2
  KeyEnvironments = {e1, e2}
  KeysOf <- KeyTable
  MaxLoads = 2
  MaxMinted = 1
  MaxToasts = 3
  MaxVisible = 2
  SuccessTime = 1
  ErrorTime = 2
PROPERTIES SentToSignIn
