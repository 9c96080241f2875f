\* Requests end, under fairness.
SPECIFICATION FairSpec
CONSTANTS
  Requests = {r1, r2}
  Nobody = Nobody
  MaxVersion = 2
  Horizon = 0
  Offered <- Editing
PROPERTIES EveryRequestEnds
