SPECIFICATION FairSpec
CONSTANTS
  Tasks = {t1}
  Gateways = {g1, g2}
  Runners = {r1, r2}
  MaxRetries = 1
  MaxCrashes = 1
  Scenarios <- MCScenarios
  None = None
INVARIANTS OneRunner RetriesBounded NotLost
PROPERTY Resolved
CHECK_DEADLOCK FALSE
