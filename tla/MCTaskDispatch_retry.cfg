SPECIFICATION Spec
CONSTANTS
  Tasks = {t1}
  Gateways = {g1, g2}
  Runners = {r1, r2}
  MaxRetries = 1
  MaxCrashes = 1
  Scenarios <- TwiceAndCrash
  None = None
INVARIANT RetriesWithinPolicy
CHECK_DEADLOCK FALSE
