SPECIFICATION FairSpec
CONSTANTS
  r1 = r1
  r2 = r2
  Requests = {r1, r2}
  Need <- MCNeed
  Limits <- MCLimits
  MaxUpdates = 2
  Scenarios <- MCScenarios
  NoLimit = NoLimit
INVARIANT TypeOK
PROPERTIES AdmittedWithinQuota LimitTakesEffect
CHECK_DEADLOCK FALSE
