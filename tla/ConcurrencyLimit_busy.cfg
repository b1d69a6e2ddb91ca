SPECIFICATION Spec
CONSTANTS
  r1 = r1
  r2 = r2
  Requests = {r1, r2}
  Need <- MCNeed
  Limits <- MCLimits
  MaxUpdates = 0
  Scenarios <- OnlyBusy
  NoLimit = NoLimit
PROPERTY WithinQuota
CHECK_DEADLOCK FALSE
