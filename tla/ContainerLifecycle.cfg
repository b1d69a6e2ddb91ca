SPECIFICATION FairSpec
CONSTANTS
  c1 = c1
  Containers = {c1}
  MaxRetryCount = 3
  MountMayFail = TRUE
  TtlRunsOut = TRUE
  Idle = Idle
INVARIANTS TypeOK OneCopy CompletedOnce RunningWasSpawned
PROPERTIES NeverListedAgain Resolved StopEnforced Reclaimed
CHECK_DEADLOCK FALSE
