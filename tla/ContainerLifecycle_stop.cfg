SPECIFICATION FairSpec
CONSTANTS
  c1 = c1
  Containers = {c1}
  MaxRetryCount = 1
  MountMayFail = FALSE
  TtlRunsOut = FALSE
  Idle = Idle
PROPERTY StopHonoured
CHECK_DEADLOCK FALSE
ACTION_CONSTRAINT NothingFails
