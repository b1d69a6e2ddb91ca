SPECIFICATION FairSpec
CONSTANTS
  g1 = g1
  g2 = g2
  Gateways = {g1, g2}
  Warmups = {w1}
  Containers = {c1, c2}
  Configs <- MCConfigs
  Threshold = 1
  ScaleBacklog = 2
  MaxFaults = 1
  None = None
INVARIANTS TypeOK WithinMax
PROPERTIES Drained ScaledToZero Served
CHECK_DEADLOCK FALSE
