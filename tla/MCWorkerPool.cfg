SPECIFICATION FairSpec
CONSTANTS
  g1 = g1
  g2 = g2
  Gateways = {g1, g2}
  Workers = {w1, w2, w3}
  Machines = {m1}
  Capacity = 2
  MaxPending = 2
  MinMachines = 1
  None = None
  Configs <- MCConfigs
INVARIANTS
  MachineFits
  Overshoot
PROPERTIES
  Reclaimed
  Supplied
CHECK_DEADLOCK FALSE
