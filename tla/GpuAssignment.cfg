SPECIFICATION GpuSpec
CONSTANTS
  c1 = c1
  c2 = c2
  c3 = c3
  c4 = c4
  Containers = {c1, c2, c3, c4}
  Devices <- MCDevices
  Demand <- MCDemand
INVARIANTS Exclusive GpuIndInv NeverShort
CHECK_DEADLOCK FALSE
