SPECIFICATION FairSpec
CONSTANTS
  w1 = w1
  r1 = r1
  r2 = r2
  r3 = r3
  Workers = {w1}
  Requests = {r1, r2, r3}
  Cpu <- MCCpu
  Gpu <- MCGpu
  TotalCpu <- MCTotalCpu
  TotalGpu <- MCTotalGpu
  GpuWorkers = {w1}
  UintModulus = 8
  MaxVersion = 3
  NoWorker = NoWorker
INVARIANTS Accounting NoOvercommit NoGpuOvercommit
PROPERTIES CordonedNotCharged GpuNeverWraps CapacityReturned
CHECK_DEADLOCK FALSE
