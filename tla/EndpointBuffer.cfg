SPECIFICATION FairSpec
CONSTANTS
  g1 = g1
  g2 = g2
  Requests = {r1, r2}
  Containers = {c1}
  Gateways = {g1, g2}
  MaxTokens = 1
  BufferSize = 2
  MaxDebt = 1
  Scenarios <- MCScenarios
  None = None
INVARIANTS NoOverload TokensCountInFlight HandledOnce
PROPERTY Served
CHECK_DEADLOCK FALSE
