SPECIFICATION BoundedSpec
CONSTANTS
  t1 = t1
  Commands <- BothEngines
  MaxConns = 2
  MaxLoad = 3
  MaxBatches = 1
  MaxFaults = 1
INVARIANTS
  AgentScanInv
CHECK_DEADLOCK FALSE
