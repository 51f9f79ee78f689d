\* One agent and its two engines, one cancel or delete call, two deliveries of
\* the queue entry, two disruptions.
SPECIFICATION FairSpec
CONSTANTS
  Agents = {a1}
  Engines = {"global"}
  MaxDelivery = 2
  MaxCalls = 1
  MaxFaults = 2
INVARIANTS
  CompleteLeavesNone
  ScanInv
  NoFalseCancel
  ReportForCompleted
PROPERTY EveryRunEnds
CHECK_DEADLOCK FALSE
