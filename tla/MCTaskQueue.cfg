\* Two workers, two tasks, a stream of one: every fault the budget allows.
SPECIFICATION BoundedSpec
CONSTANTS
  FirstWorker = w1
  Workers = {w1, w2}
  MaxTasks = 2
  MaxDelivery = 2
  MaxConcurrent = 1
  StaleIdle = 1
  MaxRun = 1
  StreamMax = 1
  Payloads = {"ok", "bare"}
  MaxHandouts = 6
  MaxFaults = 2
INVARIANTS
  NoTaskLost
  OverlapsOnlyOverrun
  BuriedWhenExhausted
  RedeliveryBudget
  RepeatOnlyAfterFault
PROPERTIES
  KeepsPromise
  EverySettles
CHECK_DEADLOCK FALSE
