\* The asset queue with a cancelled run: does every consume loop live on?
SPECIFICATION Spec
CONSTANTS
  FirstWorker = w1
  Workers = {w1, w2}
  MaxTasks = 2
  MaxDelivery = 2
  MaxConcurrent = 1
  StaleIdle = 1
  MaxRun = 1
  StreamMax = 1
  Payloads = {"ok", "bare"}
  MaxHandouts = 6
  MaxFaults = 2
INVARIANT LoopSurvives
CHECK_DEADLOCK FALSE
