\* Three tasks on one host with one vulnerability, an event, and up to three scans;
\* one task of two batches, handed out twice, on two engines with one fault.
SPECIFICATION BoundedSpec
CONSTANTS
  t1 = t1
  t2 = t2
  t3 = t3
  k1 = k1
  Tasks = {t1, t2, t3}
  Keys = {k1}
  Category <- OwnCategory
  MaxDelivery = 2
  PageLimit = 3
  MaxScans = 3
  MaxEvents = 1
  ScanEngines = {e1, e2}
  FirstEngine = e1
  Scans = {1}
  Batches = 2
  Attempts = 1
  MaxAttempts = 2
  BusyThreshold = 0
  Listed = 1
  MaxRounds = 2
  MaxLlmFaults = 1
SYMMETRY Symmetry
INVARIANTS
  ReconcileInv
  LedgerAgrees
  
CHECK_DEADLOCK FALSE
