SPECIFICATION Spec
CONSTANTS
  N = 3
  r1 = r1  r2 = r2  l1 = l1  w1 = w1  w2 = w2
  Resources <- MCResources
  Locks <- MCLocks
  NoLock = NoLock
  Workers <- MCWorkers
  NoWorker = NoWorker
  Runs <- MCPanicRuns
  MaxAttempts = 2
  MayPanic = TRUE
INVARIANT ReceiveReturns
CHECK_DEADLOCK FALSE
