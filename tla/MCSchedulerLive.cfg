SPECIFICATION FairSpec
CONSTANTS
  N = 3
  r1 = r1  r2 = r2  l1 = l1  w1 = w1  w2 = w2
  Resources <- MCResources
  Locks <- MCLocks
  NoLock = NoLock
  Workers <- MCWorkers
  NoWorker = NoWorker
  Runs <- MCLiveRuns
  MaxAttempts = 2
  MayPanic = FALSE
PROPERTIES
  Termination
  HaltCutsWaits
  WaitsDoNotStarve
