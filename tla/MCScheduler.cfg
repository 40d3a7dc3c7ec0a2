SPECIFICATION Spec
CONSTANTS
  N = 3
  r1 = r1  r2 = r2  l1 = l1  w1 = w1  w2 = w2
  Resources <- MCResources
  Locks <- MCLocks
  NoLock = NoLock
  Workers <- MCWorkers
  NoWorker = NoWorker
  Runs <- MCRuns
  MaxAttempts = 2
  MayPanic = TRUE
INVARIANTS
  MutualExclusion
  DependenciesFirst
  NotRunExplained
PROPERTY ImplementsPlayRun
SYMMETRY WorkersAlike
\* A thread that panics leaves the scheduler waiting: see MCPanic.cfg.
CHECK_DEADLOCK FALSE
