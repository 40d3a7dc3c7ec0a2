SPECIFICATION HostSpec
CONSTANTS
  PipeRoom = 1
  MaxChunks = 3
  Lengths <- MCLengths
  MaxRetries = 2
  MaxCalls = 2
  Chain <- MCChain
  InitialStates = {"stopped", "start_pending", "stop_pending", "running", "paused"}
  MaxScenarioCalls = 5
CHECK_DEADLOCK FALSE
INVARIANTS OutputIsWhole DestIsOneVersion NoneLeftStopped RestartPutsBack
           RunsItsOwn ReadyIsSteady
PROPERTY BoundedCallReturns
