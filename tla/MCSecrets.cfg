SPECIFICATION Spec
CONSTANTS
  Passwords = {"p", "q"}
  Values <- MCValues
  MaxCalls = 2
  MaxEdits = 2
  MaxProcesses = 3
  MaxSecretVars = 1
INVARIANTS Intact SealedOpens Masked
CHECK_DEADLOCK FALSE
