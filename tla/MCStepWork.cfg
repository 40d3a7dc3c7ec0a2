SPECIFICATION WorkSpec
CONSTANTS
  Jobs <- MCJobs
  MaxProbe = 2
  MaxLate = 1
  s1 = s1  s2 = s2
  Steps = {1, 2}
  Settings <- MCSettings
  Values = {1, 2, 3}
  Plays <- MCPlays
INVARIANTS
  EndsInTime
  ReadyInTime
  AnswersAsScheduled
  ConfiguredIsTrue
  NoStaleApply
PROPERTIES
  HaltEndsWait
