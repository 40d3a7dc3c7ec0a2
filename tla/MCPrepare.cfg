SPECIFICATION Spec
CONSTANTS
  MaxCompositeDepth = 8
  MaxNesting = 2
  Container = "k"
  HostModules = {"fs"}
  Inputs <- MCInputs
  GatherValues <- MCGatherValues
  ScenarioValues <- MCScenarioValues
INVARIANTS
  PlansMeanWhatIsWritten
  RunsUnderTightest
  RequiresMeanWhatIsWritten
  AcceptedIsComplete
  HighestSourceWins
  SameQuestionSameAnswer
  SynthesizedLoads
PROPERTY
  ImplementsVariables
CHECK_DEADLOCK FALSE
