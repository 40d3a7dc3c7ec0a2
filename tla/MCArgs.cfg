SPECIFICATION Spec
CONSTANTS
  MaxCompositeDepth = 8
  MaxNesting = 2
  Container = "b"
  HostModules = {"fs"}
  Inputs <- MCTrees
  GatherValues <- MCGatherValues
  ScenarioValues <- MCScenarioValues
INVARIANT PlansMeanWhatIsWritten
CHECK_DEADLOCK FALSE
