SPECIFICATION Spec
CONSTANTS
  MaxCompositeDepth = 8
  MaxNesting = 2
  Container = "k"
  HostModules = {"fs"}
  Inputs <- MCClasses
  GatherValues <- MCGatherValues
  ScenarioValues <- MCScenarioValues
INVARIANT NothingLoosens
CHECK_DEADLOCK FALSE
