SPECIFICATION Spec
CONSTANTS
  Labels = {"g", "h"}
  Alone = Alone
  Selections <- MCSelections
INVARIANTS
  OneReportEach
  ToldInOrder
  NoLeak
  LiveWithinCap
