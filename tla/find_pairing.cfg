SPECIFICATION FairSpec
CONSTANTS
  b1 = b1  b2 = b2
  Boxes <- OneBox
  Versions <- TwoVersions
  Budgets <- RepairScenario
PROPERTIES PairCommandRepairs
CHECK_DEADLOCK FALSE
