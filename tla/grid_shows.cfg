CONSTANTS
  Nothing = Nothing
  Files = {1, 2}
  Matching = {1}
  PageSize = 1
  Uploads = {"first", "second"}
  PageBudgets <- AllScenarios
SPECIFICATION PageFairSpec
INVARIANT NoFileForgotten
PROPERTY GridCatchesUp
