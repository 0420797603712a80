CONSTANTS
  Nothing = Nothing
  Original = Original
  Clone = Clone
  Settings = {"a", "b"}
  Media = {"m"}
  Intervals = {3, 5}
  MaxItems = 2
  Budgets <- AllScenarios
SPECIFICATION FairSpec
INVARIANTS
  OwnWritesShown
  EditsSurvive
  SavedAsPressed
PROPERTIES
  ShownNeverGoesBack
  NothingBusyForever
CHECK_DEADLOCK FALSE
