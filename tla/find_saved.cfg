CONSTANTS
  Nothing = Nothing
  Original = Original
  Clone = Clone
  Settings = {"a", "b"}
  Media = {"m"}
  Intervals = {3, 5}
  MaxItems = 2
  Budgets <- OneUser
SPECIFICATION Spec
INVARIANT SavedLabelIsTrue
CHECK_DEADLOCK FALSE
