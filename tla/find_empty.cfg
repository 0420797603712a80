CONSTANTS
  Nothing = Nothing
  Files = {1, 2, 3}
  Matching = {1}
  PageSize = 1
  Uploads = {"first", "second"}
  PageBudgets <- OneUser
SPECIFICATION PageSpec
INVARIANT EmptyMeansEmpty
