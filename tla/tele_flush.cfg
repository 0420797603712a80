CONSTANTS
  timer = timer
  command = command
  Flushers <- BothFlushers
  Kept = 2
  Batch = 2
  MaxRows = 8
  Watchdog = TRUE
  Budgets <- Scenarios
SPECIFICATION FairSpec
PROPERTIES
  BuffersAreKept
  NowPlayingSettles
  LostPageIsReported
CHECK_DEADLOCK FALSE
