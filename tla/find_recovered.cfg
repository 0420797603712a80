CONSTANTS
  timer = timer
  command = command
  Flushers <- BothFlushers
  Kept = 2
  Batch = 2
  MaxRows = 4
  Watchdog = TRUE
  Budgets <- DarkScenario
SPECIFICATION Spec
PROPERTIES
  RecoveryIsReal
CHECK_DEADLOCK FALSE
