CONSTANTS
  Runners <- BothRunners
  Timer = "timer"
  Scenarios <- StoppedScenario
  MaxDay = 4
  Window = 2
  FreshDays = 1
  Batch = 1
  MaxBatches = 2
  KeepDaily = 2
  KeepWeekly = 1
  KeepMonthly = 1
  KeepTaggedDays = 1
  Sundays = {2}
  FirstsOfMonth = {1}
  RepeatDays = 1
SPECIFICATION Spec
PROPERTIES
  RefusesData
CHECK_DEADLOCK FALSE
