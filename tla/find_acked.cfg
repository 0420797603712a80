SPECIFICATION FairSpec
CONSTANTS
  k1 = k1  k2 = k2  a1 = a1  a2 = a2  p1 = p1  p2 = p2
  Commands <- MCCommands
  Attempts <- TwoAttempts
  Polls <- OnePoll
  Budgets <- OneCrash
PROPERTY EveryCommandRuns
CHECK_DEADLOCK FALSE
