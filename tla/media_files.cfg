SPECIFICATION FairSpec
CONSTANTS
  v = v  light = light  high = high  d1 = d1  j1 = j1  j2 = j2  s1 = s1  s2 = s2
  Assets <- OneVideo
  Videos <- OneVideo
  Tiers <- MCTiers
  Devices <- MCDevices
  Jobs <- MCJobs
  Settings <- MCSettings
  Slots = 2
  MaxAttempts = 3
  MaxStalls = 1
  NoContent = NoContent  Source = Source
  Budgets <- Scenarios
INVARIANTS OfferMatchesObject
PROPERTIES ComesToRest ReadyIsAnnounced
CHECK_DEADLOCK FALSE
