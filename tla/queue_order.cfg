SPECIFICATION EngineFairSpec
CONSTANTS
  a = a  b = b  c = c  d = d  p = p  q = q  u = u  v = v
  am = am  bm = bm  cm = cm  pm = pm  qm = qm
  r1 = r1  r2 = r2  r3 = r3  r4 = r4  r5 = r5
  Entries <- MCEntries
  MediumOf <- MCMediumOf
  Rules <- MCRules
  Interval <- MCInterval
  Rank <- MCRank
  Assigned <- MCAssigned
  Rotating <- MCRotating
  Contents <- MCContents
  Rebuilds = 2
  NoMedium = NoMedium  NoEntry = NoEntry  NoRule = NoRule
PROPERTIES RulesKeepTime NoImmediateRepeat EverythingPlays
CHECK_DEADLOCK FALSE
