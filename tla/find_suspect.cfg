SPECIFICATION FairSpec
CONSTANTS
  m1 = m1  m2 = m2  c1 = c1  c2 = c2
  Media <- OneMedium
  Contents <- MCContents
  Size <- DifferentSizes
  Absent = Absent  Short = Short  Rotten = Rotten
  NoManifest = NoManifest  NoCache = NoCache  NoHello = NoHello
  HashLimit = 1
  Budgets <- DamageOnly
PROPERTIES SuspectsRehashed
