SPECIFICATION Spec
CONSTANTS
  m1 = m1  m2 = m2  f1 = f1  f2 = f2  p1 = p1  p2 = p2  x1 = x1  s1 = s1  s2 = s2
  g1 = g1  d1 = d1  r1 = r1  r2 = r2  n1 = n1  n2 = n2
  Media = {m1, m2}  Folders = {f1, f2}  Playlists = {p1, p2}  Rules = {x1}
  Schedules = {s1, s2}  Groups = {g1}  Devices = {d1}  Requests = {r1, r2}  Names = {n1, n2}
  Root = Root  None = None
  Filters <- MCFilters
  Rank <- MCRank
  ItemLists <- MCItemLists
  Changes <- MCChanges
  Scenarios <- MCScenarios
SYMMETRY Symmetry
INVARIANTS  CopyIsCurrent ManifestClosed SoundUnlessRaced UsageWarns PreviewAgrees
CHECK_DEADLOCK FALSE
