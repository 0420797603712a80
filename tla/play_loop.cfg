SPECIFICATION FairSpec
CONSTANTS
  a = a  b = b  c = c  e = e  f = f
  am = am  bm = bm  em = em  fm = fm
  Items <- MCItems
  MediaOf <- MCMediaOf
  Videos <- MCVideos
  Timed <- MCTimed
  Playlists <- Lively
  StallReports = 3
  NoItem = NoItem  NoMedia = NoMedia
INVARIANTS EndsWhatStarted VideoWatched
PROPERTIES NeverFrozen
