SPECIFICATION FairSpec
CONSTANTS
  a = a  b = b  c = c  e = e  f = f
  am = am  bm = bm  em = em  fm = fm
  Items <- MCItems
  MediaOf <- MCMediaOf
  Videos <- MCVideos
  Timed <- MCTimed
  Playlists <- Growing  \* or Ended
  StallReports = 3
  NoItem = NoItem  NoMedia = NoMedia
PROPERTIES AlwaysMoves
