SPECIFICATION FairSpec
CONSTANTS
  v1 = v1
  v2 = v2
  Nobody = Nobody
  Voice = {v1, v2}
  Songs <- AllSongs
  SelInsLimit = 63
  InitVolume = 15
  SeqTempoCapped = TRUE
  NoInsRts = FALSE
INVARIANTS
  TypeOK
  RoundTrip
  StaysInside
PROPERTIES
  PlaysScore
  WalksEnd
