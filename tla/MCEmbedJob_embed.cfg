SPECIFICATION FairSpec
CONSTANTS
  Tracks = {t1, t2}
  Workers = {w1, w2}
  NoTrack = NoTrack
  ClaimBatch = 2
  Edited = {t1}
  MaxVersion = 2
  MaxConf = 2
  Reverts = FALSE
INVARIANTS
  
  ReadyIsStored
  DriftIsSeen
  ErrorsRetried
PROPERTIES
  
  RunEnds
