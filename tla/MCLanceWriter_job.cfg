SPECIFICATION FairSpec
CONSTANTS
  Tracks = {t1, t2, t3}
  Workers = {w1, w2}
  Ticker = Ticker
  Driver = Driver
  NoTrack = NoTrack
  BatchSize = 2
  CloseEarly = FALSE
INVARIANTS
  AckedIsStored
  CloseFlushes
PROPERTIES
  KeepsContract
  EveryUpsertReturns
CHECK_DEADLOCK FALSE
