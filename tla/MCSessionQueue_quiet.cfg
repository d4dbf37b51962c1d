SPECIFICATION Spec
CONSTANTS
  t1 = t1
  t2 = t2
  t3 = t3
  t4 = t4
  Catalog <- Catalog3
  Seed = t1
  Kinds = {"radio"}
  AlbumQueue <- NoAlbum
  Signals = {"like", "dislike", "clear", "skip", "complete", "ban"}
  Callers = {c1}
  Fillers = {f1}
  NoFiller = NoFiller
  NoTrack = NoTrack
  Prefetch = 2
  MinAuto = 1
  Slack = 1
  HistoryCap = 2
  CadenceMin = 2
  CadenceMax = 2
  RadioBridge = TRUE
  Embedded = TRUE
  QueriesFail = TRUE
  QuietClient = TRUE
  MaxCalls = 4
  MaxRestarts = 0
INVARIANTS
  SkippedStaysOut
  SingleBridge
  NoTrackQueuedTwice
CHECK_DEADLOCK FALSE
