SPECIFICATION Spec
CONSTANTS
  t1 = t1
  t2 = t2
  t3 = t3
  t4 = t4
  Catalog <- Catalog3
  Seed = t1
  Kinds = {"radio"}
  AlbumQueue <- NoAlbum
  Signals = {"like", "clear"}
  Callers = {c1}
  Fillers = {f1, f2}
  NoFiller = NoFiller
  NoTrack = NoTrack
  Prefetch = 2
  MinAuto = 1
  Slack = 1
  HistoryCap = 2
  CadenceMin = 1
  CadenceMax = 1
  RadioBridge = FALSE
  Embedded = TRUE
  QueriesFail = FALSE
  QuietClient = FALSE
  MaxCalls = 3
  MaxRestarts = 0
INVARIANT
  SkippedStaysOut
CHECK_DEADLOCK FALSE
