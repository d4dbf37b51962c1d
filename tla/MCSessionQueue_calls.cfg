SPECIFICATION Spec
CONSTANTS
  t1 = t1
  t2 = t2
  t3 = t3
  t4 = t4
  Catalog <- Catalog3
  Seed = t1
  Kinds = {"radio", "album"}
  AlbumQueue <- Album3
  Signals = {"like", "dislike", "clear", "skip", "complete", "ban"}
  Callers = {c1, c2}
  Fillers = {f1, f2}
  NoFiller = NoFiller
  NoTrack = NoTrack
  Prefetch = 2
  MinAuto = 1
  Slack = 1
  HistoryCap = 1
  CadenceMin = 1
  CadenceMax = 1
  RadioBridge = FALSE
  Embedded = TRUE
  QueriesFail = TRUE
  QuietClient = FALSE
  MaxCalls = 2
  MaxRestarts = 1
SYMMETRY ProcSymmetry
INVARIANTS
  TypeOK
  RowMatchesSession
  HistoryIsPlayed
PROPERTIES
  PinsSurvive
  
  OneAdvancePerEnd
CHECK_DEADLOCK FALSE
