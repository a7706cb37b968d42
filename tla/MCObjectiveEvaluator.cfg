SPECIFICATION HistorySpec
CONSTANTS
  v1 = v1  v2 = v2  v3 = v3  v4 = v4
  k1 = k1  k2 = k2  k3 = k3
  Vectors = {v1, v2, v3, v4}
  Keys = {k1, k2, k3}
  Normalize <- MCNormalize
  Surfaces = {1, 2}
  SurfaceOf <- MCSurfaceOf
  NoSurface = NoSurface
  Outcomes <- MCOutcomes
  MaxEvaluations = 2
  TieTol = 1
  MinBatchSize = 2
  HasBatchEvaluator = TRUE
  InvalidGeometryScore = 900
  InvalidResultScore = 800
  ExceptionScore = NotSet
  NotSet = NotSet
  NotCached = NotCached
  NoBest = NoBest
  MaxRequest = 3
INVARIANTS
  AccountingExact
  IncumbentOptimal
PROPERTIES
  ImplementsBudgetedMemo
  BatchMatchesSerial
  CallIsOneAsk
CHECK_DEADLOCK FALSE
