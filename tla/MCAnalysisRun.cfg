SPECIFICATION Spec
CONSTANTS
  k1 = k1  k2 = k2  k3 = k3
  w1 = w1  w2 = w2
  Vectors = {k1, k2, k3}
  Keys = {k1, k2, k3}
  Normalize <- MCNormalize
  Surfaces = {1, 2}
  SurfaceOf <- MCSurfaceOf
  NoSurface = NoSurface
  Outcomes <- MCOutcomes
  MaxEvaluations = 2
  TieTol = 1
  MinBatchSize = 1
  InvalidGeometryScore = 900
  InvalidResultScore = NotSet
  ExceptionScore = NotSet
  NotSet = NotSet
  NotCached = NotCached
  NoBest = NoBest
  MaxRequest = 2
  Workers = {w1, w2}
  HasTimeout = TRUE
  Situations <- MCSituations
  MaxCalls = 2
INVARIANTS
  NothingLeftBehind
  NoPartialResult
  ReportNamesBackend
PROPERTIES
  ImplementsEvaluator
  AnalysisEnds
CHECK_DEADLOCK FALSE
