SPECIFICATION DirectSpec
CONSTANTS
  Dimensions = 2
  GridDepth = 3
  ScoresAt <- MCScoresAt
  Infinity = 1000
  Slopes = {0, 1, 100}
  KeyOf <- MCKeyOf
  RefinementSurfaces = {1}
  FosOf <- MCFosOf
  NoSurface = 0
  Invalid = 1000
  BatchesPerPass = 1
  BatchLength = 1
  DirectConfigurations <- MCConfigurations
INVARIANTS
  IterationCost
  IncumbentKept
  AspectBounded
  ReasonTruthful
PROPERTIES
  InvalidNeverDivided
CHECK_DEADLOCK FALSE
