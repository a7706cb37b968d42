SPECIFICATION CmaesSpec
CONSTANTS
  Dimensions = 1
  GridDepth = 2
  ScoresAt <- MCScoresAt
  RefusedPenalty = 60
  LeastPenalty = 50
  Infinity = 1000
  Slopes = {0, 1, 100}
  RefinementSurfaces = {1, 100}
  FosOf <- MCFosOf
  NoSurface = 0
  Invalid = 1000
  BatchesPerPass = 1
  BatchLength = 1
  Proposals <- MCProposals
  KeyOf <- MCKeyOf
  CmaesConfigurations <- MCConfigurations
INVARIANTS
  WinnerIsBestFound
PROPERTIES
  OptimizersSeeRealAnswers
CHECK_DEADLOCK FALSE
