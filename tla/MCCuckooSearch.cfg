SPECIFICATION CuckooSpec
CONSTANTS
  Points = {1, 2, 3, 4, 5}
  ScoresAt <- MCScoresAt
  RefusedAnswer = 101
  AttemptsFactor = 2
  RefinementSurfaces = {6}
  FosOf <- MCFosOf
  NoSurface = 0
  Invalid = 100
  BatchesPerPass = 1
  BatchLength = 1
  CuckooConfigurations <- MCConfigurations
INVARIANTS
  EliteKept
  NoRefusedNest
PROPERTIES
  SearchEnds
CHECK_DEADLOCK FALSE
