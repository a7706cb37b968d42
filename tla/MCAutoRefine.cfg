SPECIFICATION AutoSpec
CONSTANTS
  GroundLength = 432
  Breakpoints = {150, 270}
  RefinementSurfaces = {1, 2}
  FosOf <- MCFosOf
  NoSurface = 0
  Invalid = 99
  BatchesPerPass = 2
  BatchLength = 1
  CandidateOf <- MCCandidateOf
  AutoConfigurations <- MCConfigurations
INVARIANTS
  SamplesOnRetainedGround
  WinnerIsBest
CHECK_DEADLOCK FALSE
