SPECIFICATION SliceSpec
CONSTANTS
  SoilInputs <- MCSoilInputs
  StepsX = 6
  StepsY = 12
  Toe <- MCToe
  Crest <- MCCrest
  Jobs <- MCJobs
INVARIANTS
  WeightIsSelfWeight
CHECK_DEADLOCK FALSE
