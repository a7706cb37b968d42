SPECIFICATION SliceSpec
CONSTANTS
  SoilInputs <- MCSoilInputs
  StepsX = 6
  StepsY = 12
  Toe <- MCToe
  Crest <- MCCrest
  Jobs <- MCJobs
INVARIANTS
  WalksClose
  OneMaterialPerPoint
  ColumnsTrue
  EdgesSound
  WholeLoadCarried
  BaseMaterialSound
CHECK_DEADLOCK FALSE
