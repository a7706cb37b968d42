SPECIFICATION Spec
CONSTANTS
  Documents <- MCDocuments
  ForcedWorkers <- MCForcedWorkers
  Misfits = {1, 3}
  MisfitTol = 2
  FosValues <- MCFosValues
  Residuals <- MCResiduals
  NonFinite <- MCNonFinite
  PlainStarts = 2
  HorizontalStarts = 3
  Probes <- MCProbes
INVARIANTS
  ParsedIsComplete
  AnswerIsEarned
  FixedPointIsTrue
  FallbackIsLastResort
CHECK_DEADLOCK FALSE
