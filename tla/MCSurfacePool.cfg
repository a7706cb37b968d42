SPECIFICATION PoolSpec
CONSTANTS
  w1 = w1  w2 = w2
  Surfaces = {1, 2}
  Outcomes <- MCOutcomes
  Workers = {w1, w2}
  HasTimeout = TRUE
  MaxTasks = 3
INVARIANTS
  FailureDeterministic
PROPERTIES
  ImplementsBatchService
CHECK_DEADLOCK FALSE
