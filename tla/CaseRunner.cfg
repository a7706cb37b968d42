SPECIFICATION Spec
CONSTANTS
  Workers = {w1, w2}
  Suites = {"verify", "test"}
  Behaviours = {"passes", "fails", "runtime_error", "other_error"}
  MaxTargets = 3
  ConfiguredWorkers = {0, 1, 5}
  AvailableWorkers = {1, 2}
INVARIANTS
  OutcomesInOrder
  ExitCodeHonest
PROPERTIES
  CommandEnds
CHECK_DEADLOCK FALSE
