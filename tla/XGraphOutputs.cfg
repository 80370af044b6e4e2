CONSTANTS
  Vars = {1, 2}
  Models <- AllModels
SPECIFICATION Spec
CHECK_DEADLOCK FALSE
INVARIANT
  OutputsAfterWriters
