CONSTANTS
  Vars = {1, 2}
  Models <- AllModels
SPECIFICATION Spec
CHECK_DEADLOCK FALSE
INVARIANTS
  ConflictsOrdered
  FinaliseAfterWriters
  MessagesOrdered
  NoCycleIntroduced
