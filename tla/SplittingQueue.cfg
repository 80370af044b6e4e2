CONSTANTS
  SizeMod = 65536
  Tasks = {1, 2}
  TypeOf <- Kinds
  Population <- Sizes
  Workers = {w1, w2, w3}
  SplitLimits = {4}
  MinSizes = {2}
  MaxEnqueues = 2
SPECIFICATION Spec
INVARIANTS
  SplitterExact
  NoAgentTwice
  EnoughAwake
PROPERTIES
  KeepsPromise
  TasksReported
  DestructorReturns
