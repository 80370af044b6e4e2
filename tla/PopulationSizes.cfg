CONSTANTS
  Agents <- AgentTypes
  Files <- AllFiles
  Writes <- Access
  NonFinite = NonFinite
  Poles = {3}
  MaxIterations = 2
  MaxSims = 2
SPECIFICATION Spec
CHECK_DEADLOCK FALSE
INVARIANT
  SizesChecked
