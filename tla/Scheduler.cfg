CONSTANTS
  NumTasks = 3
  Graphs <- Dags3
  Types = {"agent", "io"}
  TypeOf <- AgentAndIo
  NumQueues = 2
  Workers = {w1, w2, w3}
  QueueOf <- TwoQueues
  MaxCalls = 2
  Throwing = {3}
SPECIFICATION Spec
INVARIANTS
  AssignedAccounted
  ReturnsWhenAllDone
  NoLostWakeup
  IoIterationCurrent
  CallbackTargetAlive
PROPERTIES
  ImplementsIteration
  RunIterationReturns
  DestructorReturns
