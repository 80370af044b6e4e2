CONSTANTS
  SizeMod = 65536
  MaxSize = 11
  MaxSplits = 5
  MaxMinSize = 4
SPECIFICATION LoopSpec
INVARIANTS
  LoopComputesSegments
  SubtasksPartition
  SizesRespected
