CONSTANTS
  FileSets <- AllFileSets
  Root <- RootPath
  Resolve <- Canonical
  MaxPath = 6
  ConditionOf <- ConditionRead
  Processed <- ProcessSymbols
  SymbolsFit <- SymbolsOK
  Valid <- ConditionOK
  ReadsOf <- ConditionReads
  BadNames = {"no!"}
  CppFiles = {"f.cpp"}
  Numbers = {"0", "1"}
  Positive = {"1"}
  Edits <- AllEdits
  MaxCalls = 7
  MaxEdits = 2
  Names <- AllNames
SPECIFICATION Spec
CHECK_DEADLOCK FALSE
INVARIANTS
  DocumentsFreed
  ReadOnce
  NothingLost
  ValidatedWellFormed
  NoDynamicMessages
  
