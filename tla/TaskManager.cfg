CONSTANTS
  Names = {a, b, c, d}
  Debug = TRUE
  TestBuild = TRUE
SYMMETRY NameSymmetry
SPECIFICATION Spec
INVARIANTS
  TypeOK
  GraphConsistent
  IterationPartition
  DependenciesMet
  NeverStuck
