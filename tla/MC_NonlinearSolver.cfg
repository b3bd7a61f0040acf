SPECIFICATION Spec
CONSTANTS
  Projects <- Sharing
  NumProcs = 2
  MaxIter = 3
  Norms <- SomeNorms
  AbsTol = 1
  RelTol = 2
  MaxSolves = 3
INVARIANTS
  TypeOK
  ConvergedIsChecked
  LaterIterationsForgetChecks
  AssembledAtKeptIterate
  
  OneUserPerObject
  NewtonReturnsObjects
  AssemblesAtMostMaxIter
