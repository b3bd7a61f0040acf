SPECIFICATION Spec
CONSTANTS
  Scale = 2
  Config <- OneOfEachKind
  Staggered = TRUE
  MaxCoupling = 2
  OutputPairs <- OneThenEveryThird
  OutputTimes <- ThreeAndFive
  IterationCounts <- FewOrMany
  FailureIterations <- FirstOrMax
  MaxRejected = 1
  MaxDouble = 1000
INVARIANTS
  StepStartsFromAcceptedState
  FilesHoldAcceptedSolutions
PROPERTIES
  ImplementsMarch
