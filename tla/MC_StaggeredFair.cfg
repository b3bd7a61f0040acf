SPECIFICATION FairSpec
CONSTANTS
  Scale = 2
  Config <- TwoIterations
  Staggered = TRUE
  MaxCoupling = 2
  OutputPairs <- OneThenEveryThird
  OutputTimes <- ThreeAndFive
  IterationCounts <- FewOrMany
  FailureIterations <- FirstOrMax
  MaxRejected = 2
  MaxDouble = 1000
PROPERTIES
  RejectedStepIsReduced
  
  Terminates
